# qemt: TLA+ models, model checking and proofs

qemt ("Q Emergency Tools") is a set of 74 small static Unix tools written in C
without a libc, for machines whose own userland no longer works. There are no
threads and no tests. What is hard in it is where it meets the kernel: child
processes and pipes, reads and writes of any size, failing calls, a tool that is
killed half-way, and the bit-level formats it decodes. The modules beside this
file model those parts from the code in `src/`, check them with TLC on small
instances, and prove the most important facts with TLAPS for all values of
the constants.

    tlc -workers 2 -config MCSh.cfg MCSh       # a run
    tlapm Text_proofs.tla                # a proof

## 1. Inventory

Every tool is one `X_main(argc, argv, envp)` in `src/tools/X.c`, started by
`QEMT_ENTRY` (`include/syscalls.h`); the headers hold inline system calls, string
primitives and a few shared algorithms. Tools interact only through files,
file descriptors, pipes, process exit statuses and the environment.

| component | state it keeps | operations | what is hard | what makes it correct |
|---|---|---|---|---|
| shell, `sh.c` | line, segment loop, `prev_fd`, `pipefd`, pid, `status`; environment table | script and interactive loop, `execute_line`, `execute_cmd`, builtins | interleaving of shell and children, copies of pipe ends in all of them, unchecked `fork` and `pipe`, strays | no pipe end leaks, every line is answered, every child ends, a status belongs to its command |
| grep, uniq | 64 KB buffer, `buf_len`, `line_start`; matches, previous line and count | block loop, per-line handling, file loop | reads that cut lines anywhere, a line as large as the buffer, read errors | the lines seen are the input's; answers, status and groups are those of the whole input |
| `read_line` (`io.h`) and its loops (cut, sed, xargs, diff, sudo, passwd lookups, sh) | one line, its length | byte-wise read, loop while positive | blank and over-long lines, errors in the middle of a line | the loop sees all lines |
| DEFLATE decoder, `deflate.h` | bit buffer, Huffman tables, window ring, output buffer, counts | table building, symbol decoding, block loop, copy, flush | ring wrap and overlapping copies, short writes, zeros read behind the input's end, unused and over-subscribed codes | output is the contents, in order; indices in bounds; it ends |
| gunzip, zcat | options, file list, mapped archive, output file | open, map, parse, inflate, close, unlink | failures and kills between steps, running again, existing outputs, flawed archives | no sound archive is lost, nothing else is touched, no partial output stays |
| tar, ar | member loop, 512-byte blocks, remaining size | create, extract, list | a file that changes between `lstat` and `read`, short reads, skipping | headers stay aligned; extract inverts create |
| cat, cp, dd, tee, head, tail | buffer, remaining count, what tail holds | copy loops | short and failing reads and writes, several outputs, counting | output is the right part of the input; reports are true |
| rm, mv, cp -r, mkdir, rmdir, ln, find, du | path, directory buffer, result so far | tree walks, renames | one step of several failing, entries that come and go, links | nothing else is touched, everything named is handled, the status tells |
| chmod, chown, touch, mktemp, readlink, realpath, stat, ls, df | none | one call for each operand | - | - |
| sed, sort, cut, paste | the line in hand, its number; sort's buffer | line loops, `sort_lines` | addresses, several matches, boundaries | equality with a reference definition |
| diff | `lines_a`, `lines_b`, `line_storage`, two indices | `read_lines`, `simple_diff` | look-ahead, limits, ends of files | its output applied as a patch gives the second file |
| wc, tr, strings, nl, xxd | state of a word, run or line | byte filters | pieces cut anywhere, several files | equality with a reference definition |
| xargs | line buffer, `cmd_argv` into it | batch and run | the buffer is filled again | each word reaches exactly one command |
| nc | socket, one buffer | relay | two directions, a full socket, half-closed ends | nothing is lost or reordered, it ends when a side does |
| wget | socket, header state, output file | resolve, connect, request, response | pieces, early close, failures | the file is the body; a failure leaves the old file |
| sudo, `auth.h`, `qemt.conf` | user ids, authorisation, terminal echo | authorise, ask password, change ids, exec | order and failure of steps, files edited meanwhile | runs as configured, or not at all; without the caller's groups; the terminal's echo comes back |
| md5, sha256 | block buffer, length | update, final | padding at block boundaries | the blocks hashed are the padded message |
| nohup, kill, ps, free, uptime, which, env, sleep | none to speak of | signal set-up, exec, reports | signal dispositions across exec | - |
| mount, umount, reboot, dmesg, lsblk, date and other system tools | none | one call and a report | calendar arithmetic | - |
| `qemt.sh`, Makefile | `PATH`, `QEMT_ORIG_PATH`, `QEMT_ACTIVE` | on, off, status, list | sequences of on and off with changes in between | - |

`PROJECT.json` lists the same components with their sources and status, and
under "hazards" what is hard to test in each, at its line, with the properties
that would catch it.

## 2. Modules

    Jobs  <---refines---  Sh  <--- MCSh
    LineStream <- LineTools <- MCLineTools <- MCText -> ReadLine <- MCReadLine
    Huffman <- MCHuffman <- MCDeflate -> Inflate
    Gunzip <- MCGunzip <- MCArchives -> Tar
    Relay Response Sudo Dd Diff Xargs Tree <- MCTools -> Streams Filters Editors
    LineTools ReadLine <- Text_proofs    Huffman Inflate <- Deflate_proofs    Tar <- Tar_proofs
    Relay Response Sudo Dd Diff Xargs <- Tools_proofs    Gunzip <- Gunzip_proofs    Sh <- Sh_proofs
    Tree <- Tree_proofs    Lemmas <- Sh_ Text_ Deflate_ Tar_ Tools_proofs

**Jobs** is the abstract specification of what a shell promises about processes:
a line is launched process by process, each is collected once, and the line is
answered when none is left; only a line that could not be launched to its end is
given up, and its processes become strays collected later. **Sh** is
`tools/sh.c`. The shell's control points are `pc` = prompt (waiting for a line),
launch (at `fork` of segment `seg`), close (the parent after `fork`, 305-307),
wait (`wait4(pid)`), reap (`wait4(-1)` loop, 313), answer (return). `sys_fork` is the raw call: a failed one
hands back `-errno` (`FailedFork`), and `wait4` of that asks for process group 11, in which no child is, and
fails at once with `status` still 0. A child is
forked, running, zombie or reaped; between `fork` and `exec` it holds a copy of
every pipe end the shell had open, which `ChildExec` reduces to its own. The
kernel's part (pipes with a capacity, blocking, SIGPIPE, end of file when the
last writer is gone, `wait4`) and the programs run are external: a program is
known by what it does with its streams. `Sh` is shown to implement `Jobs` by the
refinement mapping at its end, as property `ImplementsJobs`.

**LineStream** is the loop of `grep_stream` (grep.c:82-127), which uniq.c:38-80
repeats word for word: `Read`, `Emit` (one line found in the buffer) and `Shift`
(moving the rest to the front and deciding to go on). `buf`, `bufLen`,
`lineStart` and `n` are the code's; `base`, `pos` and `out` are history.
**LineTools** extends it with the per-file state of `grep_stream` (`lineNum`, `matchCount`, `fileRet`; what is
printed is `answers`), `grep_main` (files that cannot be opened, `ret` put together from theirs in
`StreamReturns`) and `uniq_main` (groups, counts, the 4095 bytes remembered of a line).
**ReadLine** is `read_line` (io.h:74) together with the loop its callers run.
**MCText** runs the two side by side.

**Huffman** is `inf_huff_build` and `inf_huff_decode` (deflate.h:78-109); one
action is one turn of the decoding loop. The place a symbol is stored at is
given in closed form (`Slot`): the loop with `offsets[]` stores each symbol behind
those of smaller length, counted with the unused ones, and behind earlier ones of
its own length. **Inflate** is `inflate_to_fd` with `inf_emit` and `inf_flush`:
`Header` (block type, sizes, tables), `EmitLiteral`, `BeginCopy`, `CopyByte`,
`BlockEnds`, `BadCode`, and the flush with short (`FlushWrite`) and failing
(`FlushFails`) writes. Its input is the sequence of symbols the bits decode to;
`zero` is the symbol a block's all-zero code stands for, which is what is read for
ever behind the end of the input. **Gunzip** is the file loop of `gunzip_main` and
`zcat_main` over a file system that says of each file whether it is an archive
(sound or flawed), contents, part of contents, or something else. What
inflating yields is abstracted from Inflate: a sound archive gives its contents
or, when a write fails, part of them and -1; a flawed one may give anything. `UnlinkFails` is an unlink that is
refused: gunzip does not look (gunzip.c:130, 136) and goes on, and the part is in `stuck`. The raw `mmap`
hands back `-errno`, which never equals `MAP_FAILED` (89), so a failed one is no `CannotStart`: gunzip reads at
that address and is killed there, which is `Kill`.
The user may kill the tool at any point and run the same command again.

**Tar** is `tools/tar.c` from both ends. `tar_create_recursive` takes the
names still to be added from `todo` (`MemberGone`, `AddMember`) and copies a file block by
block (`OpenMember`, `CopyBlock`, `MemberCopied`) while another process may change it
(`Change`); `EndArchive` writes the two zero blocks. `Deliver` hands all of the
archive, or its beginning, to `tar_extract` (`BadHeader`, `ExtractOther`, `CreateFile`,
`CannotCreate`, `ExtractBlock`, `MemberCutOff`) or `tar_list` (`ListMember`); both share
`NoMoreBlocks` and `SkipZeroBlock`. `dst` has one tree for each directory `-C` may name. A file whose name ends
at a link, or comes through one, is opened through it (153): its contents go where the link leads and tar says
nothing; such members are in `astray`.

**Streams** is the loop of cat, cat -n, tee, head, tail and cp: outputs opened first
(`OpenOutputs`), files opened one by one (`OpenInput`, `CannotOpen`), `ReadPiece` with the piece
processed as the tool does (`Process`: numbered, counted, held, passed on), the end of a file
(`ReadEnds`, `CloseInput`), then writes. Three kinds of writing are told apart because the code has
three: a single unchecked `write` (`WriteOnce`), byte by byte (`WriteByte`), and cp's loop over short
writes (`WriteRest`, `CopyFails`). `cutShort` are the outputs that did not take all. Input is
taken as fixed while the tool runs, and no output is also an input. head and cat -n print each byte as a
string (head.c:39, cat.c:57), so a byte 0 is not printed; `Octet` has none. **Dd** is `dd_main`: the checks and
calls in front of the loop (`CheckSize`, `OpenIn`, `OpenOut`, `Allocate`), each of which may end it, then
a block read (`ReadBlock`) and written in as many parts as it takes (`Write`, `WriteFails`). Where
`lseek` goes is `Position`: `skip * bs` as 64 bits hold it, nowhere if the stream cannot be positioned
or the offset is negative. `records` are the five counters dd reports. **Filters** is wc, tr, strings,
nl, md5sum and sha256sum as one automaton over bytes, fed piece by piece; `Final` is
the padding of the hashes, whose compression function is uninterpreted (`Block`).
**Editors** is sed, cut, sort and paste over lines: `TakeLine` is one turn of a
`read_line` loop (sed's commands, cut's columns), `ReadText`, `Split`, `Insert` and
`PrintSorted` are sort's stages, `ReadSerial` and `PasteRow` the two modes of paste.
**Diff** is diff.c: `StoreLine` and `LoopEnds` are `read_lines`, `Match`, `Delete`, `Add`,
`Change` and `Remaining` the branches of `simple_diff`; `linesA`, `linesB`, `ia` and `ib` are its variables.

**Relay** is nc: set-up (`Connect`), then one pass of the loop after another: read what is
typed, send all of it (`Send`, short writes; `SendFails`), read the answer and show it.
User and peer are external. **Response** is wget from URL to saved file: `Resolve`,
`DnsAnswer`, `DnsLost`, `ConnectHost`, `SendRequest`, then `Recv` in pieces, each of which ends the
header, is dropped in front of its end, or is body. **Xargs** keeps `cmd_argv` (`cmdArgv`) as the places in
the line buffer it points to, so that what a command gets is what stands there when it
runs; `origin` is history. A line of `LineMax - 1` characters leaves its newline to the next `read_line`, which
returns 0 for it, and the loop ends (`LeftItsNewline`). **Tree** is the tools that walk or change directories: `walk` is the
stack of the recursive calls with the piece of each directory `getdents64` gave
(`Fill`), `NextEntry` handles one entry as rm, find, du or cp does, `EndDirectory` returns, `OneCall`
is the tools that make one call for each operand; `Meddle` is another process that makes and
removes one name, `Guest`: a file or a directory, and where rm runs also a link to any directory. rm's `lstat`
(`RmEntry`) and the `open` or `unlink` behind it (`RmCall`: `RmOpen`, `RmUnlink`) are steps of their own, with
the call that is due in `due`; `open` has no O_NOFOLLOW (rm.c:36) and follows a link put there in between,
which `strayed` records. `lstat` may fail for what is there; `missed` are the operands it did so for with -f. The kernel's tree is a function from the paths that exist to nodes;
`At` and `Through` are its two ways to look a path up, and `CanUnlink`, `CanRmdir`, `CanMake` and
`CanRename` say when a call may succeed. `moved` is history: the renames that went well, in order.
The trees of `Forest` are any that are trees (`Rooted`) and whose links name no other link
(`LinksLead`); a path goes through at most one link on its way, one through a second names
nothing, which no operand of the runs does. **Sudo** is `sudo_main` with both readings of the configuration
(`Authorize`, `NoPasswd`), every search of passwd (`ByUid`, `ByName`), the prompt, and the
changes of identity; `Edit` replaces either file in between, and `hadConf` and `hadPasswd` remember
what the files have been. `SetGroups` may be refused and goes on all the same (sudo.c:195); `Killed` is a signal,
at the prompt or elsewhere, which finds no handler.

**MCTools** puts these ten side by side: a behaviour is one command of one of them. It
extends `Relay`, `Response`, `Sudo`, `Dd`, `Diff`, `Xargs` and `Tree`, about which there are theorems, and instantiates the others;
these share variables where their types allow it, and those of the other tools rest.

The proof modules hold theorems, their lemmas and the inductive invariants; **Lemmas** has what
several of them need of numbers: a least element, induction up to a bound, that a recursion over
0..N has a solution, ranks in a finite set, and remainders. `MCX` modules give the constants their
values.

## 3. Runs, bounds and what they show

| run | states | bound | properties |
|---|---|---|---|
| `sh` | 48 473 | two lines out of nine (1 to 3 segments; cd, exit, missing, redirects, filters, a pipeline cut short), one unit per pipe, failing `fork` and `pipe` | `NoLeakedEnds`, `SingleStatusIsOwn`, `LineReturns`, `EveryChildEnds`, `ImplementsJobs` |
| `text` | 248 446 | every input of up to 5 characters (6 for `read_line`), pairs of files of up to 2, buffer of 5, `prev` of 4 | `TypeOK`, `LinesFaithful`, `NothingHeldBack`, `UniqGroups`, `GrepAnswers`, `ReadsWholeFile`, `ToolEnds` |
| `deflate` | 25 650 | window 3, output buffer 2, streams of up to two blocks; all tables of up to 4 lengths of up to 3 bits, all inputs of up to 3 bits | `WindowIsPast`, `OutputInOrder`, `IntactIsInflated`, `InflateEnds`, `IndexInTable`, `DecodesWhenAllUsed` |
| `archives` | 10 159 019 | gunzip: up to two files, 48 file systems, all options, two kills; tar: directory with a file, file, link; files of 0 to 3 bytes, blocks of 2, one file changed; four trees to archive and to extract into | `SoundNeverLost`, `NoPartLeft`, `AllInflated`, `OnlyAsked`, `RoundTrip`, `NoSilentCut` |
| `tools` | 1 673 851 | one command of one tool, see below | `OutputFaithful`, `DdAccounts`, `FilterFaithful`, `EditorFaithful`, `DiffApplies`, `WordsOfALine`, `LosesNothing`, `StatusTells`, `WalkOnce`, `CopyFaithful`, `RelayFaithful`, `RelayEnds`, `BodySaved`, `FailureKeepsFile`, `OnlyGranted`, `RunsAsAsked` |

The bounds are chosen so that the interesting cases occur: two lines because the
strays of the first are what the second may wait for by mistake; three segments
because the middle one holds an end of both pipes; a pipe of one unit so that
writers block; a buffer that a line of the input can fill exactly, exceed, or
share with others; a window that wraps and a buffer that fills in the middle of
a copy, and distances that reach before the first byte; tables that are
incomplete, complete and over-subscribed; two kills so that a repeated run is
itself cut off; files shorter and longer than a block, and one of zeros only,
which must not pass for the end of the archive. In `tools`:

* Streams: every file of up to 5 bytes, pairs of files and missing ones, pieces of 1 and 2
  bytes, 4 bytes held by tail, three outputs of tee. A line, a block and the lines asked for can
  each be cut by a read, and any read and write may fail.
* Dd: all combinations of skip, seek, count and failing `lseek` with blocks of 0 to 4 bytes, of
  which 2 fit on the stack and 3 are allowed, and offsets that wrap at 16.
* Filters: every file of up to 4 bytes, messages of 0 to 9 bytes against blocks of 4, so
  that mark and length fit into the last block, do not, or fill it.
* Editors: every file of up to 4 characters (5 for sort's limits), lines of up to 3, all
  options of sort, 23 scripts of sed, the last with two commands. Diff: every pair of files of up to 3 lines of
  three kinds (one is blank), and of 5 lines against limits of 4 lines and 21 bytes,
  with `Look` = 3, so that matches lie inside it, at its end and behind it.
* Xargs: one line of up to 4 characters or two of up to 3, a line of 4, which fills the buffer, in front of another, `-n` of 0 to 3, a vector of
  3. Relay: three bytes either way, a buffer of 2, a socket of 1. Response: headers and
  bodies cut anywhere, bodies that contain the end of a header, every way of
  resolving. Tree: two trees over three names, all operands, directories read two entries at
  a time, one name (`<<b, b>>`, in the first tree an empty directory inside another) made and removed by
  somebody else. Sudo: eight configurations, three passwd
  files, one of which may change while it runs; the proofs lift that to any number of edits.

Nothing in the code depends on the absolute sizes (65536, 4096, 32768, 8192)
beyond what these relations show, and the proofs cover every size. Each of the
bounds is a constant named in its module; `MaxLines` of Sh,
`MaxTotal` of Inflate, `MaxKills`, `MaxChanges`, `Meddling` and `Edits` only bound the behaviours.

`CHECK_DEADLOCK FALSE` stands in every configuration because all of these programs
end, and the shell may wait for a line for ever; that they do come to an end where
they should is what the liveness properties say.

Seven runs end in a violation and document a disagreement between the code and
what the repository says about it:

* `read_line_eof` - io.h:73 says `read_line` returns "0 on EOF"; it also
  returns 0 for a blank line. Loops over it stop there; the interactive
  shell leaves (sh.c:381), although sh.c:385 means to go on. `ReadsWholeFile` states
  under which condition loops do see the whole file.
* `huffman_rfc` - unused symbols are counted into the offsets (deflate.h:89) and
  shift the table against the decoder, against RFC 1951 which deflate.h:2 names;
  dynamic blocks practically always have unused symbols. `DecodesWhenAllUsed`
  shows that the fixed tables, where all are used, are decoded right.
* `gunzip_crc` - the stored CRC and size are parsed and not compared
  ("used by gzip verification", deflate.h:16): a flawed archive
  may be removed for an output that is not its contents.
* `tar_dir` - README.md:41 and 44 tell the user to run `tar xf data.tar -C /`. `-C`
  is not an option of this `tar` (tar.c:335-346): it is passed over, its operand is ignored,
  and the members are extracted below the current directory without a message.
* `xargs_lines` - words of a line that did not fill a batch are read from the buffer after
  the next line was put there (xargs.c:57). `WordsOfALine` shows that commands whose words come
  from one line are right.
* `paste_serial` - `paste -s` never writes a delimiter, because the counter that
  decides on it starts at 1 (paste.c:73, 79).
* `cp_recursive` - `cp -r` (cp.c:63: "Copy directories recursively") makes the directories inside the one
  it copies and leaves them empty (cp.c:121-123).

Premises worth knowing:

* `SoundNeverLost` and `AllInflated` assume that no output of the command is one of its
  inputs (`Separate`): `gunzip -f a.gz.gz a.gz` truncates the second before reading it.
* A failed `fork` under a redirect or in a pipeline is answered with status 0 (sh.c:245, 297), as if the command had
  run; nothing says otherwise, so no property does. That `wait4(-errno)` finds nobody rests on group 11 not
  holding a child of the shell, which makes no groups.
* `GrepAnswers` speaks of files without a line that fills the buffer and without a failed read (`Intact`); the
  status may also come from what was read of others. `UniqGroups` speaks of inputs whose lines fit: `prev`
  keeps 4095 bytes, so longer equal lines are never equal (uniq.c:62).
* `LineReturns` and `EveryChildEnds` except a pipeline whose pipe could not be made, where a
  source that never ends copies to the terminal for ever (`Endless`), because that is
  what the user sees too.
* `RoundTrip` speaks of archives in which every member has the data its header promises
  (`~short`): when a file shrinks or vanishes between `lstat` and the last `read`
  (tar.c:309), `tar c` writes fewer blocks than it announced, says nothing, and the members
  behind it are misread. That is so too when it shrinks and grows again in between: a read that
  gives less than a block is filled up with zeros in the middle of the member, which then has a
  block too many. A file that only grows or is rewritten harms only itself. A member that went through a link
  already there (tar.c:153) is elsewhere although tar reports success; the property shows that this needs a link
  at its name or above it, which is still there (`astray`). `NoSilentCut`
  does not say that an archive cut between two members is noticed: it is not (tar.c:92).
* `OutputFaithful` speaks of runs without a failed read and of outputs that took all
  they were given: cat, tee and tail write once and do not look at the result. Of tail it speaks where the lines
  asked for fit into what it keeps (`TailFits`): the last 64 KB of a file, and of standard input only the first
  (tail.c:83, although 2 and 78 say "last part" and "print last N"); behind that it shows other lines, or parts, without a word.
* `FilterFaithful` speaks of runs of strings and lines of nl that have room in their buffers (`RoomForAll`): the
  end of longer ones is dropped silently (strings.c:24, nl.c:57). nl numbers all lines by default (nl.c:14),
  although its usage calls `-bt` the default (nl.c:23).
* `WordsOfALine` promises all words only where no line but the last is as long as the buffer takes (`LinesEnd`):
  `read_line` leaves the newline of such a line, returns 0 at the next call (io.h:77-84), and xargs ends with
  the lines behind it unread (xargs.c:45); what it promises then are the words up to that line's end. A fork that failed
  is not noticed, and its words are lost.
* `DdAccounts` holds whatever fails, where `skip * bs` and `seek * bs` are offsets `lseek` knows. Others
  wrap or are negative (dd.c:65, 70), and dd copies from or to another place without a message.
* `BodySaved` leaves out a header whose end two calls of `recv` share: it is looked for
  inside one piece (wget.c:335), so nothing is saved, and wget still reports success.
* `EditorFaithful` speaks of files without blank lines for sed and cut, which end at one;
  of one command of sed, since `s` prints its line at once and does not hand it on; and of texts within sort's limits,
  behind which the rest is dropped. `$` as the first address does not find the last line (sed.c:60) and is excepted,
  and so are lines that `s` makes longer than its buffer, which cuts them (sed.c:81, 84, 88). sort joins the last line
  of a file that has no newline at its end with the first of the next (sort.c:67), and drops a blank line at
  the end of everything (sort.c:85): both are excepted (`Terminated`, `DropBlankEnd`).
* `OnlyGranted` takes the configurations and passwd files there have been while sudo ran: every
  question reads its file anew, so the answers to two of them may stem from two versions. Who stands behind a
  blank line is not found (auth.h), so only somebody in front of all of them is promised not to be turned away.
* `RunsAsAsked` allows a command to run with group 0, or without a name in its environment, when
  passwd has forgotten the user between the questions. README.md:193 says that supplementary groups are cleared;
  sudo.c:195 does not look at the result, so they are kept where the kernel refuses (`refused`). A signal
  at the prompt ends sudo with the terminal's echo off (io.h:93-110), the only way to leave it so.
* `NoPartLeft` excepts the output of a flawed archive, which may pass for whole because the
  stored CRC is not compared, a run that was killed, and a part whose removal was refused (gunzip.c:130).
* `DiffApplies` is said of the lines diff stored. It stores none behind a blank line, so
  diff returns 0 for files that differ only there.
* `CopyFaithful` excepts a file that cp is told to write over itself, which is emptied, or that another
  of its copies goes to, and places two sources are copied to. A link in an existing destination is
  written through (cp.c:24), so where a copy goes is `WasThrough` of its name. It promises a copy
  only where the directory for it was there or cp -r makes it unhindered, and nothing of what lies
  deeper than one level (`cp_recursive`). cp's calls fail only for what is in the tree: a full disk
  (cp.c:37) is not represented.
* `LosesNothing` excepts, for rm, what it reached through a link the other process made: a directory
  replaced by a link between rm's `lstat` and `open` (rm.c:15, 36) is walked where the link leads. It shows that
  nothing else can take rm out of its operands. A status of 0 is not promised for an operand that rm -f's
  `lstat` failed for, whatever the failure: it counts as absent (rm.c:15-17). Links of the other
  process are made only where rm runs; what they do to the paths of the other tools is left out.
* `LosesNothing` allows what mv moved to be moved on by a later operand (`mv a c/a/f c`, where the
  second rename takes `f` out of the directory the first has put into `c`) or replaced by one
  (`mv a b/a c`); `StatusTells` says nothing of an operand that is the other process's own entry. Both
  promised too much at first, which no operands of the small instance showed and the proof did.
* `RelayFaithful` says that the side that ended the relay was heard out, not the other one: nc ends
  with its input and does not wait for the answer (nc.c:52).

## 4. Fairness

`Sh`: weak fairness for the shell unless it is at its prompt, since nobody has to
type a line, and for each process: the kernel schedules every runnable process,
and all blocking is expressed in guards. Nothing is assumed about who runs
first, and `wait4(-1)` may return any zombie. `LineStream`, `LineTools`, `ReadLine`
and `Inflate` are single loops that never wait for another part of the model: weak
fairness of the next step says only that the program keeps running and its reads
and writes return. `Relay` is fair to nc once it is connected, because its loop never waits longer than
its sleep of 10 ms (both descriptors are non-blocking, nc.c:31-34); user and peer are
not fair, and neither is the waiting for a connection. The other modules state safety only.

## 5. Proofs

The theorems are listed in `PROJECT.json`. Each is of the form `Spec => []P`,
`Spec => [][A]_vars`, or, for the refinement, `Spec => ImplementsJobs`, for every value of
the constants that satisfies the assumptions named in the component's module (sizes are
positive, characters are distinct, inputs are sequences over them; `MaxSegments` of `Sh` is 16 as in
the code). Where a module has two invariants, the second (`JInv`) rests on the first (`IInv`).

* `Sh_proofs`. The invariant relates the loop of a line (`Position`), the two variables
  the shell keeps its pipe ends in to the ends it holds (`ShellEnds`), every process to the ends it
  holds (`ChildEnds`: before `exec` also the other end of the pipe it writes to), pids and pipes
  to how many were made so far (`Numbered`), and the processes to whom the shell waits for
  (`Waits`). `Numbered` is what keeps everything else apart: pids and pipes are given in order, so the
  next ones are fresh, and no two processes write to one pipe. `NoLeakedEnds` is `ShellEnds` at the
  prompt. `SingleStatusIsOwn` is `Waits`: `wait4(pid)` cannot collect a stray, and where `fork`
  failed nothing is waited for. `OneWriter` follows from `ChildEnds`: once the shell has
  closed its copy, the write end of a pipe is held by at most the running process whose output it is,
  which is why the next filter sees the end of its input. For the refinement each action of the
  shell, in a state of the invariant, is one action of `Jobs` or none (`EnterStarts`, ...,
  `CloseEndsUnseen`, ...); `ImplementsJobs` then holds for any number of lines.
* `Text_proofs`. The invariant of the block loop says where the next line starts:
  `base + lineStart` is one behind the end of the last line while scanning, and nothing in front of it is
  still to come. No newline remains between `lineStart` and the end of the buffer at a read, which is
  why the rest may be completed later, and the loop ends only after a read that gave
  nothing. `BufferFaithful` - what is buffered is the input, in place - is part of it. The
  second part carries it through the file loops of grep and uniq. The lines handed
  out of the file in hand are the first lines of that file as `LinesOf` defines them, by rank (`LinesOut`);
  uniq's counters describe the one group that is still open (`OpenGroup`), and what was printed are the
  groups in front of it. The third part is `read_line`: from the start of the line the loop is in,
  to where it has read, there are whole buffers and then the line in hand (`Tiled`), so the loop can stop
  short of the end only at a newline behind a multiple of the buffer.
* `Deflate_proofs`, first part. `WindowIsPast` is inductive once `winpos` is the number of bytes
  emitted: writing position `winpos % W` overwrites exactly the byte `W` back. Two positions
  at most `W - 1` apart are different in the ring. `OutputInOrder` needs that `flushed` is 0
  outside a flush and that a full buffer is flushed before the next byte. For `IntactIsInflated`
  there is one conjunct for each point of the loops (before a block, between two symbols, within a
  copy, at the end) that says how much of the contents is there, also while a full buffer is
  flushed at that point; a copy that reads what it wrote itself repeats the last bytes, which is
  arithmetic of remainders (`RepeatStep`).
* `Deflate_proofs`, second part. `IndexInTable` for every table, including lengths that no
  prefix code has: the invariant bounds `index` by the number of symbols of shorter
  lengths (a sum of cardinalities, hence the lemma on disjoint sets) and `code` from
  below by `first`. For `DecodesWhenAllUsed` the places of the symbols of one length are shown to be
  consecutive, in order and behind those of shorter ones (`Places`), so that no two share one
  (`SlotsDiffer`); while decoding, `first` is the first code of the length, `code` twice the value
  of the bits read, and the codes `Left` over by the shorter lengths bound how far `code` can be from
  `first` (`Path`): a complete code has none left, so that decoding does not give up.
* `Gunzip_proofs`. `SoundNeverLost` by relating the control point to the file in hand:
  while inflating and on failure the original is untouched, and after success the
  output is complete before the original may go. `NoPartLeft` says where every partial file comes
  from (`PartsExplained`); it needs no `Separate`, because no output ever is an archive, so that all
  archives in the file system are old ones (`ArchivesAreOld`). `AllInflated` says of every file the
  loop has passed that what was asked is done (`Passed`); a file named twice is the
  case that needs care, since its second turn finds it gone, or kept and its output there.
* `Tar_proofs`. While the archive is written, the invariant says how it is laid out, as long as
  nothing failed and no file lost what its header promised (`Laid`): members do not overlap
  (`Apart`), every block between two of them belongs to the one in front (`Owned`), and header and
  blocks of a file that was not changed are right (`HeadersRight`, `BlocksRight`); of the member in
  hand, as many blocks are there as were read (`Copying`). That what is below an archived
  directory is in the archive or still in `todo` is `Reached`, whose step relies on names: behind the
  directories above a directory comes, on the way down, an entry of it (`NamesBelowNames`). `Deliver` keeps a
  beginning of all that. While it is read, the reader is behind the last block of a member whenever it
  looks for a header (`Boundary`), so what it finds there is a header or a zero block behind
  all members (`HeadBlock`), and what it has passed is restored (`AtHead`, `Extracting`: of the
  file being extracted the first blocks, cut to its size), unless it went astray behind a link. A member named
  twice is restored by its last header. `NoSilentCut` follows because only a reader that ends where a header should be
  returns 0; `RoundTrip` follows with `todo` empty, for names as `Reached` has them, and
  the listing by counting the headers up to the reader (`Rank`).
* `Tools_proofs`, nc and wget. `RelayFaithful` is inductive together with the types and `Ended`, which
  relates the step nc is at to what it holds and to why it ended. What needs work is
  that cutting a sequence by a short write and joining its parts again gives the
  sequence, for which the lemmas on `First` and `From` stand in front. `BodySaved` and
  `FailureKeepsFile` of wget hold for every response and every way `recv` cuts it: while the end of the
  header is looked for it lies ahead of what was received, as long as no two calls shared
  it (`Searching`); so the first end found in a piece is the first of all (`FoundFirst`), and a piece
  without one lies in front of it (`NotFound`). Behind it the file is, element by element, what was
  received of the body (`Held`). The smallest place of an end exists by `Lemmas`.
* `Tools_proofs`, sudo. Every question reads a file that may have been replaced since the last
  one. The invariant remembers the answers: what was granted is granted by files that there have
  been (`Decided`), whatever they are now, because the sets of these only grow; the
  identity is put together from three such answers (`Whose`). A refusal is the last thing that
  happens, so it can be compared with the files it was read from. `Ending` has the terminal's echo, the caller's
  groups and the status, with a signal at any step. Nothing depends on `Edits`: the theorems hold for any number of them.
* `Tools_proofs`, dd. The invariant says where dd is (`InPlace`): what was read is the input from behind what was
  skipped, what is left of the block in hand is the end of that, and the output is the hole and the
  rest of it in front (`Done` bytes). `Reported` relates the counters to it: the block in hand is in the
  records in and not yet in those out, and as long as no read came short the bytes read are a multiple of
  the block. That and the reason why the loop ended (`Ahead` or `GoesOn`) give the size of the output
  when nothing failed. The work is in parts of parts of a sequence (`PartOf`, `Joined`, `PartOfPart`)
  and in products, of which the prover is told what it needs (`Times`, `InOrder`).
* `Tools_proofs`, diff. A hunk stands right behind the lines of either file that the one before leads to,
  and the lines in between are the same in both (`Chained`); so do the lines up to where the comparison
  is (`UpToHere`). A `Delete`, `Add` or `Change` adds a hunk, a `Match` a line that is the same. From this
  `PatchedIs` says, by induction up to the number of hunks, what patch has made of the first `n` of
  them: the beginning of the second file up to where the n-th leads. Where the look-ahead found a line
  again does not matter for it, nor what was stored, so it holds for any `Look`, any limits and wherever reading
  stopped.
* `Tools_proofs`, xargs. The invariant says what is in the line's buffer (`Holds`): behind the cursor the line
  as it was read, in front of it the same words, each with a NUL behind it. So a pointer to a word of the
  line in hand shows that word, and what the commands got together with what the vector shows are the
  words so far (`Accounted`), unless the vector has a pointer of an earlier line (`Stale`): then
  nothing more is known of it, and the command that is run with it sets `spanned`. A line that fills the buffer
  is the last one that is read, so the words so far are `WordsTo` the lines read. That the next word in
  the buffer is the next word of the line is `NextIs`. The words of an input are made by `FlattenSeq`, of
  which the lemmas in front of this part say that it joins one part after the other (`FlattenUpTo`). Between
  two words the vector is empty or has fewer than `-n` (`Counts`), so a command has no more than that.
* `Tools_proofs`, the copying tools. `CopyInv` says at every step what an output that was not cut
  short holds: with what is pending for it, all that was due up to then (`AllWritten`), which is the shares
  of the files before (`SharesTo`), the heading, and what is shown of the bytes read of this one
  (`ShownTo`). A step either makes more, and then what is due and what is pending grow alike
  (`MoreIsDue`), or moves what is pending into an output. What is shown of a longer part is what was
  shown of a shorter one followed by what is made of the piece in between (`PieceMade`): for
  head because newlines add up over the pieces (`CountAdds`, `HeadOfPiece`), for cat -n because the
  fold over a piece starts with the number and the place in the line at which the one before
  stopped (`NumberedPiece`; across files `LinesCounted`), for tail because what it holds is the end of the
  file and the newlines counted from behind cut it where the property does (`TailIsBottom`). cp has the
  copies up to the file before (`AllCopied`).
* `Tree_proofs`. The invariant says for each tool what is left of the old tree: rm and rmdir,
  and ln up to its link, only remove (`OnlyRemoved`), and what is gone was named or in what was
  (`GoneWasNamed`); mkdir only adds (`OnlyMade`). That paths are looked up in a tree that changes is
  the difficulty: the central lemma (`Resolves`) says that a path that leads into what is left leads
  where it led at the start, because a link that was not removed is the one that was there. rm is in
  the operand it took last, and went through no link behind it (`WalksOperand`), so that what it
  removes lies in what the operand named; it removes a directory only when it is empty, hence nothing
  beside it. Between `lstat` and the call that follows, the invariant says of the path in `due` what it says of the
  walk, so the other process may act there; it makes links too, and what is known of rm's way holds until `strayed`. `OperandsGone` and `OperandsMade` carry the status from operand to operand, and need that
  `ret` is 0 only as long as nothing failed. For mv the property itself is inductive: an old entry is
  kept, replaced, or follows the renames in their order, each of which moves a directory with all that is
  in it (`Renamed`). cp makes no links and removes none (`SameLinks`), so that every name leads where it led
  at the start; it changes only where a copy goes (`OthersKept`), and a new entry is a directory where one
  was copied to, or a file where something was (`NewDirs`, `NewFiles`): without these two, the place of one copy could
  be a directory by the time it is written. What the walk was given of a directory was in it (`CpWalk`),
  and what cp is done with is copied (`AllCopied`), which every later write preserves because it goes
  elsewhere or has the same source. Trying to prove `CopyFaithful` showed that its first form was false
  outside the small instance (links in an existing destination, an operand that is another one's
  destination, `cp -r` onto a file); it is now stated by where each copy goes (`WrittenTo`). The other process's entry is excepted by name throughout, and nothing depends on how
  often it interferes, on `PerRead` or on which calls fail.

Functions defined by recursion over numbers (`FirstCode`, `AfterSymbols`, what a loop over
`read_line` has been given, ...) are, to the prover, a choice among the functions that satisfy an
equation; that there is one is `RecursionExists` of `Lemmas`, and each has a lemma that says it
satisfies its own.

Only model-checked: everything under fairness (`LineReturns`, `EveryChildEnds`,
`ToolEnds`, `InflateEnds`, `RelayEnds`), which the prover does not reach; in `tools` what compares a
run with a reference definition by folds over its input (`FilterFaithful`,
`EditorFaithful`), for which there is no induction over data, and
`WalkOnce`, which counts lines and matches patterns in the same way.

## 6. What is not modelled, and why

In the modelled components: splitting a line into words, quotes, variables and the
environment of the shell; grep's pattern language; the bit reader, the extra bits of
lengths and distances and the run-length coding of code lengths; parsing of the gzip
header; limits on the number of arguments;
in tar the splitting of long names, modes, owners and times, and a read from a pipe that
gives part of a block and more later (tar.c:93 takes it for the end); the texts of sed's
commands and of field lists, which appear parsed; modes, times and block counts of files; the layout of
DNS messages; the arithmetic of the hash functions.

Not at all: `ar`, `xxd`, `qemt.sh`, and the tools that make one call and format its result
(`stat`, `ls`, `df`, `ps`, `mount`, `date` and so on), which have no behaviour a model would add to;
`syscalls.h` and `string.h`, whose functions appear by what they do.

Observations made while modelling that no property speaks of, because nothing in the
repository says otherwise: `mv` of two sources with the same last name into a directory keeps
one; `mkdir -p` of what is there, a file or a directory, succeeds (mkdir.c:56), and errors of
the directories in between are not looked at; `ln -f` removes the name before it knows that the link can be made; `dd` reports
nothing of a block of which a write took only part; wget asks a name server once
and waits without a timeout ("stuck" in `Response`), and resolves a `nameserver` line with an address of
version 6 by asking the name server for it, without end (wget.c:103, "killed"); dd takes a failed `mmap` for a buffer
(dd.c:79: the raw call hands back `-errno`, never `MAP_FAILED`), so every read into it fails and it returns 0
with nothing copied, as `Allocate` has it.

## 7. Plan

1. (done) shell job control; block loop and `read_line`; DEFLATE; gunzip and zcat; tar.
2. (done) copy loops, filters, editors and diff, xargs, file trees, nc, wget, sudo.
3. `ar` beside `Tar`, with what both promise (what is extracted is what was added) as an abstract
   specification; the shell's words and environment; grep's matcher.
4. The bit reader and the code lengths of dynamic blocks between Huffman and Inflate, so that
   the two become one machine; the gzip header.
5. (done) proofs: all safety properties of Sh and its refinement of Jobs; of the line tools,
   `read_line`, the decoder, gunzip, tar, nc, wget, sudo, dd, diff, xargs, and of rm, rmdir, mkdir, ln, mv and cp.
