# posixutils in TLA+

This directory specifies the parts of posixutils whose correctness depends on
the order of system calls, on what other processes do in between, on calls that
fail, or on two pieces of code agreeing about a data stream.  The modules are
written from the C++ sources; TLC checks them on small instances and TLAPS
proves the invariants of `rm`, `chown`, `mv`, `compress`, of the utilities that make or
remove a name or an object for each operand, of those that start a command or act on other
processes and the terminal, and of `tee` and `split -b`, and that `mv` and `compress` implement their
abstract specification, for all instances.  Source positions are given as
`file:line` relative to the repository.

## The system

posixutils is about 65 small programs, one per directory, linked with one
library, `libpu`.  No two programs share memory; they interact only through the
file system and through pipes.  What they share is the library code below.

| Part | State it keeps | Operations | What is hard about it | What makes it correct |
|---|---|---|---|---|
| `libpu/walk.cc`, `cmdline.cc`, `app.cc` (operand loops, directory walk) | index of the operand, exit status, working directory, `curdir_fd` | stat an operand, call the actor, descend, go back | failure in the middle of a descent; the status of one operand hiding that of another | every operand is handled, a failure shows in the status, names are resolved where they were read |
| `libpu/lib.cc` (`iterate_directory`, `copy_fd`, `write_fd`, `ask_question`) | descriptors, working directory | open, `fchdir`, read entries, go back; copy blocks | `fchdir` back fails; descriptors run out; names vanish while they are read | descriptors and working directory balance on every path |
| `rm` | as above plus prompts | remove leaves and directories, recursion | other processes change the tree during the recursion | removes all that was asked, nothing else, reports all failures |
| `chown`, `chgrp` | walker, `stat` result | change owner or group, recursion, links | links followed or not; a failure deep in the tree | the hierarchy is reached, each entry where it was read |
| `mv` | operand, two open files, attributes to copy | rename, or copy and attributes | a failure or kill anywhere; source changes while it is copied | data are never lost, set-ID bits never reach a file of another owner |
| `compress`, `uncompress`, `zcat` | open streams, buffer, exit status | compress, replace, clean up | as mv | as mv; no half-written output is taken for a whole one |
| `zopen.cc` (LZW) | string table, code width, bit position, on both sides | write a string, write a code, clear; read a code | both sides widen and clear from the codes alone | what is read is what was written |
| `pax` (list mode) | parser states of cpio, ustar and zip | feed a block to the parser | read(2) cuts the archive anywhere | the listing does not depend on the cuts |
| `tee`, `cat`, `head`, `wc`, `cksum`, `uniq`, `comm`, `sort`, `split`, `strings`, `uuencode`, `expand`, `cmp`, `what`, `grep`, `tsort`, `expr` (modelled), `asa` (not) | counters, the current line, open outputs, pairs, a parse | take a block, a line or a token, emit output | lines and blocks straddle buffers; outputs fail one by one; a circle among the pairs | output is a function of the input alone |
| `ln`, `link`, `unlink`, `mkdir`, `rmdir`, `mkfifo`, `touch`, `ipcrm`, `ipcs`, `pathchk` | status, the path a recursion is at | one to three system calls per operand | other processes between the calls; calls that fail halfway; status of several operands | nothing goes that was not named, one operand does not hide another's failure |
| `nohup`, `nice`, `env`, `time` | descriptors, signal disposition, nice value, environment, a child | set up, then exec; or fork, exec and wait | failure between set-up and exec; which words are the command's; the command killed before or after it is waited for | what is started is what was asked for; the exit status tells who failed |
| `kill`, `renice`, `stty`, `mesg` | hardly any; processes and a terminal belong to others too | look up, read, change | processes end and settings change between the read and the write; several operands | what is changed is what was named, the status tells |
| `diff`, `tput`, `tabs`, `pwd`, `sleep`, `file_mode.y`, `strsplit.cc`, `term.cc` | tables and parse trees | pure computation and output | corner cases of the computation | result equals the definition |
| `id`, `df`, `date`, `getconf`, `basename`, `dirname`, `logger`, `logname`, `tty`, `uname`, `echo`, `true`, `false` | hardly any | query and print | little beyond formatting | not modelled |

PROJECT.json lists every part with its status, and under "hazards" the places
that are hard to test.

## Modules

| Module | Models |
|---|---|
| `FileTree` | directories, entries, permissions, lookup; the kernel as the utilities use it (no code of the repository) |
| `Rm`, `MCRm`, `RmProofs` | `rm/rm.cc`, `__walk_cmdline`, `iterate_directory` |
| `Chown`, `MCChown`, `ChownProofs` | `chown/chown.cc`, `walk.cc` |
| `Replacement` | what `mv` and `compress` promise alike, in terms of where each operand's data are |
| `Mv`, `MCMv`, `MvProofs` | `mv/mv.cc`, `copy_fd`; implements `Replacement` |
| `Compress`, `MCCompress`, `CompressProofs` | `compress/compress.cc`; implements `Replacement` |
| `Channel` | what a coding promises: its reader gets what its writer was given |
| `Lzw`, `LzwProofs` | `compress/zopen.cc`; implements `Channel` |
| `PaxArchive`, `Cpio`, `Ustar`, `Zip`, `Pax`, `MCPax` | `pax/main.cc` (list mode), `cpio.cc`, `ustar.cc`, `zip.cc`, `pax.cc` |
| `FilterIO` | what filters share: descriptors, stdio, the operand loop of `walk.cc` |
| `Blocks` | `cat`, `cksum`, `head` and `wc`: block by block |
| `Compare` | `uniq`, `comm` and `cmp`: one thing against another |
| `Search` | `grep` and `what`: something in each line |
| `Tokens` | `tsort` and `expr`: words |
| `Characters` | `strings`, `expand` and `uuencode`: something is carried from one character to the next |
| `Outputs` | `tee` and `split`, which write to outputs of their own |
| `Sort` | `sort` |
| `Filters`, `MCFilters`, `FiltersProofs` | the filters together, and what is expected of each |
| `Names` | paths, inodes and XSI objects as the kernel keeps them; the operand loop of `walk.cc` for actors that take an operand as it is |
| `MakeRemove`, `Ipcrm` | `ln`, `link`, `mkdir`, `rmdir`, `mkfifo`, `unlink`, `touch` and `pathchk`; `ipcrm` and `ipcs` |
| `Operands`, `MCOperands`, `OperandsProofs` | these together, with other processes at work |
| `Processes` | descriptors, signals, nice values, environment and terminal as the kernel keeps them |
| `Launch`, `Controls` | `nohup`, `nice`, `env` and `time`; `kill`, `renice`, `stty` and `mesg` |
| `Session`, `MCSession`, `SessionProofs` | these together, with other processes at work |

Every module is a state machine with one action per system call or per decision
of the code, and a variable `pc` (or the frame on top of `stack`) that says
which is next.  The variables have the names of the program's where it has one.
History variables, marked as such at their declaration, only record what
happened for the properties to talk about.  Where a definition with the suffix
`Mutant` precedes one that models code, it is that definition with a plausible
bug, used to confirm that a property does depend on the code.

### Rm

State: the tree and its permissions; `cwd` and the number of open descriptors;
one frame per active `rm()` call; the operand loop's index and status.  The
operand set-up (`open(".")`, open of the dirname, `fchdir`) is one action,
`StartOperand`, because nothing else happens between the calls that the
properties could tell apart.  Every other system call is its own action, and
between any two of them other processes may create or unlink a leaf or change
permissions of a directory (`MaxOthers` steps).  Permissions of user, group and
others are one bit each.  A name, while it exists, is never rebound to another
directory or link.

### Chown

State: owners, permissions, `cwd`, `curdir_fd` as the code computes it, the `stat`
result, one frame per active `walk_iterate()`.  `walk()` takes "." and ".." like any
other entry, as the code does.  Between any two calls another process may replace
an entry that is no directory by another file, or remove it (`OtherReplaces`), the
race that five comments of `chown.cc` name.  What it put where is kept in
`replaced`; the properties ask of the entries it left alone what they would ask of
all, and of the others nothing: the file that is changed may be the one that came.

### Mv

State: which inode is at a path, what each inode holds, both descriptors.  An
inode that is open survives its path.  Every system call may fail (`MaxFaults`).
Other processes append to a source, remove it, or create the destination
(`MaxOthers`).  They do not remove a destination, and hard and symbolic links
are left out.  What `mv` or another process creates is an inode nothing has led to
before (`Unused`).  `place` maps the state to that of `Replacement`: an operand's data
are at its source, at its target, or at both; `Replaces` says that every step of
`mv` is a step of `Replacement` under that mapping, or none.  A destination counts
from the moment `mv` has opened it (`Dealt`): the file in the way may happen to hold the
same data.  Of an operand that shares a path with another (`Alone`) nothing is said;
the instance has such a command line, and one for each kind of file in the way of
another.

### Compress

State: files by path, the two streams, the writer's stdio buffer, the return
codes.  `compress()` and `decompress()` have the same shape and are one set of
actions with `rd` and `wr` for their input and output.  A second close of a
stream whose first close failed is undefined behaviour: the program crashes or
goes on.  `-` and the lack of operands
stand for `/dev/stdin` and `/dev/stdout`, each of which may be a file or a pipe; their
names in `/dev` cannot be removed.  The mapping to
`Replacement` is as in `Mv`, with a third place, `"sent"`, for data that have gone
into a pipe, where nothing can keep them.  Data that come from a pipe are in no
file, and what is made of them is only ever sent (`Keeps`).  `declined` has the operands
whose output the user left as it was.  Of a file that two operands name (`Alone`) nothing
is said; the instance has one, and a FIFO among the operands.

### Lzw

State: the two `s_zstate` structures, the groups of codes sent.  The hash table of
`compress_zwrite` is a function from string and byte to code.  Bits are not
packed: a group of `GroupSize` codes of one width is one element of `sent`,
padding after a change of width is junk.  The compression ratio, which decides
when a full table is cleared, is a free choice.  The writer may be killed, which
cuts the stream anywhere.  `Channel` knows neither codes nor widths: it has what
the writer was given and what the reader gave back, and `ImplementsChannel` is the
refinement.

### Pax

`PaxArchive` has what the parsers and `main.cc` share: the archive, the block
read last (`buf`), the parser's state and the calls of the operations table
(`file_start`, `file_data`, `file_end`).  `Cpio`, `Ustar` and `Zip` are the
parsers, one action for each case of their `switch`; `Pax` instantiates them with
the same variables and adds `pax_read_archive`.  An octet is a record of the part
it belongs to and a value, the fields of a header are looked up by the header's
number, and structures of fixed size have `HDR` octets.  A read returns between
one octet and the block, and the archive may end after any octet.
`Pax` also says what an archive contains however it is read: `AllMarks` has the
positions at which a member must be listed or the archive refused, and the
properties compare the calls with it.  Not modelled: `-r`, `-w` and `-rw`, whose
operations the code leaves unset, and what `Z_SYNC_FLUSH` does inside zlib.

### Filters

`FilterIO` has the state of one run of a filter: operand, how much of each file
has been read, what each output has received, what stdio holds back, and the
calls that failed.  Each utility is a module over these variables with its own
`state`; `Filters` instantiates all of them, and `cmd.util` says which one runs.
A step is one `read(2)`, or one line for those that use `fgets(3)`, with all that
the utility does with it, because nobody else sees its buffers.  `Filters` defines
for every utility what it makes of its whole input (`WcExpected` and so on)
without blocks or buffers.  Those that are asked a question (`grep`, `cmp`,
`sort -c`) answer with the status, which `StatusTells` compares with the answer.
`Tokens` has `tsort` line by line, its search through the pairs depth by depth; where
the comparison it gives `qsort(3)` is no order, the result is a free choice.  `expr`
shifts and reduces as the parser bison makes of its grammar.  `TsortExpected` is an
order that agrees with the pairs, `ExprExpected` the value by recursion over the
expression.
A pattern of `grep` is the set of lines it matches, and a line of `what` a
sequence of delimiters, terminators and other text.  `sort` gives `std::sort` a
comparison that is not a strict order; `MayRunOut` says for which inputs the
library may then leave the array (`INTROSORT` lines, 16 in libstdc++, or fewer
are always safe).  Left out: multibyte characters in `wc`, NULs in lines, lines
longer than the buffer of `fgets`, the reading of pattern files, output options
(`-c` of `uniq`, the column selection of `wc`), and failures of stdio before the
last flush.

### Operands

State: what every path names, the inodes, the XSI objects, and the utility's own
variables in `state`.  Every system call is an action that succeeds, fails because
it must, or is refused for a reason of its own (`MaxFaults`); between any two of
them other processes create or remove files, directories and objects
(`MaxOthers`).  `reached` and `refused` are history: the operands of which what
is asked has been so at some moment, and those that met a refusal.  After the
recursive call in `mkdir -p` the structure that decides is uninitialized: the model
goes either way (`S_ISDIR`).  The identifiers of XSI objects are never used again,
and the three kinds are one.  Symbolic links lead to files in their own directory
or nowhere; none leads to a directory.  `ipcs` is one operand, reached when every
object there was from its first call to its last is in its listing; the number of an
object stands for its index.  `pathchk` has names that are too long and others, and
one limit for all file systems.

### Session

State: the utility's descriptors, nice value, disposition of SIGHUP and environment,
two other processes with nice values and the signals they have received, and the
settings of a terminal.  `fork` and `exec` add to `launched` what the command was
started with.  Others (`MaxOthers`) end or renice a process, hang up the terminal,
kill the command or set the terminal; every call may fail (`MaxFaults`).  A command
line is a sequence of words, some of them options, and the way `argp_parse()` takes
options from between operands is modelled (`Processes`, `Launch`).  What is asked of
each utility is said of the words alone, in `CommandAsked`, `EnvironmentAsked`,
`NiceAsked`, `OutputAsked`, `SignalAsked` and `SettingAsked`; the model of the code
does not use these.  `SignalsAssumption`, `SettingsAssumption` and `CommandsAssumption` say what
the tables and the command lines are like; a command line may be any otherwise.

## Runs

| Run | Bounds | Distinct states | What it shows |
|---|---|---|---|
| `rm` | two levels of directories, one or two operands, every option; 2 steps of others | 413k | removes everything it was asked to, asks before it does, stays below its operands until an `fchdir` back fails, `cwd` and descriptors follow the recursion, status 0 means removed, it ends |
| `chown` | a tree of depth two with links, 5 descriptors so that they run out, all options; 1 entry replaced or removed by another process | 1.4M | operands are independent, the accessible hierarchy is reached, names are looked up where they were read, descriptors balance, it ends |
| `chown_dots` | one tree, `-R -P`, nobody else | violation | see Divergences |
| `mv` | two paths on each of two file systems, 2 faults, 2 steps of others | 490k | implements `Replacement`; status 0 means arrived, set-ID bits, prompts |
| `mv_left_behind` | no faults | violation | see Divergences |
| `compress` | one to three operands, standard input and output as files and pipes, a FIFO, two blocks, 3 faults | 54k | implements `Replacement`; no half-written output, set-ID bits, status 0 means replaced |
| `uncompress_truncates` | no faults | violation | see Divergences |
| `lzw` | two letters, groups of 2 codes, widths 2 to 3, up to 10 letters | 1.9M | implements `Channel`: the round trip, and a prefix of it when the stream is cut |
| `pax` | 2144 archives of up to three members; headers of 2 octets, blocks of 4 | 236k | the listing, the data and the refusals depend on the octets alone, and pax always ends |
| `filters` | files of up to 8 octets, 5 lines or 6 words, buffers of 3 or 4, pieces of 0 to 4, numbers of 4 bits, 2 failing calls | 471k | output is a function of the whole input, the status tells what failed or answers the question, outputs of tee are independent |
| `operands` | six paths on three levels, one or two operands, 1 fault, 2 steps of others, an int of 16 values | 1.1M | nothing goes that was not named, the status tells of refusals, every operand the walk passes is dealt with |
| `session` | command lines of up to four words or three operands, nice values from -2 to 3, two other processes, 1 fault, 2 steps of others | 226k | a command is started with what was asked for, signals, nice values and settings change only as named, the status tells |

The bounds are the smallest at which the interesting cases occur.  Two levels of
directories give a recursion inside a recursion, so a return to the wrong
directory is a return to a third one.  Two operands are needed for the status of
one to hide the other's, and for a lost working directory to matter.  Two or
three faults let a clean-up fail after the failure it cleans up.  In `chown` one
replacement is enough for each pair of calls to be torn apart; a second would only
undo the first.  In `lzw` the table of 8 codes fills, stays full, is cleared and fills
again within 10 letters, and with `-b` 1 the width never changes, with 2 it does not
widen and with 3 it does; the reader's one-entry lag shows at each of these.
In `pax` a structure of two octets is already cut in every way, a block holds two
structures, and three members let a parser resume after a skipped one.  In
`filters` a buffer of three octets makes a word, a line, a chunk or a piece
straddle one read, two reads or none, and the string buffer of four overflows; with
`INTROSORT` 3 the lines that `std::sort` may mishandle are among those of four; with
`MAX_RECURSE` 8, which stands for 4 million calls, the search through the pairs
reaches its limit where they form a circle and nowhere else, and with `WIDTH` 4 sums
and products of single digits overflow.
In `operands` three levels let `mkdir -p` recurse twice, and two steps of others can
replace a file between two calls of the program.  In `session` two steps of others
can change a setting and change it back, or end the command and hang up.

Deadlock is checked in every run: a run of a program ends in a state that loops
through `Done`.

**Fairness.**  `Terminates` (rm, chown, pax) assumes weak fairness of the program's own
steps, `WF_vars(Step)`: a runnable process is scheduled, and the system calls
involved return.  Nothing is assumed of other processes, whose number of steps is
bounded: with an unbounded supply of new entries `rm -R` may indeed run forever.

**Refinement.**  `Replacement` is what a user of `mv` or `compress` relies on when it is
killed: at no moment is there neither the source nor the whole target, an operand that
is turned down keeps its source and shows in the status, and only the operand at hand
is touched.  `Replaces` (in `Mv` and in `Compress`) and `ImplementsChannel` (in `Lzw`)
instantiate the abstract module with expressions over the detailed variables.  The
mappings read the state of the file system, or of the data delivered, and not the
program counter, so that a state is mapped alike whatever the program is about to do.
The abstract modules have no fairness: they promise what happens, not that it does.

## Proofs

Eight modules prove, for every value of the constants, the properties that the runs check
on an instance.  The only assumptions are those of the components about their own
constants (`TreeAssumption`, `RmAssumption`, `ChownAssumption`, `MvAssumption`,
`CompressAssumption`, `OperandsAssumption`, `OctetsAssumption`, `FiltersAssumption`,
`LzwAssumption` and the four of `Session`) and `PowersAssumption`, that powers of two grow, a fact of
arithmetic the provers do not have: what the trees, files
and command lines are, not how many.  A
module has first the lemmas about the operators of the model, then one lemma for each
action or group of actions that a conjunct of the invariant depends on, then the theorems.

**`RmProofs`**

- `TypeCorrect`: `TypeOK` is not inductive; the invariant proved is `TypeInv`, which adds
  that the frames are threaded: below the top frame every frame waits inside a directory
  it opened.
- `FdsAlwaysBalanced`: the number of descriptors open is the number the frames hold.  It
  is inductive with `TypeInv`.
- `CwdAlwaysFollows`: as long as no `fchdir` back has failed the working directory is the
  one the top frame's names are meant for.  `CwdInv` says it of every frame on the stack:
  the directory a frame goes back to is the directory of the frame below it.
- `RemovesBelowOperands`: `TreeInv` says that an entry leads where it led at the start, or
  to no directory, whatever other processes did; `BelowInv` that every frame is at or below
  the current operand *in the tree of the start*, so that what is opened below it is too.
- `RemovesConfirmed`: under `-i` every frame past its own question is of a confirmed entry
  (`ConfirmInv`), since a frame's entry does not change while calls below it return.
- `StatusZeroIsTrue`: a return that fails is remembered (`StrayInv`): as long as the exit
  status does not have it, the return code of some frame has, or the operand's.  So with
  status 0 nothing has strayed, and `StatusInv` has an entry gone for every operand passed.
- `WholeHierarchyGone`: `Spec => [](err = 0 => RemovesEverything)`, at any depth.  By `AloneInv`
  the tree is what it was less what `rm` removed, and a directory that was removed is empty.  The
  directories found empty are therefore closed under going down, and the hierarchy
  below an operand is the least set that is.
- `HierarchyIsRemoved`: `Spec => []RemovesEverything`, if there is a height of directories (`Heights`:
  above that of each directory in it) by which two descriptors are there for the operand and for
  every level below it (`RoomBelow`); the instance of the run has one.  What is left to show is
  that the status is 0, and `SmoothInv` says why no call fails: of the entries that `readdir` is
  to return, those that are still there are the ones it has not returned, and the one at hand
  (`ReadingInv`), so that no name is looked for that `rm` has removed itself, and a directory is
  empty when its stream ends (`TopInv`); every frame has room below it (`FrameInv`); and since the
  heights descend along the stack (`Descending`), what the top frame removes is nothing
  a frame below it relies on.  The proof showed what the property has to leave out: an operand
  reached through a link that an earlier operand removes (`ProperOperand`).

The argument about the stack is over the three things an action does to it: change its
top, push, pop (`SetTopFacts`, `PushFacts`, `PopFacts`).

**`ChownProofs`**, over `IInv`:

- `TypeCorrect`, `FdsAlwaysBalanced`.
- `EntriesAlwaysInPlace`: the way back cannot fail inside the recursion, because a directory
  that was entered once can be entered again (`CwdInv`): `chown` changes owners and no modes.
- `OperandsAreIndependent`: `TreeInv` bounds what replacing entries may have done, `StatTrue`
  says that what `stat` said of an operand nobody replaces holds until its owner is changed,
  `FailureMeant` that the status is never 1 without cause, and `DealtWith` of the operands
  before the current one what the property promises of all.
- `WholeHierarchyIsReached`: `Spec => []ReachesWholeHierarchy`, if there is a height of directories
  (`Heights`: above that of each directory in it) by which two descriptors are there for every
  level of the hierarchy below an operand (`RoomBelow`); the instance of the run has one.
  Without the condition it is not so: what is deeper is left, and the status does not show it
  (`IterateRefused`, `IterateHalfway`).  `ReachInv` says, of every level from which all below can
  be reached (`Tracked`), that the entries it has seen are settled with all that is below them
  (`SeenSettled`), that the entry a deeper level is at was settled before it was entered
  (`Descends`), and what `stat` has said of it until then (`Described`).  The climbs through ".."
  are levels like others, of which nothing is said where they leave the hierarchy; what they
  change stays settled (`SettledStays`).

**`MvProofs`**, over `IInv`:

- `TypeCorrect`, `SetidAlwaysGranted` (`SetidInv`: also of what `fstat` said, and that the owner
  has been copied by the time the mode is).
- `OverwritesAreConfirmed` (`ConfirmInv`): from the question to the removal the destination is
  the file that was asked about.
- `StatusZeroArrives`: `FilesInv` says that files of the start are only ever added to and that
  `mv` writes into none of them; `CopyInv` how far the copy is, block by block, at each `pc`; and
  `ArrivedInv` that the operands before the current one have arrived if no failure shows.
- `MvReplaces`: `Spec => Replaces`, the refinement.  Each step is that of one operand at
  most: it may add a place at its operand's target, or remove the source of an operand whose
  target is whole, which is what `CopyInv` says when the copy's source is removed.

**`CompressProofs`**, over `IInv`:

- `TypeCorrect` with `StreamInv`: which streams are open at each `pc`.
- `SetidAlwaysGranted`.
- `NoHalfIsLeft`: what has been read is in the output or in the buffer (`DataInv`), and an
  output nobody is writing is whole, absent, or one of the exceptions named (`OutputInv`).
- `StatusZeroReplaces` (`ReplacedInv`).
- `CompressReplaces`: `Spec => Replaces`, with the places of one operand as an operator of its
  number (`PlaceOf`) and one lemma per way a step may change them.

**`OperandsProofs`**, for any number of operands, refused calls and steps of other processes:

- `StatusOfEveryUtility`: `StatusInv` says that the status is not 0 from a refusal to the end
  of the walk.  It needs why the utilities that set the status to 0 after each success
  (`link`, `unlink`, `ln`) may do so: they have one operand, or are `ln` into a directory, the
  exception the property makes.  `ToldStep` sorts the steps of all the utilities by what they
  do to the walk, the status and what is refused.
- `NothingElseIsRemoved`, an action property: by `NamedInv` what `rmdir -p` removes next is
  above its operand, what `ln` is about to remove was to be forced, the object `ipcrm` found
  has the key named, and, against every other process, what `touch` is about to truncate
  is newer than its look (`OthersNamedStep`).
- `EveryOperandIsSettled`: one lemma per family of utilities (`DirPasses`, `LnPasses`, ...)
  shows that a step that passes an operand has reached its goal or been refused.
  `SettledInv` has what each keeps for that: the time `touch` has read, the key of the
  object `ipcrm` is about to remove, which no other object has, and the objects `ipcs` has
  listed below its index.

**`SessionProofs`**, for any commands, settings, lists of signals and nice values: an invariant
for each utility (`LaunchInv`, `KillInv`, `ReniceInv`, `SttyInv`, `MesgInv`), for only one is at
work.

- `NothingElseIsChanged`, an action property: `SttyReady` says that the copy of the settings
  which `stty` is about to set differs from what it has *read* only where a word named the
  setting, so that a step changes what was asked or puts back what was read, whatever
  `TerminalSet` did in between.  `SignalFound` says of `signame_to_num` that the signal it finds is
  one that was asked for.  That an alias is found too rests on `SignalsAssumption`, because the
  search goes on at the alias's own place: it holds of the list `gen-siglist.pl` makes.
- `StatusTellsWhatWasDone`: `KillSent` counts the signals each process has had against the
  operands so far that name it, less the calls that failed; `ParamsDone` says that the last word
  about a setting has set it, which at the last word is all that was asked (`ParamsReady`);
  `TimeInv` and `NohupInv` relate the child, or the command, to what was launched.
- `CommandsStartAsAsked`, that is `LaunchedAsAsked`: `ReadyInv` says step by step what is ready
  for the command.  `NohupReady`: a descriptor not yet redirected is as it was, unless it was
  closed and `nohup.out` has been opened as it, and what standard error is to follow holds what
  standard output does.  `NiceReady` and `EnvReady`: the increment is that of the last option, the
  environment is made of the assignments and what they leave of the old one.  What is left is to
  show that the parser and the property read a command line alike: if no word of the command
  looks like an option, the options are the words before it (`OptionsFirst`), assignments end
  where it begins (`AssignmentsAsked`), and in the new environment the first variable of a name
  has the value asked for (`EnvIsAsked`).  `Chosen`, by which options and variables are
  picked out of a sequence, is a recursive function; `ChosenBetween` and `ChosenFirst` are
  inductions over its argument (`UpTo`).

**`FiltersProofs`**, about `tee` and `split -b`, for inputs of any length, blocks and pieces of
any size, any number of outputs and of calls that fail:

- `OutputsAreIndependent`: `TeeReceives` says that every output has a prefix of the input, and one
  that is not skipped all that was read; `TeeSkips` that no more outputs are skipped than writes
  have failed.  A step of another utility is none of these two's (`StepOfUtility`).
- `TeeFollowsInput` and `TeeStatusTells`: what `OutputFollowsInput` and `StatusTells` say of every
  filter, of `tee`.  The first is `TeeReceives`; the second needs that with exit status 0 nothing
  but a read has failed and no output is skipped (`TeeStatus`).
- `SplitFollowsInput` and `SplitStatusTells`: the same of `split -b`.  `SplitReads` and
  `SplitPieces` say that what has been read is what has been passed on (`Passed`) and what is
  in the buffer, that every piece but the last is the next `piece_size` octets of the input, and
  that the last has as many as `output_count` says unless a call has failed; so the end of a
  piece, of a block and of the file may fall together or not.  `PiecesComplete` is what remains
  for the status: when nothing is left to pass on there are as many pieces as the input
  needs, and the last is the rest (`Multiples`, `PiecesOf`, about the division that tells how
  many).  `SplitStatus` ties the return code to what has failed or to names that run out.

**`LzwProofs`**, for data of any length, any number of letters and any `-b`:

- `CodesFitTheirWidth`: `WidthInv` ties a side's greatest code to its width and says how far
  its table may have grown; with it a side that is about to widen has fewer than `BITS` bits
  (`WidensBelow`).  `WriterFits` adds that the writer gives codes out at most one ahead of what its
  width can hold, which is why `output()` looks at `free_ent` after each code and not before.
- `DecodesWhatWasCoded`: `Spec => ImplementsChannel`, the round trip.  `ChanInv` says that the
  codes sent so far have a history (`Trace`): for each code the state of a reader that has taken
  it, the text up to there, and the code's group and place in it.  The writer is at its end
  (`WriterAt`), with a table that agrees with that reader's and is one entry ahead, except after
  the first code, after CLEAR, and once it is full (`Behind`); the reader is somewhere in it
  (`ReaderAt`).  That both sides widen, narrow and start a group at the same code is `Put` of the
  writer against `Adjusted` of the reader, about the same state (`Bits`, `Greatest`).  What a code
  stands for is a recursion over the entries (`Strings`); that it ends is `Chained`: an entry's
  prefix was given out before the entry, and the entry in CLEAR's place is no prefix.  A writer
  that is killed leaves a history that is cut short, but not below what has been read.
- `LzwTypeCorrect`: `TypeOK`, whose `output` and stack of bytes need `ChanInv`.

The library's induction theorems take an operator, which the provers cannot instantiate; induction
over the codes is therefore done with the set of exceptions, which would have a least
element (`Least`, `Induction`, from `WFMin`).

The invariants of all eight modules were checked with TLC on the instances of the runs before
they were proved, except `ChanInv`, whose history is quantified over: TLC checked what follows
from it, `ImplementsChannel`.

Only model-checked:

- liveness (`Terminates` of `rm`, `chown` and `pax`), which needs fairness and ENABLED;
- the listings of `Pax`, the outputs of `Filters` (but those of `tee` and `split -b`) and the values of
  `Tokens`, inductions over the data.

## Divergences

Shown by a run that ends in a counterexample:

- `chown_dots`: `chown -R` climbs through `".."` (`libpu/walk.cc:163`).
- `mv_left_behind`: a file moved to another file system stays at its source,
  with status 0 (`mv/mv.cc:292`).
- `uncompress_truncates`: `uncompress -f` of a file that is not compressed
  replaces the existing output (`compress/compress.cc:317`).

Met while modelling, each present in the model as the code has it:

- rm: when `fchdir` back to the start directory fails the loop goes on, and the next
  relative operand is resolved in the wrong directory (`rm.cc:235`, against `rm.1:71-73`);
  `-f` with an operand that does not exist exits 1 (`rm.cc:153`, against
  `rm.1:87-88`); `-f` wins over `-i` in any order (`rm.cc:250`, against
  `rm.1:91-92`); depth is limited by descriptors (`lib.cc:176`, against `rm.1:75-77`).
- chown: after a directory operand with `-R` the next operand is resolved inside it
  (`walk.cc:276`, since `chown.cc:312` sets `WF_RECURSE` too late); an unreadable
  directory, and sometimes an operand that does not exist, leave the status 0
  (`walk.cc:137`, `walk.cc:220`); a symbolic link operand without `-h` is ignored
  (`chown.cc:268`); `-R -P` does not change links it meets (`chown.cc:218`).
- mv: the destination is unlinked before the source is known to be readable
  (`mv.cc:239-249`); an attribute that cannot be copied changes the status
  (`mv.cc:206`, against `mv.1:101-103`); an error of `close` of the copy is ignored.
- walk: after a failed `stat` its buffer is used all the same (`walk.cc:220`), and an entry
  that cannot be looked up is taken for whatever the buffer holds.
- compress: a read error in compressed input is taken for its end and the input is
  removed with status 0 (`compress.cc:335-338`); a failure of the first write
  leaves a truncated output (`322-327`); `-c` into a regular file asks for
  permission, and removes its input (`203-206, 261, 353`),
  with `-` tries to remove `/dev/stdin`; a stream is closed twice
  after a failed close (`231-282, 338-364`); an empty file forced becomes a file
  that cannot be uncompressed (`zopen.cc:332`).

- pax: an octet after the end of a deflate stream is skipped without being counted,
  and with it the rest of the archive, with status 0 (`zip.cc:634-643`); the trailer
  of a cpio archive is not recognised, since the name compared includes its NUL, so
  it is listed as a file and the padding after it refused (`cpio.cc:135`, against the
  comment at `245`); a short read of a ustar archive fails it (`ustar.cc:266`) and
  `file_end` is never called for one; an archive that ends early is listed with
  status 0 (`main.cc:434`); the default format always fails (`pax.cc:45-48`); a
  size that is not octal becomes 2^64-1 (`main.cc:157-170`); `pax_fi_clear` clears a
  `std::string` with `memset`, which crashes with some libraries (`main.cc:172`).
- operand loop: an actor that returns 1 where `walk.cc` knows only `RC_` codes runs
  into an assertion (`walk.cc:236`): a read error in `wc`, `cat`, `cksum`, `head` and
  `strings`, and an output `tee` cannot open, end in a core dump, without what stdio
  held.
- wc: a last line without newline counts as one if there is a blank in it
  (`wc.cc:135, 191`, against the option's text at `44`); the total of `-m` is 0
  (`wc.cc:245-248`).
- head: whether the last block can be written is not looked at (`head.cc:96`);
  headers go through stdio and the text does not, so that in a file the headers
  come last (`head.cc:58`).
- tee: an error of `read` or `select` ends the copy with status 0 (`tee.cc:150-161`).
- split: always exits with `EXIT_FAILURE` (`split.cc:360`), says nothing when names
  run out (`split.cc:174`), and takes a product that wraps to 0 for a size (`split.cc:125`).
- uuencode: errors of `write` are ignored (`uuencode.cc:98`); in a traditional file
  longer than the buffer counts are missing (`uuencode.cc:120`); the last line's
  count is of whole chunks (`uuencode.cc:180-185`); two octets follow `end`
  (`uuencode.cc:283`).
- strings: a first block of at most half a buffer without a separator, as a pipe may
  give, runs into an assertion (`strings.cc:128`); a string that no separator ends is
  not printed; `-t` is ignored (`strings.cc:193`).
- expand: with a list of tab stops, a tab at the column of a stop goes to the one
  after it (`expand.cc:123-128`, against `expand.1:25`).
- sort: `line_compare` is `<=`, no strict order, which `std::sort` requires
  (`sort.cc:125-133, 289`): with more than 16 lines the library may leave the array;
  `-o` and `-u` are ignored.  With `-m` an operand that cannot be opened leaves the
  status 0 (`sort.cc:232`), and `have_line` is not initialized (`sort.cc:94`), which with
  `-r` may hold a file's lines back to the end.
- grep: an operand that cannot be opened or read ends with status 1, or 0 if a line is
  found, and not 2 (`walk.cc:86-97` and `grep.cc:451-461` overwrite `grep.cc:383`);
  `grep -e ''` has no pattern, and the first operand becomes one (`grep.cc:427-437`).
- cmp: a read error is taken for the end of the file (`cmp.cc:110-123`); `-l` exits 0 for
  files of one length that differ, and after the first difference prints octets that
  are equal (`cmp.cc:126-149`); a newline that differs counts for the line after it
  (`cmp.cc:115`).
- ln: with several operands the status is that of the last (`ln.cc:136`); a hard link to a
  symbolic link is made to whatever the link's text names in the working directory
  (`ln.cc:96-107`); `ln -f a a` removes `a` and then fails (`ln.cc:84-107`).
- mkdir: `-p` of a directory that exists exits 1 (`mkdir.cc:98`); after the recursion
  `st` is uninitialized (`mkdir.cc:90`).
- rmdir: `-p` of a relative path ends with `rmdir(".")`, which fails, and then in the
  assertion of `walk.cc:236` (`rmdir.cc:76-84`), like every operand that cannot be removed.
- touch: `-a` or `-m` of a file that does not exist does not create it (`touch.cc:84-86`);
  `creat` truncates a file that has come into being since `utime` (`touch.cc:102`), and its
  descriptor is never closed; every failure, and `-c` of a missing file, ends in the
  assertion of `walk.cc:236`.
- ipcrm: numbers are cut to an int (`ipcrm.cc:156, 161`), so that an identifier may mean
  another object, and a key of 2^32 makes an object that is then removed.
- ipcs: what is printed as "identifier for this facility" is the index
  (`ipcs.cc:174-180`), so that `ipcrm` of that number may mean another object or none; the
  columns of the mode print bit masks as characters, and every line begins with `m`.
- pathchk: `-p` is refused, since the parser looks for `P` (`pathchk.cc:72`, against
  `pathchk.cc:51`); a path that is too long, and a symbolic link to nowhere, end in the
  assertion of `walk.cc:236`, and the operands after it are not looked at.
- tsort: the comparison is no strict order for items that are not related, so that
  `qsort(3)` may contradict the pairs (`tsort.cc:183-196`, against `tsort.1:16`, "totally
  ordered list of items consistent with a partial ordering"); a circle ends in exit 1 or
  runs out of stack; a read error is taken for the end, and an odd last token is ignored.
- expr: a number that is too great ends the input silently with status 0 (`expr.cc:126`);
  `expr 1 2` prints both; only `+ - * / ( )` are parsed, though the tokenizer knows more;
  division by zero crashes and loses what stdio held.
- nohup: `nohup.out` stays open in the command; a descriptor that is closed becomes
  `nohup.out`; with standard output closed and standard error a terminal it gives up with 127.
- nice: a negative nice value is taken for a failure and the command is not started
  (`nice.cc:95`, against `nice.1`, "shall not prevent the invocation").
- nice, env: options among the command's own arguments are taken for theirs.
- env: without a utility it is a usage error, `-i` needs an assignment, and an inherited
  variable with an empty value is passed twice (`env.cc:73-113`).
- time: `-p` never works (`time.cc:103`); of a command that a signal ended the status is 0
  (`time.cc:93`); a command that exits with 126 is taken for one that was not executed.
- kill: without a signal it takes one from before its operands (`kill.cc:196, 227`); one
  number too many is valid (`kill.cc:61`); the search for an alias goes on at the index of
  the alias (`kill.cc:95-98`); negative operands are refused.
- renice: the actor returns 1 whatever happened and ends in the assertion of `walk.cc:236`
  after the first operand (`renice.cc:119`); what is no number means the utility's own
  process; a negative nice value is taken for an error; a group is levelled to the least
  of its nice values and the increment.
- stty: `-a` exits 1; `-g` prints one control character twice and another not, and what it
  prints, given back, sets control characters from an uninitialized array
  (`stty.cc:215-245`, against `stty.1`, "can be used as arguments"); control characters
  cannot be set; settings that another process changes between `tcgetattr` and `tcsetattr`
  are put back.
- mesg: the mode that `fstat` has read is written back by `fchmod`, whatever has become of it.
- whatever uses `printf`: a failure of the last flush leaves the status 0.

## Not modelled

- `diff` only reads its operands: the comparison is not written.
- `asa` and `tabs` make one pass over lines or tab stops; nothing is carried over,
  nothing fails between two steps, and no other process has a part in it.
- `sleep`, `pwd` and `tput` make a few queries and one output.
- `id`, `df`, `date`, `getconf`, `logger`, `logname`, `tty`, `uname`, `echo`, `basename`,
  `dirname`, `true` and `false` query something and format it.
- `file_mode.y`, `strsplit.cc` and `term.cc` parse symbolic modes, words and terminal
  descriptions; the results are inputs of the models above.
- The modes of `pax` other than listing: the code leaves their operations unset.

## Plan

1. The components listed as modelled, each with its run; the abstract specifications
   `Replacement` and `Channel`, and the refinements: done.
2. The theorems about `Mv`, `Compress`, `Chown` and `Rm` under "Proofs": done.
3. The theorems about `Operands`: done.
4. The theorems about `Session`: done.
5. `Filters`: `OutputsIndependent`, the one property there that is about failures and not about
   data, and what the others say of `tee` and of `split -b`: done.
6. `Lzw`: the widths and the round trip: done.
7. `LaunchedAsAsked` of `Session`: done.  `ReachesWholeHierarchy` of `Chown` and
   `RemovesEverything` of `Rm`: done.
8. State the components allow besides their runs: symbolic links to directories in `Names`,
   hard links in `Mv`.
