-------------------------------- MODULE Chown --------------------------------
(***************************************************************************)
(* chown and chgrp: the walk() of libpu with chown's callbacks.  walk()    *)
(* looks at every operand, calls chown_arg(), and descends with            *)
(* walk_iterate() where it answers RC_RECURSE; chown_dirent() is called    *)
(* for every entry found.                                                  *)
(*                                                                         *)
(* The traversal resolves names from the working directory, as rm does,    *)
(* but walk_iterate() has no test for "." and "..", and the descriptor it  *)
(* is to go back to after an operand is opened before chown_pre_walk()     *)
(* asks for a recursive walk.                                              *)
(***************************************************************************)
EXTENDS FiniteSets, Integers, SequencesExt, FileTree

CONSTANTS
  Tree,       \* the directory tree it starts in
  StartModes, \* the permissions its directories may have
  StartDir,   \* the working directory chown is started in
  ArgLists,   \* lists of file operands, each a single name
  OptionSets, \* [R, h : BOOLEAN, links : LinkOptions]; links is the last given
  LockedSets, \* the files chown() and lchown() may be refused for
  MaxFds,     \* descriptors the process may have open beside stdio
  Replacements, \* what other processes may put where: directory, name, file
  MaxOthers   \* how many of these they do

VARIABLES
  args, opts,         \* the command line
  mode, locked,       \* the permissions, and who may not be changed
  tree,               \* which other processes change
  replaced,           \* what they have put where (history)
  owner,              \* of every inode: the one asked for ("new") or not
  cwd, nfd,           \* the process: working directory, open descriptors
  idx, exit_status,   \* walk_strlist: next operand; the walker's status
  stack,              \* one frame per active walk_iterate()
  st,                 \* what stat() or lstat() said of the current name
  pc

given == <<args, opts, mode, locked>>
fs == <<tree, replaced>>
vars == <<given, fs, owner, cwd, nfd, idx, exit_status, stack, st, pc>>

AnyName == Names \cup Dots
LinkOptions == {"none", "H", "L", "P"}
Stats == [kind : {"dir", "link", "file"}, own : {"new", "old"}]
Frames == [dir : Dirs, name : AnyName, seen : SUBSET AnyName]

ASSUME ChownAssumption ==
  /\ Tree \in Trees /\ StartModes \subseteq Modes /\ StartDir \in Dirs
  /\ ArgLists \subseteq Seq(AnyName)
  /\ OptionSets \subseteq [R : BOOLEAN, h : BOOLEAN, links : LinkOptions]
  /\ LockedSets \subseteq SUBSET Nodes
  /\ MaxFds \in Nat /\ MaxOthers \in Nat
  /\ Replacements \subseteq Dirs \X Names \X (Leaves \cup {NONE})

(* chown_pre_walk: what the options come to.                               *)
FollowArg == opts.R /\ opts.links \in {"H", "L"}
FollowAll == opts.R /\ opts.links = "L"
SetLinkAttr == opts.h \/ (opts.R /\ opts.links = "P")

Top == Last(stack)
Name == IF stack = <<>> THEN args[idx] ELSE Top.name
Here(n) == Lookup(tree, mode, cwd, n)
IsLink(node) == node \in Leaves /\ LinkTo[node] # NONE
KindOf(node) ==
  CASE node \in Dirs -> "dir" [] IsLink(node) -> "link" [] OTHER -> "file"
LeadsTo(node) == IF IsLink(node) THEN LinkTo[node] ELSE node

Init ==
  /\ args \in ArgLists /\ opts \in OptionSets
  /\ mode \in StartModes /\ locked \in LockedSets
  /\ tree = Tree /\ replaced = {}
  /\ owner = [node \in Nodes |-> "old"]
  /\ cwd = StartDir /\ nfd = 0
  /\ idx = 1 /\ exit_status = 0
  /\ stack = <<>> /\ st = [kind |-> "file", own |-> "old"]
  /\ pc = "operand"

-----------------------------------------------------------------------------
(* walk_entry() and walk_dirent(): stat, then the callback.  The result of *)
(* the stat is not tested, so a name that cannot be looked up is described *)
(* by whatever the buffer holds.                                           *)
Stat(node, follow) ==
  IF node = NONE
  THEN st' \in Stats
  ELSE LET seen == IF follow THEN LeadsTo(node) ELSE node
       IN st' = [kind |-> KindOf(seen), own |-> owner[seen]]

StatOperand ==
  /\ pc = "operand" /\ idx <= Len(args)
  /\ Stat(Here(args[idx]), FollowArg)
  /\ pc' = "callback"
  /\ UNCHANGED <<given, owner, cwd, nfd, idx, exit_status, stack>>

UnreadAgain == EntriesOf(tree, Top.dir) \cup Dots  \* mutant: rewinds
UnreadFirst ==  \* mutant: the loop ends after one entry
  IF Top.seen = {} THEN EntriesOf(tree, Top.dir) \cup Dots ELSE {}
Unread == (EntriesOf(tree, Top.dir) \cup Dots) \ Top.seen

StatEntry(n) ==
  /\ pc = "readdir" /\ n \in Unread
  /\ Stat(Here(n), FollowAll)
  /\ stack' = [stack EXCEPT ![Len(stack)] =
                 [Top EXCEPT !.name = n, !.seen = @ \cup {n}]]
  /\ pc' = "callback"
  /\ UNCHANGED <<given, owner, cwd, nfd, idx, exit_status>>

(* RC_OK, or the end of a walk_iterate(): on with the caller's loop.       *)
Resume(caller) == IF caller = <<>> THEN pc' = "operand" /\ idx' = idx + 1
                                   ELSE pc' = "readdir" /\ UNCHANGED idx

-----------------------------------------------------------------------------
(* chown_arg() and chown_dirent().                                         *)
Give(node) == owner' = [owner EXCEPT ![node] = "new"]
Refused(node) == node = NONE \/ node \in locked
WantsChown == st.kind # "link" /\ st.own # "new"   \* need_chown()
Target == LeadsTo(Here(Name))

FailMutant ==  \* mutant: returns 1, and walk_strlist() stops
  /\ exit_status' = 1
  /\ pc' = "done"
  /\ UNCHANGED <<given, owner, cwd, nfd, stack, st, idx>>

FailCounts ==  \* mutant: += for =
  /\ exit_status' = exit_status + 1
  /\ Resume(stack)
  /\ UNCHANGED <<given, owner, cwd, nfd, stack, st>>

Fail ==  \* perror, w->exit_status = 1, return RC_OK
  /\ exit_status' = 1
  /\ Resume(stack)
  /\ UNCHANGED <<given, owner, cwd, nfd, stack, st>>

ChownRefused == pc = "callback" /\ WantsChown /\ Refused(Target) /\ Fail

GoOn(recurse) ==  \* return RC_RECURSE or RC_OK
  /\ IF recurse THEN pc' = "iterate" /\ UNCHANGED idx ELSE Resume(stack)
  /\ UNCHANGED <<given, cwd, nfd, stack, st, exit_status>>

ChangeOwner ==
  /\ pc = "callback" /\ st.kind # "link"
  /\ IF WantsChown THEN ~Refused(Target) /\ Give(Target) ELSE UNCHANGED owner
  /\ GoOn(st.kind = "dir" /\ opts.R)

IsOperandLink == pc = "callback" /\ st.kind = "link" /\ stack = <<>>

ChangeLink ==  \* lchown()
  /\ IsOperandLink /\ SetLinkAttr
  /\ IF Refused(Here(Name)) THEN Fail
                            ELSE Give(Here(Name)) /\ GoOn(FALSE)

FollowLink(follow) ==
  /\ IF follow /\ Target = NONE
     THEN Fail
     ELSE GoOn(follow /\ Target \in Dirs) /\ UNCHANGED owner

FollowOperand == IsOperandLink /\ ~SetLinkAttr /\ FollowLink(FollowArg)
FollowEntry == /\ pc = "callback" /\ st.kind = "link" /\ stack # <<>>
               /\ FollowLink(FollowAll)

-----------------------------------------------------------------------------
(* walk_iterate().  curdir_fd is -1: walk() tests WF_RECURSE before it     *)
(* calls chown_pre_walk(), which sets it.                                  *)
curdir_fd == NONE
Back(frames) == IF frames = <<>> THEN curdir_fd ELSE Last(frames).dir

GoBackMutant(dir) == UNCHANGED cwd  \* mutant: no fchdir() back
GoBack(dir) ==  \* fchdir(old_dirfd)
  IF dir # NONE /\ CanEnter(mode, dir) THEN cwd' = dir ELSE UNCHANGED cwd

(* open(O_DIRECTORY, and O_NOFOLLOW unless links are followed here)        *)
Opened ==
  LET follow == FollowAll \/ (stack = <<>> /\ FollowArg)
  IN IF IsLink(Here(Name)) /\ ~follow THEN NONE
     ELSE OpenDirectory(tree, mode, cwd, Name)

CanStart == Opened # NONE /\ nfd < MaxFds /\ CanEnter(mode, Opened)

IterateRefused ==  \* open() or fchdir() fails
  /\ pc = "iterate" /\ ~CanStart
  /\ Resume(stack)
  /\ UNCHANGED <<given, owner, cwd, nfd, exit_status, stack, st>>

IterateHalfwayMutant ==  \* mutant: goto out instead of out_chdir
  /\ pc = "iterate" /\ CanStart /\ nfd + 1 = MaxFds
  /\ cwd' = Opened /\ nfd' = nfd + 1
  /\ Resume(stack)
  /\ UNCHANGED <<given, owner, exit_status, stack, st>>

IterateHalfway ==  \* opendir(".") fails: goto out_chdir
  /\ pc = "iterate" /\ CanStart /\ nfd + 1 = MaxFds
  /\ cwd' = IF Back(stack) # NONE /\ CanEnter(mode, Back(stack))
            THEN Back(stack) ELSE Opened
  /\ Resume(stack)
  /\ UNCHANGED <<given, owner, nfd, exit_status, stack, st>>

Iterate ==
  /\ pc = "iterate" /\ CanStart /\ nfd + 1 < MaxFds
  /\ cwd' = Opened /\ nfd' = nfd + 2
  /\ stack' = Append(stack, [dir |-> Opened, name |-> ".", seen |-> {}])
  /\ pc' = "readdir"
  /\ UNCHANGED <<given, owner, idx, exit_status, st>>

IterateEnd ==
  /\ pc = "readdir" /\ Unread = {}
  /\ GoBack(Back(Front(stack))) /\ nfd' = nfd - 2
  /\ stack' = Front(stack)
  /\ Resume(Front(stack))
  /\ UNCHANGED <<given, owner, exit_status, st>>

Exit ==
  /\ pc = "operand" /\ idx > Len(args)
  /\ pc' = "done"
  /\ UNCHANGED <<given, owner, cwd, nfd, idx, exit_status, stack, st>>

Step ==
  \/ StatOperand \/ \E n \in AnyName : StatEntry(n)
  \/ ChownRefused \/ ChangeOwner \/ ChangeLink \/ FollowOperand \/ FollowEntry
  \/ IterateRefused \/ IterateHalfway \/ Iterate \/ IterateEnd \/ Exit

(* Another process makes, replaces or removes a file or a link: the     *)
(* directories stay where they are.                                     *)
OtherReplaces ==
  /\ pc # "done" /\ Cardinality(replaced) < MaxOthers
  /\ \E r \in Replacements :
       /\ tree[r[1]][r[2]] \notin Dirs \cup {r[3]}
       /\ tree' = [tree EXCEPT ![r[1]][r[2]] = r[3]]
       /\ replaced' = replaced \cup {r}
  /\ UNCHANGED <<given, owner, cwd, nfd, idx, exit_status, stack, st, pc>>

Done == pc = "done" /\ UNCHANGED vars
Next == (Step /\ UNCHANGED fs) \/ OtherReplaces \/ Done

Spec == Init /\ [][Next]_vars
FairSpec == Spec /\ WF_vars(Step /\ UNCHANGED fs)
-----------------------------------------------------------------------------
(* What chown promises.                                                    *)

(* Type correctness: the variables keep their types; chown_dirent() is     *)
(* only called inside a walk_iterate().                                    *)
TypeOK ==
  /\ args \in ArgLists /\ opts \in OptionSets
  /\ mode \in StartModes /\ locked \in LockedSets
  /\ tree \in Trees /\ replaced \subseteq Replacements
  /\ owner \in [Nodes -> {"new", "old"}]
  /\ cwd \in Dirs /\ nfd \in Int
  /\ idx \in Nat \ {0} /\ exit_status \in 0..1
  /\ stack \in Seq(Frames) /\ st \in Stats
  /\ pc \in {"operand", "callback", "iterate", "readdir", "done"}
  /\ pc = "readdir" => stack # <<>>
  /\ pc \in {"operand", "done"} => stack = <<>>

(* walk_iterate() holds two descriptors per directory level and gives them *)
(* back on each of its error paths.                                        *)
FdsBalanced == nfd = 2 * Len(stack)

StartNode(i) == Lookup(Tree, mode, StartDir, args[i])
PlainOperand(i) == StartNode(i) # NONE /\ ~IsLink(StartNode(i))
BelowNodes(node) ==
  IF node \notin Dirs THEN {node}
  ELSE LET dirs == SubtreeDirs(Tree, node)
       IN (dirs \cup {Tree[d][n] : d \in dirs, n \in Names}) \ {NONE}

(* what others have put in place of an operand, and what that leads to *)
PutAt(i) == {r[3] : r \in {r \in replaced : r[1] = StartDir /\ r[2] = args[i]}}
Steady(i) == PutAt(i) = {}
Meant(i) == {StartNode(i)} \cup PutAt(i) \cup {LeadsTo(node) : node \in PutAt(i)}

(* chown.1:19-28: without -R each operand is given its owner whatever        *)
(* happens to the others, nothing else is, and the status is 0 exactly     *)
(* when every change was made (chown.1:162-166).  An operand that is       *)
(* replaced between lstat() and chown() may be either file.                *)
OperandsIndependent ==
  /\ pc = "done" /\ ~opts.R
  /\ \A i \in DOMAIN args : PlainOperand(i)
  => /\ \A node \in Nodes : owner[node] = "new" =>
          node \notin locked /\ \E i \in DOMAIN args : node \in Meant(i)
     /\ \A i \in DOMAIN args : Steady(i) =>
          IF StartNode(i) \in locked THEN exit_status = 1 ELSE owner[StartNode(i)] = "new"
     /\ exit_status = 1 => \E i \in DOMAIN args : ~Steady(i) \/ StartNode(i) \in locked

(* chown.1:77-79: chown -R of a directory reaches every file below it,     *)
(* past the entries it is refused for and those that others replace: a     *)
(* directory it may not change is not entered.                             *)
Accessible(node) ==
  node \in Dirs => {"r", "x"} \subseteq mode[node] /\ node \notin locked
Displaced(node) == \E r \in replaced : Tree[r[1]][r[2]] = node
ReachesWholeHierarchy ==
  /\ pc = "done" /\ opts.R /\ Len(args) = 1 /\ PlainOperand(1)
  /\ \A node \in BelowNodes(StartNode(1)) : Accessible(node)
  => \A node \in BelowNodes(StartNode(1)) :
        IsLink(node) \/ node \in locked \/ Displaced(node) \/ owner[node] = "new"

(* Inside the recursion the working directory is the one being read, so    *)
(* every entry is looked up where readdir() found it.                      *)
EntriesLookedUpInPlace == stack # <<>> => cwd = Top.dir

(* Every run ends, although "." and ".." are entered like any directory:   *)
(* the descriptor limit is all that bounds the recursion.                  *)
Terminates == <>(pc = "done")

(* chown.1:77-79: -R changes the operand and the hierarchy below it.       *)
StaysInHierarchy ==
  opts.links \in {"none", "P"} =>
    \A node \in Nodes : owner[node] = "new" =>
      \E i \in DOMAIN args : StartNode(i) # NONE /\ node \in BelowNodes(StartNode(i))
=============================================================================
