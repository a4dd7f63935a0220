--------------------------------- MODULE Rm ---------------------------------
(***************************************************************************)
(* rm: the operand loop (libpu's __walk_cmdline), rm_fn_actor, the         *)
(* recursive rm() and libpu's iterate_directory(), one action per system   *)
(* call, on a directory tree that other processes change in between.       *)
(*                                                                         *)
(* The traversal moves the working directory: every name is resolved from  *)
(* cwd, and iterate_directory() enters a directory with fchdir() and goes  *)
(* back with fchdir() on the descriptor its caller passed down.            *)
(***************************************************************************)
EXTENDS Integers, SequencesExt, FileTree

CONSTANTS
  StartTree,   \* the tree before rm starts
  StartModes,  \* the permissions it may start with
  StartDir,    \* the working directory rm is started in
  ArgLists,    \* operand lists; an operand is [dirn |-> ..., base |-> ...]
  FlagLists,   \* option letters in command-line order
  Terminal,    \* TRUE iff standard input is a terminal
  MaxFds,      \* descriptors the process may have open beside stdio
  MaxOthers    \* bound on the steps of other processes and on read errors

VARIABLES
  tree, mode,  \* the file system
  cwd, nfd,    \* the process: working directory, open descriptors
  args, flags, \* the command line
  idx, err,    \* __walk_cmdline: next operand, status accumulated so far
  olddir,      \* rm_fn_actor: old_dirfd
  oprc,        \* rm_fn_actor: what rm() returned for the operand
  stack,       \* one frame per active rm() call
  pc,          \* what the top frame (or the operand loop) does next
  strayed,     \* history: some fchdir() back to where we came from failed
  removed,     \* history: the entries <<directory, name>> rm removed
  confirmed,   \* history: the entries a prompt was answered "yes" for
  declined,    \* history: some prompt was answered "no"
  others       \* steps of other processes, and read errors, so far

fs == <<tree, mode>>
cmd == <<args, flags>>
hist == <<strayed, removed, confirmed, declined>>
vars == <<tree, mode, cwd, nfd, args, flags, idx, err, olddir, oprc, stack, pc,
          strayed, removed, confirmed, declined, others>>

AnyName == Names \cup Dots
Operands == [dirn : Names \cup {"."}, base : AnyName]
Options == {"f", "i", "R"}

ASSUME RmAssumption ==
  /\ StartTree \in Trees
  /\ \A p, q \in Dirs, m, n \in Names :
        StartTree[p][m] \in Dirs /\ StartTree[p][m] = StartTree[q][n]
          => p = q /\ m = n
  /\ \A p \in Dirs, n \in Names : StartTree[p][n] # Root
  /\ StartModes \subseteq Modes
  /\ StartDir \in Dirs
  /\ ArgLists \subseteq Seq(Operands)
  /\ FlagLists \subseteq Seq(Options)
  /\ Terminal \in BOOLEAN
  /\ MaxFds \in Nat
  /\ MaxOthers \in Nat

(***************************************************************************)
(* A frame is one activation of rm(dirfd, dirn, basen), with the locals of *)
(* the iterate_directory() it calls: sub is that function's dirfd, seen    *)
(* the names readdir() has returned, must those it may not leave out.      *)
(***************************************************************************)
Frames == [dirfd : Dirs, base : AnyName, sub : Dirs \cup {NONE},
           rc : 0..1, seen : SUBSET AnyName, must : SUBSET AnyName]

Call(d, n) ==
  [dirfd |-> d, base |-> n, sub |-> NONE, rc |-> 0, seen |-> {}, must |-> {}]

Top == Last(stack)
SetTop(f) == stack' = [stack EXCEPT ![Len(stack)] = f]
Given(opt) == \E i \in DOMAIN flags : flags[i] = opt
HaveDotsMutant(n) == n = "."  \* mutant: forgets ".."
HaveDots(n) == n \in Dots
Here(n) == Lookup(tree, mode, cwd, n)
BitOrLast(a, b) == b       \* mutant: = for |=
BitOrSum(a, b) == a + b    \* mutant: += for |=
BitOr(a, b) == IF a = 0 THEN b ELSE a

CanWrite(node) == "w" \in mode[node]
ShouldPromptMutant(node) == ~CanWrite(node) /\ Terminal  \* mutant: ignores -i
ShouldPrompt(node) == Given("i") \/ (~CanWrite(node) /\ Terminal)

Init ==
  /\ tree = StartTree /\ mode \in StartModes
  /\ cwd = StartDir /\ nfd = 0
  /\ args \in ArgLists /\ flags \in FlagLists
  /\ idx = 1 /\ err = 0
  /\ olddir = NONE /\ oprc = 0
  /\ stack = <<>> /\ pc = "operand"
  /\ strayed = FALSE /\ removed = {} /\ confirmed = {} /\ declined = FALSE
  /\ others = 0

-----------------------------------------------------------------------------
(* The operand loop and rm_fn_actor.                                       *)

AtOperand == pc = "operand" /\ idx <= Len(args)
OpDir == OpenDirectory(tree, mode, cwd, args[idx].dirn)

(* The operand's own directory can be entered: open("."), open(dirn) and   *)
(* fchdir(dirfd) all succeed.                                              *)
CanReachOperand ==
  /\ nfd + 1 < MaxFds
  /\ OpenDirectory(tree, mode, cwd, ".") # NONE
  /\ OpDir # NONE
  /\ CanEnter(mode, OpDir)

RefuseOperandMutant ==  \* mutant: does not go on to the next operand
  /\ AtOperand
  /\ HaveDots(args[idx].base) \/ ~CanReachOperand
  /\ err' = BitOr(err, 1)
  /\ UNCHANGED <<fs, cmd, hist, idx, cwd, nfd, olddir, oprc, stack, pc, others>>

RefuseOperand ==
  /\ AtOperand
  /\ HaveDots(args[idx].base) \/ ~CanReachOperand
  /\ err' = BitOr(err, 1) /\ idx' = idx + 1
  /\ UNCHANGED <<fs, cmd, hist, cwd, nfd, olddir, oprc, stack, pc, others>>

StartOperand ==
  /\ AtOperand
  /\ ~HaveDots(args[idx].base) /\ CanReachOperand
  /\ olddir' = cwd /\ cwd' = OpDir /\ nfd' = nfd + 2
  /\ stack' = <<Call(OpDir, args[idx].base)>> /\ pc' = "lstat"
  /\ UNCHANGED <<fs, cmd, hist, idx, err, oprc, others>>

FinishOperand ==
  /\ pc = "restore"
  /\ IF CanEnter(mode, olddir)
     THEN cwd' = olddir /\ err' = BitOr(err, oprc) /\ UNCHANGED strayed
     ELSE err' = BitOr(err, 1) /\ strayed' = TRUE /\ UNCHANGED cwd
  /\ nfd' = nfd - 2 /\ idx' = idx + 1 /\ olddir' = NONE /\ pc' = "operand"
  /\ UNCHANGED <<fs, cmd, removed, confirmed, declined, oprc, stack, others>>

Exit ==
  /\ pc = "operand" /\ idx > Len(args)
  /\ err' = IF args = <<>> THEN 2 ELSE err
  /\ pc' = "done"
  /\ UNCHANGED <<fs, cmd, hist, cwd, nfd, idx, olddir, oprc, stack, others>>

-----------------------------------------------------------------------------
(* rm(): every return hands its status to the readdir loop of the frame    *)
(* below, or to rm_fn_actor.                                               *)

Return(rc) ==
  IF Len(stack) = 1
  THEN /\ stack' = <<>> /\ oprc' = rc /\ pc' = "restore"
  ELSE /\ LET caller == stack[Len(stack) - 1]
          IN stack' = [Front(stack) EXCEPT ![Len(stack) - 1] =
                         [caller EXCEPT !.rc = BitOr(@, rc)]]
       /\ pc' = "readdir" /\ UNCHANGED oprc

LstatRefuses ==
  \/ HaveDots(Top.base)
  \/ Here(Top.base) = NONE
  \/ Here(Top.base) \in Dirs /\ ~Given("R")

LstatAndReturn ==
  /\ pc = "lstat" /\ LstatRefuses
  /\ Return(IF HaveDots(Top.base) THEN 0 ELSE 1)
  /\ UNCHANGED <<fs, cmd, hist, cwd, nfd, idx, err, olddir, others>>

LstatAndProceed ==
  /\ pc = "lstat" /\ ~LstatRefuses
  /\ LET node == Here(Top.base)
         next == IF node \in Dirs THEN "open" ELSE "unlink"
     IN pc' = CASE Given("f") -> next
                [] ~Given("f") /\ ~ShouldPrompt(node) -> next
                [] ~Given("f") /\ ShouldPrompt(node) ->
                     IF node \in Dirs THEN "askdir" ELSE "ask"
  /\ UNCHANGED <<fs, cmd, hist, cwd, nfd, idx, err, olddir, oprc, stack, others>>

AnswerYes ==
  /\ pc \in {"ask", "askdir"}
  /\ pc' = IF pc = "askdir" THEN "open" ELSE "unlink"
  /\ confirmed' = confirmed \cup {<<cwd, Top.base>>}
  /\ UNCHANGED <<fs, cmd, strayed, removed, declined, cwd, nfd, idx, err,
                 olddir, oprc, stack, others>>

AnswerNo ==
  /\ pc \in {"ask", "askdir"}
  /\ declined' = TRUE
  /\ Return(Top.rc)
  /\ UNCHANGED <<fs, cmd, strayed, removed, confirmed, cwd, nfd, idx, err,
                 olddir, others>>

CanUnlink(n) ==
  /\ n \in Names /\ CanModify(mode, cwd)
  /\ Here(n) \in Leaves

Unlink ==
  /\ pc = "unlink"
  /\ IF CanUnlink(Top.base)
     THEN /\ tree' = RemoveEntry(tree, cwd, Top.base)
          /\ removed' = removed \cup {<<cwd, Top.base>>}
          /\ Return(Top.rc)
     ELSE Return(1) /\ UNCHANGED <<tree, removed>>
  /\ UNCHANGED <<mode, cmd, strayed, confirmed, declined, cwd, nfd, idx, err,
                 olddir, others>>

CanRmdir(n) ==
  /\ n \in Names /\ CanModify(mode, cwd)
  /\ Here(n) \in Dirs
  /\ EntriesOf(tree, Here(n)) = {}

Rmdir ==
  /\ pc = "rmdir"
  /\ IF CanRmdir(Top.base)
     THEN /\ tree' = RemoveEntry(tree, cwd, Top.base)
          /\ removed' = removed \cup {<<cwd, Top.base>>}
          /\ Return(Top.rc)
     ELSE Return(1) /\ UNCHANGED <<tree, removed>>
  /\ UNCHANGED <<mode, cmd, strayed, confirmed, declined, cwd, nfd, idx, err,
                 olddir, others>>

-----------------------------------------------------------------------------
(* iterate_directory(), called by rm() for a directory.                    *)

OpenSub ==
  /\ pc = "open"
  /\ LET d == OpenDirectory(tree, mode, cwd, Top.base)
     IN IF d # NONE /\ nfd < MaxFds
        THEN /\ SetTop([Top EXCEPT !.sub = d])
             /\ nfd' = nfd + 1 /\ pc' = "enter"
        ELSE \* without -f: goto out; with -f: fchdir(-1), close(-1)
             /\ SetTop([Top EXCEPT !.rc = 1])
             /\ pc' = "rmdir" /\ UNCHANGED nfd
  /\ UNCHANGED <<fs, cmd, hist, cwd, idx, err, olddir, oprc, others>>

EnterSubMutant ==  \* mutant: goto out instead of out_fd, dirfd stays open
  /\ pc = "enter"
  /\ IF CanEnter(mode, Top.sub)
     THEN cwd' = Top.sub /\ pc' = "opendir" /\ UNCHANGED stack
     ELSE SetTop([Top EXCEPT !.rc = 1]) /\ pc' = "rmdir" /\ UNCHANGED cwd
  /\ UNCHANGED <<fs, cmd, hist, nfd, idx, err, olddir, oprc, others>>

EnterSub ==
  /\ pc = "enter"
  /\ IF CanEnter(mode, Top.sub)
     THEN /\ cwd' = Top.sub /\ pc' = "opendir" /\ UNCHANGED <<nfd, stack>>
     ELSE /\ SetTop([Top EXCEPT !.rc = 1])
          /\ nfd' = nfd - 1 /\ pc' = "rmdir" /\ UNCHANGED cwd
  /\ UNCHANGED <<fs, cmd, hist, idx, err, olddir, oprc, others>>

OpenStream ==
  /\ pc = "opendir"
  /\ IF OpenDirectory(tree, mode, cwd, ".") # NONE /\ nfd < MaxFds
     THEN /\ SetTop([Top EXCEPT !.must = EntriesOf(tree, Top.sub) \cup Dots])
          /\ nfd' = nfd + 1 /\ pc' = "readdir"
     ELSE /\ SetTop([Top EXCEPT !.rc = 1])
          /\ pc' = "leave" /\ UNCHANGED nfd
  /\ UNCHANGED <<fs, cmd, hist, cwd, idx, err, olddir, oprc, others>>

(* An entry made or removed after opendir() may or may not be returned.    *)
UnreadMutant == {}  \* mutant: stops at the first NULL-looking entry
Unread == {n \in Top.must \ Top.seen : n \in Dots \/ IsEntry(tree, Top.sub, n)}
MayRead == (Top.must \cup EntriesOf(tree, Top.sub)) \ Top.seen

ReadEntry(n) ==
  /\ pc = "readdir" /\ n \in MayRead
  /\ stack' = Append([stack EXCEPT ![Len(stack)] =
                                     [Top EXCEPT !.seen = @ \cup {n}]],
                     Call(Top.sub, n))
  /\ pc' = "lstat"
  /\ UNCHANGED <<fs, cmd, hist, cwd, nfd, idx, err, olddir, oprc, others>>

(* readdir() returned NULL: the end of the stream, or an error, which the  *)
(* loop does not tell from the end.                                        *)
CloseStream ==
  /\ pc = "readdir"
  /\ \/ Unread = {} /\ UNCHANGED others
     \/ Unread # {} /\ others < MaxOthers /\ others' = others + 1
  /\ nfd' = nfd - 1 /\ pc' = "leave"
  /\ UNCHANGED <<fs, cmd, hist, cwd, idx, err, olddir, oprc, stack>>

LeaveSubMutant ==  \* mutant: closes dirfd without going back
  /\ pc = "leave"
  /\ nfd' = nfd - 1 /\ pc' = "rmdir"
  /\ UNCHANGED <<fs, cmd, hist, cwd, idx, err, olddir, oprc, stack, others>>

LeaveSub ==
  /\ pc = "leave"
  /\ IF CanEnter(mode, Top.dirfd)
     THEN cwd' = Top.dirfd /\ UNCHANGED <<stack, strayed>>
     ELSE /\ SetTop([Top EXCEPT !.rc = 1])
          /\ strayed' = TRUE /\ UNCHANGED cwd
  /\ nfd' = nfd - 1 /\ pc' = "rmdir"
  /\ UNCHANGED <<fs, cmd, removed, confirmed, declined, idx, err, olddir,
                 oprc, others>>

-----------------------------------------------------------------------------
(* Other processes create files, remove files and links, and change the    *)
(* permissions of directories.  They do not make links to directories: the *)
(* code never checks that what it opens is what it looked at, so nothing   *)
(* could be said of a tree in which a name comes to mean another directory.*)

Elsewhere == /\ pc # "done" /\ others < MaxOthers /\ others' = others + 1
             /\ UNCHANGED <<cmd, hist, cwd, nfd, idx, err, olddir, oprc>>

OtherCreates(d, n, leaf) ==
  /\ Elsewhere
  /\ Linked(tree, d) /\ ~IsEntry(tree, d, n)
  /\ \A p \in Dirs, m \in Names : tree[p][m] # leaf
  /\ LinkTo[leaf] = NONE
  /\ tree' = AddEntry(tree, d, n, leaf)
  /\ UNCHANGED <<mode, stack, pc>>

OtherUnlinks(d, n) ==
  /\ Elsewhere
  /\ IsEntry(tree, d, n) /\ tree[d][n] \in Leaves
  /\ tree' = RemoveEntry(tree, d, n)
  /\ UNCHANGED <<mode, stack, pc>>

OtherChmods(d, p) ==
  /\ Elsewhere
  /\ mode' = [mode EXCEPT ![d] = IF p \in @ THEN @ \ {p} ELSE @ \cup {p}]
  /\ UNCHANGED <<tree, stack, pc>>

Other ==
  \/ \E d \in Dirs, n \in Names, leaf \in Leaves : OtherCreates(d, n, leaf)
  \/ \E d \in Dirs, n \in Names : OtherUnlinks(d, n)
  \/ \E d \in Dirs, p \in Permissions : OtherChmods(d, p)

Step ==
  \/ RefuseOperand \/ StartOperand \/ FinishOperand \/ Exit
  \/ LstatAndReturn \/ LstatAndProceed \/ AnswerYes \/ AnswerNo
  \/ Unlink \/ Rmdir
  \/ OpenSub \/ EnterSub \/ OpenStream \/ CloseStream \/ LeaveSub
  \/ \E n \in AnyName : ReadEntry(n)

Done == pc = "done" /\ UNCHANGED vars

Next == Step \/ Other \/ Done

Spec == Init /\ [][Next]_vars
FairSpec == Spec /\ WF_vars(Step)
-----------------------------------------------------------------------------
(* What rm promises.                                                       *)

PCs == {"operand", "restore", "done", "lstat", "ask", "askdir", "unlink",
        "rmdir", "open", "enter", "opendir", "readdir", "leave"}
Outside == {"operand", "restore", "done"}  \* no rm() call is active
InSub == {"opendir", "readdir", "leave"}   \* iterate_directory is in its sub

(* Type correctness: the variables keep their types, and there are active  *)
(* rm() calls exactly while an operand is being worked on.                 *)
TypeOK ==
  /\ tree \in Trees /\ mode \in Modes
  /\ cwd \in Dirs /\ nfd \in Int
  /\ args \in ArgLists /\ flags \in FlagLists
  /\ idx \in Nat \ {0} /\ err \in 0..2
  /\ olddir \in Dirs \cup {NONE} /\ oprc \in 0..1
  /\ stack \in Seq(Frames) /\ pc \in PCs
  /\ strayed \in BOOLEAN /\ declined \in BOOLEAN
  /\ removed \subseteq Dirs \X Names /\ confirmed \subseteq Dirs \X AnyName
  /\ others \in Nat
  /\ pc \in Outside <=> stack = <<>>
  /\ pc \in {"operand", "done"} <=> olddir = NONE
  /\ pc \in InSub \cup {"enter"} => Top.sub # NONE

(* The working directory is the one the traversal believes in: the start   *)
(* directory between operands and at exit, otherwise the directory the     *)
(* active rm() or iterate_directory() call works in.  rm.cc and lib.cc     *)
(* resolve every name from it.  Holds until an fchdir() back fails.        *)
CwdFollowsTraversal ==
  ~strayed =>
    /\ pc \in {"operand", "done"} => cwd = StartDir
    /\ pc \notin Outside =>
         cwd = IF pc \in InSub THEN Top.sub ELSE Top.dirfd

(* The descriptors open are those the active calls hold: two for the       *)
(* operand, two for every directory being read, none left at exit, on      *)
(* every error path of rm_fn_actor and iterate_directory.                  *)
HeldByTop == CASE pc \in {"enter", "opendir", "leave"} -> 1
               [] pc = "readdir" -> 2
               [] OTHER -> 0

FdsBalanced ==
  nfd = CASE pc \in {"operand", "done"} -> 0
          [] pc = "restore" -> 2
          [] OTHER -> 2 * Len(stack) + HeldByTop

Intended(i) ==
  IF args[i].dirn = "." THEN StartDir
                        ELSE Follow(StartTree[StartDir][args[i].dirn])

BelowOperand(i, d, n) ==
  LET o == Intended(i)
      b == args[i].base
  IN /\ o \in Dirs
     /\ \/ d = o /\ n = b
        \/ /\ b \in Names /\ StartTree[o][b] \in Dirs
           /\ d \in SubtreeDirs(StartTree, StartTree[o][b])

(* rm removes only entries that an operand names or that are below one,    *)
(* whatever else happens to the tree; links are not followed down, and     *)
(* ".." does not lead out of the tree.  Holds until an fchdir() back fails.*)
RemovesOnlyBelowOperands ==
  ~strayed => \A e \in removed : \E i \in DOMAIN args : BelowOperand(i, e[1], e[2])

(* rm.1:174-176: with exit status 0 the entries that the operands named    *)
(* were removed, whatever calls failed on the way; an entry the user kept  *)
(* at a prompt is the only exception.                                      *)
StatusZeroMeansRemoved ==
  pc = "done" /\ err = 0 /\ ~declined =>
    \A i \in DOMAIN args : <<Intended(i), args[i].base>> \in removed

(* rm.1:59-61: under -i without -f nothing is removed unless the prompt    *)
(* for that very entry was answered yes.                                   *)
ConfirmedBeforeRemoved ==
  Given("i") /\ ~Given("f") /\ ~strayed => removed \subseteq confirmed

FullModes == [node \in Nodes |-> Permissions]
Undisturbed == others = 0 /\ mode = FullModes /\ ~declined
(* An operand that is there, and neither it nor the entry it is reached    *)
(* through, a link perhaps, is among what an earlier operand takes away.   *)
ProperOperand(i) ==
  /\ Intended(i) \in Dirs /\ args[i].base \in Names
  /\ StartTree[Intended(i)][args[i].base] # NONE
  /\ \A j \in 1..(i - 1) : /\ ~BelowOperand(j, Intended(i), args[i].base)
                         /\ ~BelowOperand(j, StartDir, args[i].dirn)

(* rm.1:75-77: rm -R descends to any depth.  With nothing in the way it    *)
(* removes every entry at or below its operands, leaves the rest alone,    *)
(* and exits 0.                                                            *)
RemovesEverything ==
  /\ pc = "done" /\ Undisturbed /\ Given("R") /\ args # <<>>
  /\ \A i \in DOMAIN args : ProperOperand(i)
  => /\ err = 0
     /\ \A d \in Dirs, n \in Names :
          tree[d][n] = IF \E i \in DOMAIN args : BelowOperand(i, d, n)
                       THEN NONE ELSE StartTree[d][n]

(* Every run of rm ends, though each step back in the tree may fail: no    *)
(* name is looked at twice and "." and ".." are never entered.             *)
Terminates == <>(pc = "done")
=============================================================================
