---------------------------------- MODULE Mv ----------------------------------
(***************************************************************************)
(* mv: the operand loop, move_file(), and the copy it falls back on when   *)
(* source and destination are on different file systems: copy_file(),      *)
(* copy_reg_file() with copy_fd() of libpu, and copy_attributes().         *)
(*                                                                         *)
(* A path leads to an inode; an inode that is open stays reachable through *)
(* its descriptor when the path goes.  Any system call may fail, and other *)
(* processes append to or remove a source and create the destination       *)
(* between two calls.                                                      *)
(***************************************************************************)
EXTENDS Integers, SequencesExt

CONSTANTS
  Paths,      \* the source and destination paths
  Inodes,     \* files that exist, or that mv may create
  NONE,       \* no inode
  Device,     \* the file system each path is on
  StartAt,    \* the inode at each path before mv starts
  StartFiles, \* what the inodes are
  Blocks,     \* units of file data
  Commands,   \* [form, ops, force, interactive]; ops is a sequence of operands
  Terminal,   \* TRUE iff standard input is a terminal
  MaxFaults,  \* bound on the system calls that fail for reasons of their own
  MaxOthers   \* bound on the steps of other processes

VARIABLES
  cmd,            \* the command line
  at, file,       \* the file systems: inode at a path, what an inode is
  idx, err,       \* __walk_cmdline: next operand, status so far
  st,             \* copy_file, copy_reg_file: what lstat, then fstat, said
  in, out, pos,   \* copy_reg_file: the two descriptors, the offset read so far
  rc, attr_rc,    \* copy_reg_file: failure so far, failure to copy attributes
  opened,         \* open_target_curdir() has opened its directories
  pc,
  overwritten,    \* history: inodes mv replaced, unlinked or truncated
  confirmed,      \* history: inodes a prompt was answered "yes" for
  faults, others

fs == <<at, file>>
copying == <<st, in, out, pos, rc, attr_rc>>
hist == <<overwritten, confirmed>>
vars == <<cmd, fs, idx, err, copying, opened, pc, hist, faults, others>>

Operands == [from : Paths, to : Paths]
CommandLines == [form : {"dir", "two"}, ops : Seq(Operands),
                 force : BOOLEAN, interactive : BOOLEAN]
Files == [kind : {"file", "dir", "special"}, data : Seq(Blocks),
          own : {"mv", "source", "another"}, setid : BOOLEAN,
          writable : BOOLEAN, time : {"old", "new"}]
Created == [kind |-> "file", data |-> <<>>, own |-> "mv", setid |-> FALSE,
            writable |-> TRUE, time |-> "new"]

ASSUME MvAssumption ==
  /\ NONE \notin Inodes
  /\ StartAt \in [Paths -> Inodes \cup {NONE}]
  /\ StartFiles \in [Inodes -> Files]
  /\ Commands \subseteq CommandLines
  /\ Terminal \in BOOLEAN
  /\ MaxFaults \in Nat /\ MaxOthers \in Nat

Init ==
  /\ cmd \in Commands
  /\ at = StartAt /\ file = StartFiles
  /\ idx = 1 /\ err = 0
  /\ st = Created /\ in = NONE /\ out = NONE /\ pos = 0 /\ rc = 0 /\ attr_rc = 0
  /\ opened = FALSE /\ pc = "operand"
  /\ overwritten = {} /\ confirmed = {}
  /\ faults = 0 /\ others = 0

Src == cmd.ops[idx].from
Dst == cmd.ops[idx].to
Exists(p) == at[p] # NONE
Works == UNCHANGED faults
Fault == faults < MaxFaults /\ faults' = faults + 1
Link(p, i) == at' = [at EXCEPT ![p] = i]
Change(i, f) == file' = [file EXCEPT ![i] = f]

(* What the calls make of a file; chown() takes the set-ID bits away.      *)
Truncated(f) == [f EXCEPT !.data = <<>>, !.time = "new"]
Extended(f, b) == [f EXCEPT !.data = Append(@, b), !.time = "new"]
Timed(f, t) == [f EXCEPT !.time = t]
Owned(f, o) == [f EXCEPT !.own = o, !.setid = FALSE]
Moded(f, w) == [f EXCEPT !.setid = FALSE, !.writable = w]
WithSetid(f) == [f EXCEPT !.setid = TRUE]

(* err |= what the actor returned; in the two-operand form it is returned. *)
BitOr(a, b) == IF a = -1 \/ b = -1 THEN -1 ELSE IF a = 0 THEN b ELSE a
Return(status) ==
  /\ err' = BitOr(err, status)
  /\ idx' = idx + 1 /\ pc' = "operand"
Stay == UNCHANGED <<idx, err>>
Goto(label) == pc' = label /\ Stay

-----------------------------------------------------------------------------
(* move_file()                                                             *)
ShouldAsk == Terminal /\ ~file[at[Dst]].writable
NeedsPromptMutant ==  \* mutant: forgets -i
  ~cmd.force /\ Exists(Dst) /\ ShouldAsk
NeedsPrompt ==
  ~cmd.force /\ Exists(Dst) /\ (cmd.interactive \/ ShouldAsk)

StartOperand ==
  /\ pc = "operand" /\ idx <= Len(cmd.ops)
  /\ Goto(IF NeedsPrompt THEN "ask" ELSE "rename")
  /\ Works /\ UNCHANGED <<cmd, fs, copying, opened, hist, others>>

AnswerYes ==
  /\ pc = "ask" /\ Goto("rename")
  /\ confirmed' = confirmed \cup ({at[Dst]} \ {NONE})
  /\ Works /\ UNCHANGED <<cmd, fs, copying, opened, overwritten, others>>

AnswerNo ==
  /\ pc = "ask" /\ Return(1)
  /\ Works /\ UNCHANGED <<cmd, fs, copying, opened, hist, others>>

SameDevice == Device[Src] = Device[Dst]
(* rename() does nothing for two names of one file and replaces a file by  *)
(* a file; directories in the way hold files.                              *)
SameFile == at[Src] = at[Dst]
Renamable ==
  Exists(Dst) /\ ~SameFile => "dir" \notin {file[at[Src]].kind, file[at[Dst]].kind}

Rename ==
  /\ pc = "rename" /\ Exists(Src) /\ SameDevice /\ Renamable
  /\ IF SameFile
     THEN UNCHANGED <<at, overwritten>>
     ELSE /\ at' = [at EXCEPT ![Src] = NONE, ![Dst] = at[Src]]
          /\ overwritten' = overwritten \cup ({at[Dst]} \ {NONE})
  /\ Return(0)
  /\ Works /\ UNCHANGED <<cmd, file, copying, opened, confirmed, others>>

RenameFails ==
  /\ pc = "rename"
  /\ \/ Works /\ (Exists(Src) => SameDevice /\ ~Renamable)
     \/ Fault
  /\ Return(1)
  /\ UNCHANGED <<cmd, fs, copying, opened, hist, others>>

RenameCrosses ==  \* EXDEV: return 2, the caller copies
  /\ pc = "rename" /\ Exists(Src) /\ ~SameDevice
  /\ Goto(IF cmd.form = "dir" /\ ~opened THEN "targets" ELSE "copy_file")
  /\ Works /\ UNCHANGED <<cmd, fs, copying, opened, hist, others>>

OpenTargetCurdir ==
  /\ pc = "targets"
  /\ \/ Works /\ Goto("copy_file") /\ opened' = TRUE
     \/ \* exit(1)
        /\ Fault /\ pc' = "done" /\ err' = 1 /\ UNCHANGED <<idx, opened>>
  /\ UNCHANGED <<cmd, fs, copying, hist, others>>

-----------------------------------------------------------------------------
(* copy_file()                                                             *)
CopyFileRefuses ==
  /\ pc = "copy_file"
  /\ \/ Works /\ (Exists(Src) => cmd.form = "two" /\ file[at[Src]].kind = "dir")
     \/ Fault
  /\ Return(1)
  /\ UNCHANGED <<cmd, fs, copying, opened, hist, others>>

CopyFileStarts ==
  /\ pc = "copy_file" /\ Exists(Src)
  /\ ~(cmd.form = "two" /\ file[at[Src]].kind = "dir")
  /\ st' = file[at[Src]]
  /\ Goto("unlink")
  /\ Works /\ UNCHANGED <<cmd, fs, in, out, pos, rc, attr_rc, opened, hist, others>>

UnlinkTarget ==
  /\ pc = "unlink"
  /\ Exists(Dst) => file[at[Dst]].kind # "dir"
  /\ Link(Dst, NONE) /\ overwritten' = overwritten \cup ({at[Dst]} \ {NONE})
  /\ IF st.kind = "file" THEN Goto("open_in")
                         ELSE Return(-1)  \* copy_recurse, copy_special
  /\ Works /\ UNCHANGED <<cmd, file, copying, opened, confirmed, others>>

UnlinkFails ==
  /\ pc = "unlink" /\ Exists(Dst)
  /\ (Works /\ file[at[Dst]].kind = "dir") \/ Fault
  /\ Return(1)
  /\ UNCHANGED <<cmd, fs, copying, opened, hist, others>>

-----------------------------------------------------------------------------
(* copy_reg_file()                                                         *)
CloseInput == in' = NONE /\ UNCHANGED out  \* mutant: leaks out_fd
CloseBoth == in' = NONE /\ out' = NONE

OpenSource ==  \* and fstat(): what lstat() said may be stale
  /\ pc = "open_in" /\ Exists(Src)
  /\ in' = at[Src] /\ st' = file[at[Src]]
  /\ pos' = 0 /\ rc' = 0 /\ attr_rc' = 0
  /\ Goto("open_out")
  /\ Works /\ UNCHANGED <<cmd, fs, out, opened, hist, others>>

OpenSourceFails ==
  /\ pc = "open_in" /\ ((~Exists(Src) /\ Works) \/ Fault)
  /\ Return(1)
  /\ UNCHANGED <<cmd, fs, copying, opened, hist, others>>

Unused == {i \in Inodes \ (overwritten \cup {in, out}) : \A p \in Paths : i \notin {at[p], StartAt[p]}}
NewInode == CHOOSE i \in Unused : TRUE

OpenTarget ==  \* O_CREAT | O_TRUNC
  /\ pc = "open_out"
  /\ IF Exists(Dst)
     THEN /\ out' = at[Dst] /\ UNCHANGED at
          /\ Change(at[Dst], Truncated(file[at[Dst]]))
          /\ overwritten' = overwritten \cup {at[Dst]}
     ELSE /\ Unused # {}
          /\ out' = NewInode /\ Link(Dst, NewInode) /\ Change(NewInode, Created)
          /\ UNCHANGED overwritten
  /\ Goto("copy")
  /\ Works /\ UNCHANGED <<cmd, st, in, pos, rc, attr_rc, opened, confirmed, others>>

OpenTargetFails ==
  /\ pc = "open_out"
  /\ Fault \/ (Works /\ ~Exists(Dst) /\ Unused = {})
  /\ in' = NONE /\ Return(1)
  /\ UNCHANGED <<cmd, fs, st, out, pos, rc, attr_rc, opened, hist, others>>

(* copy_fd(): a chunk is read and written in as many calls as it takes.    *)
CopyBlock ==
  /\ pc = "copy" /\ pos < Len(file[in].data)
  /\ Change(out, Extended(file[out], file[in].data[pos + 1]))
  /\ pos' = pos + 1
  /\ Works
  /\ UNCHANGED <<cmd, at, idx, err, st, in, out, rc, attr_rc, opened, pc, hist, others>>

CopyEndsMutant ==  \* mutant: the error of copy_fd() is not recorded
  /\ pc = "copy"
  /\ \/ Works /\ pos = Len(file[in].data)
     \/ Fault
  /\ Goto("utime")
  /\ UNCHANGED <<cmd, fs, st, in, out, pos, rc, attr_rc, opened, hist, others>>

CopyEndsUnlinks ==  \* mutant: removes the source whatever copy_fd() returned
  /\ pc = "copy"
  /\ \/ Works /\ pos = Len(file[in].data) /\ UNCHANGED rc
     \/ Fault /\ rc' = 1
  /\ Goto("utime") /\ Link(Src, NONE)
  /\ UNCHANGED <<cmd, file, st, in, out, pos, attr_rc, opened, hist, others>>

CopyEnds ==  \* end of file, or read() or write() failed
  /\ pc = "copy"
  /\ \/ Works /\ pos = Len(file[in].data) /\ UNCHANGED rc
     \/ Fault /\ rc' = 1
  /\ Goto("utime")
  /\ UNCHANGED <<cmd, fs, st, in, out, pos, attr_rc, opened, hist, others>>

CopyTimes ==  \* utime(target), by name
  /\ pc = "utime"
  /\ \/ /\ Works /\ Exists(Dst) /\ UNCHANGED <<rc, attr_rc>>
        /\ Change(at[Dst], Timed(file[at[Dst]], st.time))
     \/ /\ (Fault \/ (Works /\ ~Exists(Dst)))
        /\ rc' = 1 /\ attr_rc' = 1 /\ UNCHANGED file
  /\ Goto("fchown")
  /\ UNCHANGED <<cmd, at, st, in, out, pos, opened, hist, others>>

(* copy_attributes()                                                       *)
CopyOwnerMutant ==  \* mutant: have_err is not set
  /\ pc = "fchown"
  /\ \/ Works /\ Change(out, Owned(file[out], st.own))
     \/ Fault /\ UNCHANGED file
  /\ Goto("fchmod")
  /\ UNCHANGED <<cmd, at, st, in, out, pos, rc, attr_rc, opened, hist, others>>

CopyOwner ==
  /\ pc = "fchown"
  /\ \/ /\ Works /\ UNCHANGED attr_rc
        /\ Change(out, Owned(file[out], st.own))
     \/ Fault /\ attr_rc' = 1 /\ UNCHANGED file
  /\ Goto("fchmod")
  /\ UNCHANGED <<cmd, at, st, in, out, pos, rc, opened, hist, others>>

CopyMode ==  \* without the set-ID bits
  /\ pc = "fchmod" /\ Works
  /\ Change(out, Moded(file[out], st.writable))
  /\ IF attr_rc = 0 /\ st.setid
     THEN Goto("fchmod_setid") /\ UNCHANGED <<in, out>>
     ELSE Return(BitOr(rc, attr_rc)) /\ CloseBoth
  /\ UNCHANGED <<cmd, at, st, pos, rc, attr_rc, opened, hist, others>>

CopySetid ==
  /\ pc = "fchmod_setid" /\ Works
  /\ Change(out, WithSetid(file[out]))
  /\ Return(BitOr(rc, attr_rc)) /\ CloseBoth
  /\ UNCHANGED <<cmd, at, st, pos, rc, attr_rc, opened, hist, others>>

CopyModeFails ==
  /\ pc \in {"fchmod", "fchmod_setid"} /\ Fault
  /\ Return(1) /\ CloseBoth
  /\ UNCHANGED <<cmd, fs, st, pos, rc, attr_rc, opened, hist, others>>

Exit ==
  /\ pc = "operand" /\ idx > Len(cmd.ops)
  /\ pc' = "done" /\ Stay
  /\ Works /\ UNCHANGED <<cmd, fs, copying, opened, hist, others>>

-----------------------------------------------------------------------------
(* Other processes.                                                        *)
Elsewhere ==
  /\ pc # "done" /\ others < MaxOthers /\ others' = others + 1
  /\ UNCHANGED <<cmd, idx, err, copying, opened, pc, hist, faults>>

Sources == {cmd.ops[i].from : i \in DOMAIN cmd.ops}
Targets == {cmd.ops[i].to : i \in DOMAIN cmd.ops}

OtherAppends(p, b) ==
  /\ Elsewhere
  /\ p \in Sources \ Targets /\ Exists(p) /\ file[at[p]].kind = "file"
  /\ Change(at[p], Extended(file[at[p]], b))
  /\ UNCHANGED at

OtherRemoves(p) ==
  /\ Elsewhere
  /\ p \in Sources /\ Exists(p)
  /\ Link(p, NONE) /\ UNCHANGED file

OtherCreates(p) ==
  /\ Elsewhere
  /\ p \in Targets /\ ~Exists(p) /\ Unused # {}
  /\ Link(p, NewInode) /\ Change(NewInode, [Created EXCEPT !.own = "another"])

Other == \E p \in Paths :
  OtherRemoves(p) \/ OtherCreates(p) \/ \E b \in Blocks : OtherAppends(p, b)

Step ==
  \/ StartOperand \/ AnswerYes \/ AnswerNo
  \/ Rename \/ RenameFails \/ RenameCrosses \/ OpenTargetCurdir
  \/ CopyFileRefuses \/ CopyFileStarts \/ UnlinkTarget \/ UnlinkFails
  \/ OpenSource \/ OpenSourceFails \/ OpenTarget \/ OpenTargetFails
  \/ CopyBlock \/ CopyEnds \/ CopyTimes \/ CopyOwner
  \/ CopyMode \/ CopySetid \/ CopyModeFails \/ Exit
Done == pc = "done" /\ UNCHANGED vars
Next == Step \/ Other \/ Done

Spec == Init /\ [][Next]_vars
-----------------------------------------------------------------------------
(* What mv promises.                                                       *)
Copying == {"open_out", "copy", "utime", "fchown", "fchmod", "fchmod_setid"}
Busy == Copying \cup {"ask", "rename", "targets", "copy_file", "unlink", "open_in"}

(* Type correctness: descriptors are open exactly while a file is copied.  *)
TypeOK ==
  /\ cmd \in Commands
  /\ at \in [Paths -> Inodes \cup {NONE}] /\ file \in [Inodes -> Files]
  /\ idx \in 1..(Len(cmd.ops) + 1) /\ err \in -1..1
  /\ st \in Files /\ pos \in Nat /\ rc \in 0..1 /\ attr_rc \in 0..1
  /\ in \in Inodes \cup {NONE} /\ out \in Inodes \cup {NONE}
  /\ in # NONE <=> pc \in Copying
  /\ out # NONE <=> pc \in Copying \ {"open_out"}
  /\ opened \in BOOLEAN /\ pc \in Busy \cup {"operand", "done"}
  /\ overwritten \subseteq Inodes /\ confirmed \subseteq Inodes
  /\ faults \in 0..MaxFaults /\ others \in 0..MaxOthers

(* No other operand names a path of operand i.                             *)
Alone(i) ==
  /\ \A j \in DOMAIN cmd.ops \ {i} :
       cmd.ops[j].from # cmd.ops[i].from /\ cmd.ops[j].to # cmd.ops[i].to
  /\ cmd.ops[i].from \notin Targets /\ cmd.ops[i].to \notin Sources
Original(i) == StartAt[cmd.ops[i].from]

(* mv.1:90-91, mv.cc:132-136: at no moment does a file carry set-ID bits   *)
(* under an owner they were not granted by: the owner is copied first, and *)
(* the bits only if that succeeded.                                        *)
SetidOnlyForOwner ==
  \A i \in Inodes : file[i].setid =>
    \E j \in Inodes : StartFiles[j].setid /\ StartFiles[j].own = file[i].own

(* mv.1:209-212: with exit status 0 every operand's data, as far as it was *)
(* there when mv began, is complete at its destination, with its owner and *)
(* mode.                                                                   *)
StatusZeroMeansArrived ==
  pc = "done" /\ err = 0 =>
    \A i \in DOMAIN cmd.ops : Alone(i) =>
      /\ Exists(cmd.ops[i].to)
      /\ LET arrived == file[at[cmd.ops[i].to]]
             sent == StartFiles[Original(i)]
         IN /\ IsPrefix(sent.data, arrived.data)
            /\ arrived.own = sent.own /\ arrived.setid = sent.setid

(* mv replaces its operands one by one (Replacement): killed at any point, *)
(* it has not lost one, for its data is at the source or complete at the   *)
(* destination, unless another process took it away; one operand that      *)
(* fails neither keeps another from being moved nor touches it; and the    *)
(* status stays what the first failure made it.  Of operands that share a  *)
(* path nothing is said, and what was at a destination before mv opened it *)
(* does not count, though it may hold the same data.                       *)
Dealt(i) == i < idx \/ (i = idx /\ out # NONE)
Whole(i, p) ==
  /\ Original(i) # NONE /\ Exists(p)
  /\ file[at[p]].kind = StartFiles[Original(i)].kind
  /\ IsPrefix(StartFiles[Original(i)].data, file[at[p]].data)
place == [i \in DOMAIN cmd.ops |->
  {w \in {"source", "target"} :
     \/ ~Alone(i)
     \/ w = "source" /\ Whole(i, cmd.ops[i].from)
     \/ w = "target" /\ Whole(i, cmd.ops[i].to) /\ Dealt(i)}]
replacement == INSTANCE Replacement WITH next <- idx, status <- err, declined <- {}
Replaces == replacement!Spec

(* mv.1:39-49: under -i without -f no destination that was there is        *)
(* replaced, removed or truncated unless the prompt for it was answered    *)
(* yes.                                                                    *)
OverwritesConfirmedOnly ==
  cmd.interactive /\ ~cmd.force /\ others = 0 => overwritten \subseteq confirmed

(* mv.1:105-106, 209-210: status 0 means moved: nothing is left behind.    *)
NothingLeftBehind ==
  pc = "done" /\ err = 0 /\ others = 0 =>
    \A i \in DOMAIN cmd.ops :
      cmd.ops[i].from # cmd.ops[i].to => ~Exists(cmd.ops[i].from)
=============================================================================
