------------------------------- MODULE MvProofs -------------------------------
(***************************************************************************)
(* Theorems about Mv, for every set of paths and files, every command line *)
(* and any number of failing calls and steps of other processes.           *)
(***************************************************************************)
EXTENDS Mv, TLAPS

(* mv is at an operand from taking it to returning its status, and is done *)
(* with status 0 only after the last one.                                  *)
InPlace ==
  /\ pc \in Busy => idx \in DOMAIN cmd.ops
  /\ pc = "done" /\ err = 0 => idx > Len(cmd.ops)
TypeInv == TypeOK /\ InPlace

-----------------------------------------------------------------------------
(* The strengthening of SetidOnlyForOwner.                                 *)
Granted(own) == \E j \in Inodes : StartFiles[j].setid /\ StartFiles[j].own = own
SetidInv ==
  /\ \A i \in Inodes : file[i].setid => Granted(file[i].own)
  /\ st.setid => Granted(st.own)
  /\ pc \in {"fchmod", "fchmod_setid"} /\ attr_rc = 0 => file[out].own = st.own
  /\ pc = "fchmod_setid" => attr_rc = 0 /\ st.setid

-----------------------------------------------------------------------------
(* The strengthening of OverwritesConfirmedOnly.                           *)
AskedFor == {"rename", "targets", "copy_file", "unlink"}
ConfirmInv ==
  cmd.interactive /\ ~cmd.force /\ others = 0 =>
    /\ overwritten \subseteq confirmed
    /\ pc \in AskedFor /\ Exists(Dst) => at[Dst] \in confirmed
    /\ pc \in {"open_in", "open_out"} => ~Exists(Dst)

-----------------------------------------------------------------------------
(* What is in the way of losing data: a file that was there when mv began  *)
(* is only ever added to, and what mv writes into is none of those.        *)
Originals == {StartAt[p] : p \in Paths} \ {NONE}
FileKept(j) ==
  /\ file[j].kind = StartFiles[j].kind
  /\ file[j].own = StartFiles[j].own /\ file[j].setid = StartFiles[j].setid
  /\ IsPrefix(StartFiles[j].data, file[j].data)
KeptInv == \A j \in Originals : FileKept(j)
(* A file that was not is a regular file, and there is one path to it.     *)
IsNew(i) == i \in Inodes \ Originals
NewInv ==
  /\ \A p \in Paths : IsNew(at[p]) => file[at[p]].kind = "file"
  /\ \A p, q \in Paths : at[p] = at[q] /\ IsNew(at[p]) => p = q
SourceInv ==
  \A i \in DOMAIN cmd.ops : Alone(i) => at[cmd.ops[i].from] \in {NONE, Original(i)}
TargetInv ==
  /\ pc \in {"open_in", "open_out"} => at[Dst] \notin Originals
  /\ out # NONE => /\ IsNew(out) /\ file[out].kind = "file"
                   /\ \A p \in Paths : at[p] = out => p = Dst
FilesInv == KeptInv /\ NewInv /\ SourceInv /\ TargetInv

(* How far the copy of an operand that is alone has come.                  *)
SentKind == StartFiles[Original(idx)].kind
CopyInv ==
  pc \in Busy /\ Alone(idx) =>
    /\ pc \in {"unlink", "open_in"} => Original(idx) # NONE /\ st.kind = SentKind
    /\ pc \in Copying \cup {"open_in"} => st.kind = "file"
    /\ pc \in Copying =>
         /\ in = Original(idx) /\ SentKind = "file"
         /\ st.own = StartFiles[in].own /\ st.setid = StartFiles[in].setid
    /\ pc = "open_out" => pos = 0
    /\ pc \in Copying \ {"open_out"} => at[Dst] = out
    /\ pc = "copy" =>
         /\ Len(file[out].data) = pos /\ pos <= Len(file[in].data)
         /\ \A k \in 1..pos : file[out].data[k] = file[in].data[k]
    /\ pc \in Copying \ {"open_out", "copy"} /\ rc = 0 =>
         IsPrefix(StartFiles[in].data, file[out].data)

(* The strengthening of StatusZeroMeansArrived.                            *)
Arrived(i) ==
  /\ Original(i) # NONE /\ Exists(cmd.ops[i].to)
  /\ LET f == file[at[cmd.ops[i].to]]
         sent == StartFiles[Original(i)]
     IN /\ IsPrefix(sent.data, f.data) /\ f.kind = sent.kind
        /\ f.own = sent.own /\ f.setid = sent.setid
ArrivedInv ==
  err = 0 => \A i \in DOMAIN cmd.ops : i < idx /\ Alone(i) => Arrived(i)

-----------------------------------------------------------------------------
(* Operators of the model.                                                 *)

(* The operands of a command line are pairs of paths, and while mv is at   *)
(* an operand its source and destination are paths.                        *)
LEMMA CmdFacts ==
  ASSUME TypeInv
  PROVE  /\ cmd.ops \in Seq(Operands) /\ Len(cmd.ops) \in Nat
         /\ cmd.force \in BOOLEAN /\ cmd.interactive \in BOOLEAN
         /\ Sources \subseteq Paths /\ Targets \subseteq Paths
         /\ \A i \in DOMAIN cmd.ops : cmd.ops[i].from \in Paths /\ cmd.ops[i].to \in Paths
         /\ idx \in DOMAIN cmd.ops => Src \in Paths /\ Dst \in Paths
<1>1. cmd \in CommandLines
  BY MvAssumption DEF TypeInv, TypeOK
<1>2. cmd.ops \in Seq(Operands) /\ cmd.force \in BOOLEAN /\ cmd.interactive \in BOOLEAN
  BY <1>1 DEF CommandLines
<1>3. ASSUME NEW i \in DOMAIN cmd.ops
      PROVE  cmd.ops[i].from \in Paths /\ cmd.ops[i].to \in Paths
  <2>1. cmd.ops[i] \in Operands
    BY <1>2
  <2>. QED
    BY <2>1 DEF Operands
<1>. QED
  BY <1>2, <1>3 DEF Sources, Targets, Src, Dst

(* A file that is created gets an inode nobody uses.                       *)
LEMMA NewInodeFacts ==
  ASSUME Unused # {}
  PROVE  /\ NewInode \in Inodes /\ NewInode \notin overwritten \cup {in, out}
         /\ \A p \in Paths : NewInode # at[p] /\ NewInode # StartAt[p]
<1>1. NewInode \in Unused
  BY DEF NewInode
<1>. QED
  BY <1>1 DEF Unused

(* Changing one file leaves the others as they are.                        *)
LEMMA ChangeFacts ==
  ASSUME file \in [Inodes -> Files], NEW i \in Inodes, NEW f \in Files, Change(i, f)
  PROVE  /\ file' \in [Inodes -> Files] /\ file'[i] = f
         /\ \A j \in Inodes \ {i} : file'[j] = file[j]
BY DEF Change

(* Linking a path to an inode, or to none, leaves the other paths.         *)
LEMMA LinkFacts ==
  ASSUME at \in [Paths -> Inodes \cup {NONE}], NEW p \in Paths,
         NEW i \in Inodes \cup {NONE}, Link(p, i)
  PROVE  /\ at' \in [Paths -> Inodes \cup {NONE}] /\ at'[p] = i
         /\ \A q \in Paths \ {p} : at'[q] = at[q]
BY DEF Link

(* What the calls make of a file.                                          *)
SameMeta(f, g) == f.kind = g.kind /\ f.own = g.own /\ f.setid = g.setid

LEMMA TruncatedFacts ==
  ASSUME NEW f \in Files
  PROVE  /\ Truncated(f) \in Files /\ Truncated(f).data = <<>>
         /\ SameMeta(f, Truncated(f))
<1>. <<>> \in Seq(Blocks)
  BY DEF Files
<1>. QED
  BY DEF Files, SameMeta, Truncated

LEMMA ExtendedFacts ==
  ASSUME NEW f \in Files, NEW b \in Blocks
  PROVE  /\ Extended(f, b) \in Files /\ Extended(f, b).data = Append(f.data, b)
         /\ SameMeta(f, Extended(f, b))
<1>. Append(f.data, b) \in Seq(Blocks)
  BY DEF Files
<1>. QED
  BY DEF Files, SameMeta, Extended

LEMMA TimedFacts ==
  ASSUME NEW f \in Files, NEW t \in {"old", "new"}
  PROVE  /\ Timed(f, t) \in Files /\ Timed(f, t).data = f.data
         /\ SameMeta(f, Timed(f, t))
BY DEF Files, SameMeta, Timed

LEMMA OwnedFacts ==
  ASSUME NEW f \in Files, NEW o \in {"mv", "source", "another"}
  PROVE  /\ Owned(f, o) \in Files /\ Owned(f, o).data = f.data
         /\ Owned(f, o).kind = f.kind /\ Owned(f, o).own = o /\ ~Owned(f, o).setid
BY DEF Files, SameMeta, Owned

LEMMA ModedFacts ==
  ASSUME NEW f \in Files, NEW w \in BOOLEAN
  PROVE  /\ Moded(f, w) \in Files /\ Moded(f, w).data = f.data
         /\ Moded(f, w).kind = f.kind /\ Moded(f, w).own = f.own
         /\ ~Moded(f, w).setid
BY DEF Files, SameMeta, Moded

LEMMA WithSetidFacts ==
  ASSUME NEW f \in Files
  PROVE  /\ WithSetid(f) \in Files /\ WithSetid(f).data = f.data
         /\ WithSetid(f).kind = f.kind /\ WithSetid(f).own = f.own
         /\ WithSetid(f).setid
BY DEF Files, SameMeta, WithSetid

LEMMA CreatedType == Created \in Files /\ [Created EXCEPT !.own = "another"] \in Files
<1>. <<>> \in Seq(Blocks)
  OBVIOUS
<1>. QED
  BY DEF Created, Files

LEMMA BitOrFacts ==
  ASSUME NEW a \in -1..1, NEW b \in -1..1
  PROVE  /\ BitOr(a, b) \in -1..1 /\ BitOr(a, 0) = a
         /\ BitOr(a, b) = 0 => a = 0 /\ b = 0
         /\ a \in 0..1 /\ b \in 0..1 => BitOr(a, b) \in 0..1
BY DEF BitOr

-----------------------------------------------------------------------------
(* Type correctness.                                                       *)

LEMMA InitType == Init => TypeInv
<1>. SUFFICES ASSUME Init PROVE TypeInv
  OBVIOUS
<1>1. cmd.ops \in Seq(Operands)
  BY MvAssumption DEF Init, CommandLines
<1>. QED
  <2>1. cmd \in Commands /\ at \in [Paths -> Inodes \cup {NONE}] /\ file \in [Inodes -> Files]
    BY MvAssumption DEF Init
  <2>2. /\ idx \in 1..(Len(cmd.ops) + 1) /\ err \in -1..1 /\ st \in Files
        /\ pos \in Nat /\ rc \in 0..1 /\ attr_rc \in 0..1 /\ faults \in 0..MaxFaults
        /\ others \in 0..MaxOthers
    BY <1>1, MvAssumption, CreatedType DEF Init
  <2>3. /\ in = NONE /\ out = NONE /\ pc = "operand" /\ opened \in BOOLEAN
        /\ overwritten = {} /\ confirmed = {}
    BY DEF Init
  <2>. QED
    BY <2>1, <2>2, <2>3 DEF TypeInv, TypeOK, InPlace, Busy, Copying

LEMMA NextType == TypeInv /\ [Next]_vars => TypeInv'
<1>. SUFFICES ASSUME TypeInv, [Next]_vars PROVE TypeInv'
  OBVIOUS
<1>. USE DEF TypeInv, TypeOK, InPlace, Busy, Copying, Goto, Return, Stay, Works, Fault,
             fs, copying, hist
<1>0. /\ Len(cmd.ops) \in Nat /\ DOMAIN cmd.ops = 1..Len(cmd.ops)
      /\ idx \in DOMAIN cmd.ops => Src \in Paths /\ Dst \in Paths
      /\ MaxFaults \in Nat /\ MaxOthers \in Nat /\ NONE \notin Inodes
      /\ \A b \in -1..1 : BitOr(err, b) \in -1..1
      /\ \A b \in 0..1 : BitOr(rc, b) \in 0..1
  BY CmdFacts, BitOrFacts, MvAssumption
<1>1. CASE StartOperand
  BY <1>0, <1>1 DEF StartOperand, Exists, CloseBoth
<1>2. CASE AnswerYes
  BY <1>0, <1>2 DEF AnswerYes, Exists, CloseBoth
<1>3. CASE AnswerNo
  BY <1>0, <1>3 DEF AnswerNo, Exists, CloseBoth
<1>4. CASE RenameFails
  BY <1>0, <1>4 DEF RenameFails, Exists, CloseBoth
<1>5. CASE RenameCrosses
  BY <1>0, <1>5 DEF RenameCrosses, Exists, CloseBoth
<1>6. CASE OpenTargetCurdir
  <2>1. CASE Goto("copy_file") /\ opened' = TRUE /\ Works
    BY <1>0, <1>6, <2>1 DEF OpenTargetCurdir
  <2>2. CASE Fault /\ pc' = "done" /\ err' = 1 /\ UNCHANGED <<idx, opened>>
    BY <1>0, <1>6, <2>2 DEF OpenTargetCurdir
  <2>. QED
    BY <1>6, <2>1, <2>2 DEF OpenTargetCurdir
<1>7. CASE CopyFileRefuses
  BY <1>0, <1>7 DEF CopyFileRefuses, Exists, CloseBoth
<1>8. CASE UnlinkFails
  BY <1>0, <1>8 DEF UnlinkFails, Exists, CloseBoth
<1>9. CASE OpenSourceFails
  BY <1>0, <1>9 DEF OpenSourceFails, Exists, CloseBoth
<1>10. CASE OpenTargetFails
  BY <1>0, <1>10 DEF OpenTargetFails, Exists, CloseBoth
<1>11. CASE CopyEnds
  BY <1>0, <1>11 DEF CopyEnds, Exists, CloseBoth
<1>12. CASE CopyModeFails
  BY <1>0, <1>12 DEF CopyModeFails, Exists, CloseBoth
<1>13. CASE Exit
  BY <1>0, <1>13 DEF Exit, Exists, CloseBoth

<1>14. CASE Rename
  <2>1. at' \in [Paths -> Inodes \cup {NONE}]
    BY <1>0, <1>14 DEF Rename, Exists
  <2>2. overwritten' \subseteq Inodes
    BY <1>0, <1>14 DEF Rename
  <2>. QED
    BY <1>0, <1>14, <2>1, <2>2 DEF Rename
<1>15. CASE CopyFileStarts
  BY <1>0, <1>15 DEF CopyFileStarts, Exists
<1>16. CASE UnlinkTarget
  <2>1. at' \in [Paths -> Inodes \cup {NONE}] /\ overwritten' \subseteq Inodes
    BY <1>0, <1>16, LinkFacts DEF UnlinkTarget
  <2>. QED
    BY <1>0, <1>16, <2>1 DEF UnlinkTarget
<1>17. CASE OpenSource
  BY <1>0, <1>17 DEF OpenSource, Exists
<1>18. CASE OpenTarget
  <2>1. CASE Exists(Dst)
    <3>1. file' \in [Inodes -> Files] /\ out' \in Inodes
      BY <1>0, <1>18, <2>1, ChangeFacts, TruncatedFacts DEF OpenTarget, Exists, SameMeta
    <3>. QED
      BY <1>0, <1>18, <2>1, <3>1 DEF OpenTarget, Exists
  <2>2. CASE ~Exists(Dst)
    <3>1. NewInode \in Inodes
      BY <1>18, <2>2, NewInodeFacts DEF OpenTarget
    <3>2. file' \in [Inodes -> Files] /\ at' \in [Paths -> Inodes \cup {NONE}]
      BY <1>0, <1>18, <2>2, <3>1, ChangeFacts, LinkFacts, CreatedType DEF OpenTarget
    <3>. QED
      BY <1>0, <1>18, <2>2, <3>1, <3>2 DEF OpenTarget
  <2>. QED
    BY <2>1, <2>2
<1>19. CASE CopyBlock
  <2>1. file[in].data[pos + 1] \in Blocks
    BY <1>0, <1>19 DEF CopyBlock, Files
  <2>2. file' \in [Inodes -> Files]
    BY <1>0, <1>19, <2>1, ChangeFacts, ExtendedFacts DEF CopyBlock, SameMeta
  <2>. QED
    BY <1>0, <1>19, <2>2 DEF CopyBlock
<1>20. CASE CopyTimes
  <2>1. st.time \in {"old", "new"}
    BY DEF Files
  <2>2. file' \in [Inodes -> Files]
    BY <1>0, <1>20, <2>1, ChangeFacts, TimedFacts DEF CopyTimes, Exists, SameMeta
  <2>. QED
    BY <1>0, <1>20, <2>2 DEF CopyTimes
<1>21. CASE CopyOwner
  <2>1. st.own \in {"mv", "source", "another"}
    BY DEF Files
  <2>2. file' \in [Inodes -> Files]
    BY <1>0, <1>21, <2>1, ChangeFacts, OwnedFacts DEF CopyOwner, SameMeta
  <2>. QED
    BY <1>0, <1>21, <2>2 DEF CopyOwner
<1>22. CASE CopyMode
  <2>1. st.writable \in BOOLEAN
    BY DEF Files
  <2>2. file' \in [Inodes -> Files]
    BY <1>0, <1>22, <2>1, ChangeFacts, ModedFacts DEF CopyMode, SameMeta
  <2>. QED
    BY <1>0, <1>22, <2>2, BitOrFacts DEF CopyMode, CloseBoth
<1>23. CASE CopySetid
  <2>1. file' \in [Inodes -> Files]
    BY <1>0, <1>23, ChangeFacts, WithSetidFacts DEF CopySetid, SameMeta
  <2>. QED
    BY <1>0, <1>23, <2>1 DEF CopySetid, CloseBoth
<1>24. ASSUME NEW p \in Paths, NEW b \in Blocks, OtherAppends(p, b) PROVE TypeInv'
  <2>1. file' \in [Inodes -> Files]
    BY <1>0, <1>24, ChangeFacts, ExtendedFacts DEF OtherAppends, Exists, SameMeta
  <2>. QED
    BY <1>0, <1>24, <2>1 DEF OtherAppends, Elsewhere
<1>25. ASSUME NEW p \in Paths, OtherRemoves(p) PROVE TypeInv'
  <2>1. at' \in [Paths -> Inodes \cup {NONE}]
    BY <1>0, <1>25, LinkFacts DEF OtherRemoves
  <2>. QED
    BY <1>0, <1>25, <2>1 DEF OtherRemoves, Elsewhere
<1>26. ASSUME NEW p \in Paths, OtherCreates(p) PROVE TypeInv'
  <2>1. NewInode \in Inodes
    BY <1>26, NewInodeFacts DEF OtherCreates
  <2>2. file' \in [Inodes -> Files] /\ at' \in [Paths -> Inodes \cup {NONE}]
    BY <1>0, <1>26, <2>1, ChangeFacts, LinkFacts, CreatedType DEF OtherCreates
  <2>. QED
    BY <1>0, <1>26, <2>2 DEF OtherCreates, Elsewhere
<1>27. CASE UNCHANGED vars
  BY <1>0, <1>27 DEF vars
<1>. QED
  BY <1>1, <1>2, <1>3, <1>4, <1>5, <1>6, <1>7, <1>8, <1>9, <1>10, <1>11, <1>12, <1>13, <1>14,
     <1>15, <1>16, <1>17, <1>18, <1>19, <1>20, <1>21, <1>22, <1>23, <1>24, <1>25, <1>26, <1>27
  DEF Next, Step, Other, Done

LEMMA TypeInvariant == Spec => []TypeInv
BY InitType, NextType, PTL DEF Spec

(* Every reachable state is well typed, with one descriptor open for each  *)
(* of the two files of a copy and none outside of it.                      *)
THEOREM TypeCorrect == Spec => []TypeOK
BY TypeInvariant, PTL DEF TypeInv

-----------------------------------------------------------------------------
(* Set-ID bits.  Only two steps set one: copying the mode of a source that *)
(* has one, after its owner was copied, and nothing comes between, for     *)
(* what mv writes into is open and no other process gets its inode.        *)
LEMMA InitSetid == Init => SetidInv
BY MvAssumption DEF Init, SetidInv, Granted, Created

LEMMA NextSetid == TypeInv /\ TypeInv' /\ SetidInv /\ [Next]_vars => SetidInv'
<1>. SUFFICES ASSUME TypeInv, TypeInv', SetidInv, [Next]_vars PROVE SetidInv'
  OBVIOUS
<1>. USE DEF SetidInv, Goto, Return, Stay, Works, Fault, fs, copying, hist
<1>0. /\ file \in [Inodes -> Files] /\ NONE \notin Inodes /\ at \in [Paths -> Inodes \cup {NONE}]
      /\ pc \in Busy => Src \in Paths /\ Dst \in Paths
      /\ out # NONE <=> pc \in Copying \ {"open_out"}
      /\ in # NONE <=> pc \in Copying
      /\ in \in Inodes \cup {NONE} /\ out \in Inodes \cup {NONE} /\ st \in Files
      /\ st.own \in {"mv", "source", "another"} /\ st.time \in {"old", "new"}
      /\ st.writable \in BOOLEAN
  BY CmdFacts, MvAssumption DEF TypeInv, TypeOK, InPlace, Files
<1>. USE DEF Copying, Busy
<1>1. ASSUME UNCHANGED <<file, st, out, attr_rc>>, pc' \notin {"fchmod", "fchmod_setid"}
      PROVE  SetidInv'
  BY <1>1
<1>2. CASE StartOperand \/ AnswerYes \/ AnswerNo \/ RenameFails \/ RenameCrosses
           \/ OpenTargetCurdir \/ CopyFileRefuses \/ UnlinkFails \/ Rename
  BY <1>1, <1>2 DEF StartOperand, AnswerYes, AnswerNo, RenameFails, RenameCrosses,
    OpenTargetCurdir, CopyFileRefuses, UnlinkFails, Rename
<1>3. CASE UnlinkTarget \/ OpenSourceFails \/ OpenTargetFails \/ CopyEnds \/ Exit
  BY <1>1, <1>3 DEF UnlinkTarget, OpenSourceFails, OpenTargetFails, CopyEnds, Exit
<1>4. CASE CopyModeFails
  BY <1>4 DEF CopyModeFails
<1>5. CASE CopyFileStarts \/ OpenSource
  BY <1>0, <1>5 DEF CopyFileStarts, OpenSource, Exists
(* What is left changes one file.                                          *)
<1>6. ASSUME NEW i \in Inodes, NEW f \in Files, Change(i, f), UNCHANGED st,
             f.setid => Granted(f.own)
      PROVE  \A j \in Inodes : file'[j].setid => Granted(file'[j].own)
  BY <1>0, <1>6, ChangeFacts
<1>7. ASSUME NEW i \in Inodes, NEW f \in Files, Change(i, f), UNCHANGED <<st, pc, out, attr_rc>>,
             f.setid => Granted(f.own), i = out => f.own = file[i].own
      PROVE  SetidInv'
  BY <1>0, <1>6, <1>7, ChangeFacts
<1>8. CASE OpenTarget
  <2>1. CASE Exists(Dst)
    <3>. DEFINE f == Truncated(file[at[Dst]])
    <3>1. at[Dst] \in Inodes /\ f \in Files /\ (f.setid => Granted(f.own))
      BY <1>0, <1>8, <2>1, TruncatedFacts DEF OpenTarget, Exists, SameMeta
    <3>. HIDE DEF f
    <3>2. Change(at[Dst], f) /\ UNCHANGED st /\ pc' = "copy"
      BY <1>8, <2>1 DEF OpenTarget, f
    <3>. QED
      BY <1>6, <3>1, <3>2
  <2>2. CASE ~Exists(Dst)
    <3>1. NewInode \in Inodes /\ Created \in Files /\ ~Created.setid
      BY <1>8, <2>2, NewInodeFacts, CreatedType DEF OpenTarget, Created
    <3>. QED
      BY <1>6, <1>8, <2>2, <3>1 DEF OpenTarget
  <2>. QED
    BY <2>1, <2>2
<1>9. CASE CopyBlock
  <2>. DEFINE f == Extended(file[out], file[in].data[pos + 1])
  <2>1. file[in].data[pos + 1] \in Blocks
    BY <1>0, <1>9 DEF CopyBlock, Files, TypeInv, TypeOK
  <2>2. out \in Inodes /\ f \in Files /\ f.own = file[out].own /\ f.setid = file[out].setid
    BY <1>0, <1>9, <2>1, ExtendedFacts DEF CopyBlock, SameMeta
  <2>. HIDE DEF f
  <2>3. Change(out, f) /\ pc' = pc /\ UNCHANGED <<st, out, attr_rc>>
    BY <1>9 DEF CopyBlock, f
  <2>. QED
    BY <1>7, <2>2, <2>3
<1>10. CASE CopyTimes
  <2>1. CASE Exists(Dst) /\ Change(at[Dst], Timed(file[at[Dst]], st.time))
    <3>. DEFINE f == Timed(file[at[Dst]], st.time)
    <3>1. at[Dst] \in Inodes /\ f \in Files /\ (f.setid => Granted(f.own))
      BY <1>0, <1>10, <2>1, TimedFacts DEF CopyTimes, Exists, SameMeta
    <3>. QED
      BY <1>6, <1>10, <2>1, <3>1 DEF CopyTimes
  <2>2. CASE UNCHANGED file
    BY <1>10, <2>2 DEF CopyTimes
  <2>. QED
    BY <1>10, <2>1, <2>2 DEF CopyTimes
<1>11. CASE CopyOwner
  <2>1. CASE UNCHANGED attr_rc
             /\ Change(out, Owned(file[out], st.own))
    <3>. DEFINE f == Owned(file[out], st.own)
    <3>1. out \in Inodes /\ f \in Files /\ ~f.setid /\ f.own = st.own
      BY <1>0, <1>11, <2>1, OwnedFacts DEF CopyOwner, SameMeta
    <3>. HIDE DEF f
    <3>2. Change(out, f) /\ pc' = "fchmod" /\ UNCHANGED <<st, out>>
      BY <1>11, <2>1 DEF CopyOwner, f
    <3>. QED
      BY <1>0, <1>6, <3>1, <3>2, ChangeFacts
  <2>2. CASE attr_rc' = 1 /\ UNCHANGED file
    BY <1>11, <2>2 DEF CopyOwner
  <2>. QED
    BY <1>11, <2>1, <2>2 DEF CopyOwner
<1>12. CASE CopyMode
  <2>. DEFINE f == Moded(file[out], st.writable)
  <2>1. out \in Inodes /\ f \in Files /\ ~f.setid /\ f.own = file[out].own
    BY <1>0, <1>12, ModedFacts DEF CopyMode, SameMeta
  <2>. HIDE DEF f
  <2>2. /\ Change(out, f) /\ pc = "fchmod" /\ UNCHANGED <<st, attr_rc>>
        /\ \/ attr_rc = 0 /\ st.setid /\ pc' = "fchmod_setid" /\ UNCHANGED out
           \/ pc' = "operand"
    BY <1>12 DEF CopyMode, f
  <2>. QED
    BY <1>0, <1>6, <2>1, <2>2, ChangeFacts
<1>13. CASE CopySetid
  <2>. DEFINE f == WithSetid(file[out])
  <2>1. out \in Inodes /\ f \in Files /\ f.own = file[out].own
    BY <1>0, <1>13, WithSetidFacts DEF CopySetid, SameMeta
  <2>. HIDE DEF f
  <2>2. Change(out, f) /\ pc = "fchmod_setid" /\ pc' = "operand" /\ UNCHANGED st
    BY <1>13 DEF CopySetid, f
  <2>. QED
    BY <1>0, <1>6, <2>1, <2>2
<1>14. ASSUME NEW p \in Paths, NEW b \in Blocks, OtherAppends(p, b) PROVE SetidInv'
  <2>. DEFINE f == Extended(file[at[p]], b)
  <2>1. at[p] \in Inodes /\ f \in Files /\ f.own = file[at[p]].own /\ f.setid = file[at[p]].setid
    BY <1>0, <1>14, ExtendedFacts DEF OtherAppends, Exists, SameMeta
  <2>. HIDE DEF f
  <2>2. Change(at[p], f) /\ UNCHANGED <<st, pc, out, attr_rc>>
    BY <1>14 DEF OtherAppends, Elsewhere, f
  <2>. QED
    BY <1>7, <2>1, <2>2
<1>15. ASSUME NEW p \in Paths, OtherCreates(p) PROVE SetidInv'
  <2>. DEFINE f == [Created EXCEPT !.own = "another"]
  <2>1. NewInode \in Inodes /\ NewInode # out /\ f \in Files /\ ~f.setid
    BY <1>15, NewInodeFacts, CreatedType DEF OtherCreates, Created
  <2>. HIDE DEF f
  <2>2. Change(NewInode, f) /\ UNCHANGED <<st, pc, out, attr_rc>>
    BY <1>15 DEF OtherCreates, Elsewhere, f
  <2>. QED
    BY <1>7, <2>1, <2>2
<1>16. CASE UNCHANGED vars \/ \E p \in Paths : OtherRemoves(p)
  BY <1>16 DEF vars, OtherRemoves, Elsewhere
<1>. QED
  BY <1>2, <1>3, <1>4, <1>5, <1>8, <1>9, <1>10, <1>11, <1>12, <1>13, <1>14, <1>15, <1>16
  DEF Next, Step, Other, Done

(* At no moment does a file carry set-ID bits under an owner that they     *)
(* were not granted by, whichever calls fail and whatever others do.       *)
THEOREM SetidAlwaysGranted == Spec => []SetidOnlyForOwner
<1>1. SetidInv => SetidOnlyForOwner
  BY DEF SetidInv, SetidOnlyForOwner, Granted
<1>. QED
  BY InitSetid, NextSetid, TypeInvariant, <1>1, PTL DEF Spec

-----------------------------------------------------------------------------
(* Prompts.  From the answer on, what is at the destination is what was    *)
(* asked for, until it has been unlinked; then nothing is there.           *)
LEMMA NextConfirm == TypeInv /\ ConfirmInv /\ [Next]_vars => ConfirmInv'
<1>. SUFFICES ASSUME TypeInv, ConfirmInv, [Next]_vars,
                     (cmd.interactive /\ ~cmd.force /\ others = 0)'
              PROVE  /\ overwritten' \subseteq confirmed'
                     /\ (pc \in AskedFor /\ Exists(Dst))' => at'[Dst'] \in confirmed'
                     /\ pc' \in {"open_in", "open_out"} => ~Exists(Dst)'
  BY DEF ConfirmInv
<1>. DEFINE Goal == /\ overwritten' \subseteq confirmed'
                    /\ (pc \in AskedFor /\ Exists(Dst))' => at'[Dst'] \in confirmed'
                    /\ pc' \in {"open_in", "open_out"} => ~Exists(Dst)'
<1>. USE DEF Goto, Return, Stay, Works, Fault, fs, copying, hist, AskedFor
<1>0. /\ at \in [Paths -> Inodes \cup {NONE}] /\ others \in Nat
      /\ pc \in Busy => Src \in Paths /\ Dst \in Paths
      /\ pc \in Busy \cup {"operand", "done"}
  BY CmdFacts, MvAssumption DEF TypeInv, TypeOK, InPlace
<1>1. CASE Other
  BY <1>0, <1>1 DEF Other, OtherAppends, OtherRemoves, OtherCreates, Elsewhere
<1>2. CASE UNCHANGED vars
  BY <1>2 DEF vars, ConfirmInv, Exists, Dst
<1>. SUFFICES ASSUME Step PROVE Goal
  BY <1>1, <1>2 DEF Next, Done
<1>3. /\ UNCHANGED <<cmd, others>>
      /\ overwritten \subseteq confirmed
      /\ pc \in AskedFor /\ Exists(Dst) => at[Dst] \in confirmed
      /\ pc \in {"open_in", "open_out"} => ~Exists(Dst)
  <2>1. UNCHANGED <<cmd, others>>
    BY DEF Step, StartOperand, AnswerYes, AnswerNo, Rename, RenameFails, RenameCrosses,
      OpenTargetCurdir, CopyFileRefuses, CopyFileStarts, UnlinkTarget, UnlinkFails,
      OpenSource, OpenSourceFails, OpenTarget, OpenTargetFails, CopyBlock, CopyEnds,
      CopyTimes, CopyOwner, CopyMode, CopySetid, CopyModeFails, Exit
  <2>. QED
    BY <2>1 DEF ConfirmInv
<1>4. CASE StartOperand
  BY <1>3, <1>4 DEF StartOperand, NeedsPrompt, Exists, Dst
<1>5. CASE AnswerYes
  BY <1>3, <1>5 DEF AnswerYes, Exists, Dst
<1>6. CASE Rename
  BY <1>3, <1>6 DEF Rename, Exists
<1>7. CASE RenameCrosses \/ OpenTargetCurdir \/ CopyFileStarts \/ OpenSource
  BY <1>3, <1>7 DEF RenameCrosses, OpenTargetCurdir, CopyFileStarts, OpenSource, Exists, Dst
<1>8. CASE UnlinkTarget
  <2>1. Dst \in Paths /\ at'[Dst] = NONE
    BY <1>0, <1>8, LinkFacts DEF UnlinkTarget, Busy
  <2>. QED
    BY <1>3, <1>8, <2>1 DEF UnlinkTarget, Exists, Dst
<1>9. CASE OpenTarget
  BY <1>3, <1>9 DEF OpenTarget
<1>10. CASE AnswerNo \/ RenameFails \/ CopyFileRefuses \/ UnlinkFails \/ OpenSourceFails
            \/ OpenTargetFails \/ CopyModeFails \/ CopyMode \/ CopySetid
  BY <1>3, <1>10 DEF AnswerNo, RenameFails, CopyFileRefuses, UnlinkFails, OpenSourceFails,
    OpenTargetFails, CopyModeFails, CopyMode, CopySetid
<1>11. CASE CopyBlock \/ CopyEnds \/ CopyTimes \/ CopyOwner \/ Exit
  BY <1>3, <1>11 DEF CopyBlock, CopyEnds, CopyTimes, CopyOwner, Exit
<1>. QED
  BY <1>4, <1>5, <1>6, <1>7, <1>8, <1>9, <1>10, <1>11 DEF Step

(* Under -i without -f no destination that was there is replaced, removed  *)
(* or truncated unless the prompt for it was answered yes, however many    *)
(* operands there are and whichever calls fail.                            *)
THEOREM OverwritesAreConfirmed == Spec => []OverwritesConfirmedOnly
<1>1. Init => ConfirmInv
  BY DEF Init, ConfirmInv, AskedFor
<1>2. ConfirmInv => OverwritesConfirmedOnly
  BY DEF ConfirmInv, OverwritesConfirmedOnly
<1>. QED
  BY <1>1, NextConfirm, TypeInvariant, <1>2, PTL DEF Spec

-----------------------------------------------------------------------------
(* Files.  What a step does to files and paths is one of a few changes,    *)
(* each of which keeps what was there when mv began.                       *)
LEMMA PrefixFacts ==
  ASSUME NEW r \in Seq(Blocks), NEW s \in Seq(Blocks)
  PROVE  /\ IsPrefix(s, s)
         /\ \A b \in Blocks : /\ IsPrefix(s, Append(s, b))
                              /\ IsPrefix(r, s) => IsPrefix(r, Append(s, b))
         /\ \A t \in Seq(Blocks) : IsPrefix(r, s) /\ IsPrefix(s, t) => IsPrefix(r, t)
<1>1. ASSUME NEW t \in Seq(Blocks), NEW u \in Seq(Blocks)
      PROVE  IsPrefix(t, u) <=> Len(t) <= Len(u) /\ \A k \in 1..Len(t) : t[k] = u[k]
  <2>1. Len(t) <= Len(u) =>
          /\ SubSeq(t, 1, Len(t)) = [k \in 1..Len(t) |-> t[k]]
          /\ SubSeq(u, 1, Len(t)) = [k \in 1..Len(t) |-> u[k]]
    OBVIOUS
  <2>. QED
    BY <2>1 DEF IsPrefix
<1>2. \A b \in Blocks : /\ Append(s, b) \in Seq(Blocks) /\ Len(Append(s, b)) = Len(s) + 1
                        /\ \A k \in 1..Len(s) : Append(s, b)[k] = s[k]
  OBVIOUS
<1>3. ASSUME NEW b \in Blocks PROVE IsPrefix(s, Append(s, b))
  <2>1. Len(s) <= Len(Append(s, b)) /\ \A k \in 1..Len(s) : s[k] = Append(s, b)[k]
    BY <1>2
  <2>. QED
    BY <1>1, <1>2, <2>1
<1>4. IsPrefix(s, s)
  BY <1>1
<1>5. ASSUME NEW t \in Seq(Blocks), IsPrefix(r, s), IsPrefix(s, t)
      PROVE  IsPrefix(r, t)
  <2>1. /\ Len(r) <= Len(s) /\ \A k \in 1..Len(r) : r[k] = s[k]
        /\ Len(s) <= Len(t) /\ \A k \in 1..Len(s) : s[k] = t[k]
    BY <1>1, <1>5
  <2>2. Len(r) <= Len(t) /\ \A k \in 1..Len(r) : r[k] = t[k]
    BY <2>1
  <2>. QED
    BY <1>1, <2>2
<1>. QED
  BY <1>2, <1>3, <1>4, <1>5

LEMMA PrefixChain ==
  \A r, s, t \in Seq(Blocks) : IsPrefix(r, s) /\ IsPrefix(s, t) => IsPrefix(r, t)
BY PrefixFacts

(* The names that other definitions take from the command line stay.       *)
LEMMA SameCmd ==
  ASSUME UNCHANGED cmd
  PROVE  /\ Sources' = Sources /\ Targets' = Targets
         /\ \A i \in DOMAIN cmd.ops : (Alone(i)' <=> Alone(i)) /\ Original(i)' = Original(i)
         /\ idx' = idx => Src' = Src /\ Dst' = Dst
BY DEF Sources, Targets, Alone, Original, Src, Dst

OriginalsInv == KeptInv /\ NewInv /\ SourceInv

(* A file is changed: one that mv made, or another is only added to.       *)
LEMMA ChangeKeeps ==
  ASSUME TypeInv, OriginalsInv, UNCHANGED <<cmd, at>>,
         NEW i \in Inodes, NEW f \in Files, Change(i, f), f.kind = file[i].kind,
         i \in Originals => SameMeta(file[i], f) /\ IsPrefix(file[i].data, f.data)
  PROVE  OriginalsInv'
<1>0. /\ file \in [Inodes -> Files] /\ StartFiles \in [Inodes -> Files]
      /\ Originals \subseteq Inodes
  BY MvAssumption DEF TypeInv, TypeOK, Originals
<1>1. file'[i] = f /\ \A j \in Inodes \ {i} : file'[j] = file[j]
  BY <1>0, ChangeFacts
<1>2. ASSUME NEW j \in Originals PROVE FileKept(j)'
  <2>1. CASE j = i
    <3>1. /\ StartFiles[j].data \in Seq(Blocks) /\ file[j].data \in Seq(Blocks)
          /\ f.data \in Seq(Blocks)
      BY <1>0 DEF Files
    <3>2. FileKept(j) /\ SameMeta(file[j], f) /\ IsPrefix(file[j].data, f.data)
      BY <2>1 DEF OriginalsInv, KeptInv
    <3>. QED
      BY <1>1, <2>1, <3>1, <3>2, PrefixFacts DEF FileKept, SameMeta
  <2>2. CASE j # i
    BY <1>0, <1>1, <2>2 DEF OriginalsInv, KeptInv, FileKept
  <2>. QED
    BY <2>1, <2>2
<1>3. NewInv'
  BY <1>1 DEF OriginalsInv, NewInv, IsNew
<1>4. SourceInv'
  BY SameCmd DEF OriginalsInv, SourceInv
<1>. QED
  BY <1>2, <1>3, <1>4 DEF OriginalsInv, KeptInv

(* A path is removed.                                                      *)
LEMMA RemoveKeeps ==
  ASSUME TypeInv, OriginalsInv, UNCHANGED <<cmd, file>>, NEW p \in Paths, Link(p, NONE)
  PROVE  OriginalsInv'
<1>1. /\ NONE \notin Inodes /\ \A i \in DOMAIN cmd.ops : cmd.ops[i].from \in Paths
      /\ at'[p] = NONE /\ \A q \in Paths \ {p} : at'[q] = at[q]
  BY LinkFacts, CmdFacts, MvAssumption DEF TypeInv, TypeOK
<1>. QED
  BY <1>1, SameCmd DEF OriginalsInv, KeptInv, FileKept, NewInv, SourceInv, IsNew

(* A file is created, at a path to which something is moved.               *)
LEMMA CreateKeeps ==
  ASSUME TypeInv, OriginalsInv, UNCHANGED cmd, Unused # {}, NEW p \in Targets,
         NEW f \in Files, f.kind = "file", Link(p, NewInode), Change(NewInode, f)
  PROVE  OriginalsInv'
<1>0. /\ file \in [Inodes -> Files] /\ at \in [Paths -> Inodes \cup {NONE}]
      /\ Originals \subseteq Inodes /\ p \in Paths
      /\ \A i \in DOMAIN cmd.ops : cmd.ops[i].from \in Paths
  BY MvAssumption, CmdFacts DEF TypeInv, TypeOK, Originals
<1>1. /\ NewInode \in Inodes \ Originals
      /\ \A q \in Paths : NewInode # at[q]
  BY NewInodeFacts, MvAssumption DEF Originals
<1>2. /\ at'[p] = NewInode /\ \A q \in Paths \ {p} : at'[q] = at[q]
      /\ file'[NewInode] = f /\ \A j \in Inodes \ {NewInode} : file'[j] = file[j]
  BY <1>0, <1>1, ChangeFacts, LinkFacts
<1>3. KeptInv'
  BY <1>0, <1>1, <1>2 DEF OriginalsInv, KeptInv, FileKept
<1>4. NewInv'
  BY <1>0, <1>1, <1>2 DEF OriginalsInv, NewInv, IsNew
<1>5. SourceInv'
  BY <1>0, <1>2, SameCmd DEF OriginalsInv, SourceInv, Alone
<1>. QED
  BY <1>3, <1>4, <1>5 DEF OriginalsInv

(* A file is renamed.                                                      *)
LEMMA RenameKeeps == TypeInv /\ OriginalsInv /\ Rename => OriginalsInv'
<1>. SUFFICES ASSUME TypeInv, OriginalsInv, Rename PROVE OriginalsInv'
  OBVIOUS
<1>0. /\ at \in [Paths -> Inodes \cup {NONE}] /\ Src \in Paths /\ Dst \in Paths
      /\ idx \in DOMAIN cmd.ops /\ NONE \notin Inodes
      /\ \A i \in DOMAIN cmd.ops : cmd.ops[i].from \in Paths
  BY CmdFacts, MvAssumption DEF TypeInv, TypeOK, InPlace, Busy, Rename
<1>1. UNCHANGED <<cmd, file>>
  BY DEF Rename
<1>2. CASE UNCHANGED at
  BY <1>1, <1>2, SameCmd DEF OriginalsInv, KeptInv, FileKept, NewInv, SourceInv
<1>3. CASE at' = [at EXCEPT ![Src] = NONE, ![Dst] = at[Src]]
  <2>1. /\ at'[Dst] = at[Src] /\ (Src # Dst => at'[Src] = NONE)
        /\ \A q \in Paths \ {Src, Dst} : at'[q] = at[q]
    BY <1>0, <1>3
  <2>2. KeptInv' /\ NewInv'
    BY <1>0, <1>1, <2>1 DEF OriginalsInv, KeptInv, FileKept, NewInv, IsNew
  <2>3. SourceInv'
    <3>1. Dst \in Targets
      BY <1>0 DEF Targets, Dst
    <3>. QED
      BY <1>0, <1>1, <2>1, <3>1, SameCmd DEF OriginalsInv, SourceInv, Alone
  <2>. QED
    BY <2>2, <2>3 DEF OriginalsInv
<1>. QED
  BY <1>2, <1>3 DEF Rename

LEMMA NextFiles == TypeInv /\ TypeInv' /\ FilesInv /\ [Next]_vars => FilesInv'
<1>. SUFFICES ASSUME TypeInv, TypeInv', FilesInv, [Next]_vars PROVE FilesInv'
  OBVIOUS
<1>. USE DEF Goto, Return, Stay, Works, Fault, fs, copying, hist, Copying, Busy
<1>0. /\ file \in [Inodes -> Files] /\ at \in [Paths -> Inodes \cup {NONE}]
      /\ NONE \notin Inodes /\ NONE \notin Originals /\ OriginalsInv
      /\ pc \in Busy => Dst \in Paths /\ Dst \in Targets
      /\ pc \in Busy \cup {"operand", "done"}
      /\ out # NONE <=> pc \in Copying \ {"open_out"}
      /\ in # NONE <=> pc \in Copying
      /\ in \in Inodes \cup {NONE} /\ out \in Inodes \cup {NONE} /\ st \in Files
      /\ st.own \in {"mv", "source", "another"} /\ st.time \in {"old", "new"}
      /\ st.writable \in BOOLEAN
  BY CmdFacts, MvAssumption
  DEF TypeInv, TypeOK, InPlace, Files, Originals, FilesInv, OriginalsInv, Targets, Dst
<1>1. out' # NONE <=> pc' \in Copying \ {"open_out"}
  BY DEF TypeInv, TypeOK
<1>2. FilesInv' <=> OriginalsInv' /\ TargetInv'
  BY DEF FilesInv, OriginalsInv
<1>3. pc' \notin Copying \cup {"open_in"} => TargetInv'
  BY <1>1 DEF TargetInv
<1>4. UNCHANGED <<cmd, fs>> => OriginalsInv'
  BY SameCmd DEF OriginalsInv, KeptInv, FileKept, NewInv, SourceInv, FilesInv
<1>5. CASE StartOperand \/ AnswerYes \/ AnswerNo \/ RenameFails \/ RenameCrosses
           \/ OpenTargetCurdir \/ CopyFileRefuses \/ UnlinkFails
  BY <1>2, <1>3, <1>4, <1>5 DEF StartOperand, AnswerYes, AnswerNo, RenameFails,
    RenameCrosses, OpenTargetCurdir, CopyFileRefuses, UnlinkFails
<1>6. CASE CopyFileStarts \/ OpenSourceFails \/ OpenTargetFails \/ CopyModeFails \/ Exit
  BY <1>2, <1>3, <1>4, <1>6 DEF CopyFileStarts, OpenSourceFails, OpenTargetFails,
    CopyModeFails, Exit
<1>7. CASE OpenSource \/ CopyEnds \/ UNCHANGED vars
  <2>1. UNCHANGED <<cmd, idx, at, file, out>> /\ (pc' \in {"open_in", "open_out"} => pc \in {"open_in", "open_out"})
    BY <1>7 DEF OpenSource, CopyEnds, vars
  <2>2. TargetInv'
    BY <2>1, SameCmd DEF FilesInv, TargetInv
  <2>. QED
    BY <1>2, <1>4, <2>1, <2>2
<1>8. CASE Rename
  BY <1>0, <1>2, <1>3, <1>8, RenameKeeps DEF Rename
<1>9. CASE UnlinkTarget
  <2>1. Dst \in Paths /\ Link(Dst, NONE) /\ UNCHANGED <<cmd, file>>
    BY <1>0, <1>9 DEF UnlinkTarget
  <2>2. OriginalsInv' /\ at'[Dst] = NONE
    BY <1>0, <2>1, RemoveKeeps, LinkFacts
  <2>3. (pc' = "open_in" /\ UNCHANGED idx) \/ pc' = "operand"
    BY <1>9 DEF UnlinkTarget
  <2>4. CASE pc' = "open_in" /\ UNCHANGED idx
    BY <1>0, <1>1, <1>2, <2>1, <2>2, <2>4, SameCmd DEF TargetInv
  <2>. QED
    BY <1>2, <1>3, <2>2, <2>3, <2>4
<1>10. CASE OpenTarget
  <2>1. /\ Dst \in Paths /\ Dst \in Targets /\ pc' = "copy" /\ UNCHANGED <<cmd, idx>>
        /\ at[Dst] \notin Originals /\ Dst' = Dst
    BY <1>0, <1>10, SameCmd DEF OpenTarget, FilesInv, TargetInv
  <2>2. CASE Exists(Dst)
    <3>. DEFINE f == Truncated(file[at[Dst]])
    <3>1. /\ at[Dst] \in Inodes /\ IsNew(at[Dst]) /\ f \in Files
          /\ f.kind = file[at[Dst]].kind /\ f.kind = "file"
      BY <1>0, <2>1, <2>2, TruncatedFacts DEF Exists, IsNew, SameMeta, OriginalsInv, NewInv
    <3>. HIDE DEF f
    <3>2. out' = at[Dst] /\ UNCHANGED at /\ Change(at[Dst], f)
      BY <1>10, <2>2 DEF OpenTarget, f
    <3>3. OriginalsInv'
      BY <1>0, <2>1, <3>1, <3>2, ChangeKeeps
    <3>4. TargetInv'
      BY <1>0, <2>1, <3>1, <3>2, ChangeFacts DEF TargetInv, IsNew, OriginalsInv, NewInv
    <3>. QED
      BY <1>2, <3>3, <3>4
  <2>3. CASE ~Exists(Dst)
    <3>1. /\ Unused # {} /\ out' = NewInode /\ Link(Dst, NewInode) /\ Change(NewInode, Created)
      BY <1>10, <2>3 DEF OpenTarget
    <3>2. /\ Created \in Files /\ Created.kind = "file" /\ IsNew(NewInode)
          /\ \A p \in Paths : NewInode # at[p]
      BY <3>1, CreatedType, NewInodeFacts, MvAssumption DEF Created, IsNew, Originals
    <3>3. OriginalsInv'
      BY <1>0, <2>1, <3>1, <3>2, CreateKeeps
    <3>4. TargetInv'
      BY <1>0, <2>1, <3>1, <3>2, ChangeFacts, LinkFacts DEF TargetInv, IsNew
    <3>. QED
      BY <1>2, <3>3, <3>4
  <2>. QED
    BY <2>2, <2>3
(* What the copy writes is new; its attributes are too.                    *)
<1>11. ASSUME out # NONE, NEW f \in Files, f.kind = file[out].kind, Change(out, f),
              UNCHANGED <<cmd, at>>,
              (UNCHANGED <<out, idx>> /\ pc' \in Copying \ {"open_out"}) \/ pc' = "operand"
       PROVE  FilesInv'
  <2>1. out \in Inodes /\ IsNew(out) /\ f.kind = "file"
    BY <1>0, <1>11 DEF FilesInv, TargetInv
  <2>2. OriginalsInv'
    BY <1>0, <1>11, <2>1, ChangeKeeps DEF IsNew
  <2>3. CASE UNCHANGED <<out, idx>> /\ pc' \in Copying \ {"open_out"}
    <3>1. TargetInv'
      BY <1>0, <1>11, <2>1, <2>3, ChangeFacts, SameCmd DEF FilesInv, TargetInv
    <3>. QED
      BY <1>2, <2>2, <3>1
  <2>. QED
    BY <1>2, <1>3, <1>11, <2>2, <2>3
<1>12. CASE CopyBlock
  <2>. DEFINE f == Extended(file[out], file[in].data[pos + 1])
  <2>1. file[in].data[pos + 1] \in Blocks
    BY <1>0, <1>12 DEF CopyBlock, Files, TypeInv, TypeOK
  <2>2. f \in Files /\ f.kind = file[out].kind
    BY <1>0, <1>12, <2>1, ExtendedFacts DEF CopyBlock, SameMeta
  <2>. QED
    BY <1>0, <1>11, <1>12, <2>2 DEF CopyBlock
<1>13. CASE CopyOwner
  <2>1. CASE Change(out, Owned(file[out], st.own))
    BY <1>0, <1>11, <1>13, <2>1, OwnedFacts DEF CopyOwner
  <2>2. CASE UNCHANGED file
    <3>1. UNCHANGED <<cmd, idx, at, file, out>> /\ pc' = "fchmod"
      BY <1>13, <2>2 DEF CopyOwner
    <3>2. TargetInv'
      BY <3>1, SameCmd DEF FilesInv, TargetInv
    <3>. QED
      BY <1>2, <1>4, <3>1, <3>2
  <2>. QED
    BY <1>13, <2>1, <2>2 DEF CopyOwner
<1>14. CASE CopyMode
  <2>1. /\ out # NONE /\ Change(out, Moded(file[out], st.writable)) /\ UNCHANGED <<cmd, at>>
        /\ (UNCHANGED <<out, idx>> /\ pc' = "fchmod_setid") \/ pc' = "operand"
    BY <1>0, <1>14 DEF CopyMode
  <2>. QED
    BY <1>0, <1>11, <2>1, ModedFacts
<1>15. CASE CopySetid
  <2>1. /\ out # NONE /\ Change(out, WithSetid(file[out])) /\ UNCHANGED <<cmd, at>>
        /\ pc' = "operand"
    BY <1>0, <1>15 DEF CopySetid
  <2>. QED
    BY <1>0, <1>11, <2>1, WithSetidFacts
(* The other changes keep the kind, the owner and the bits, and add data.  *)
<1>16. ASSUME NEW i \in Inodes, NEW f \in Files, Change(i, f), SameMeta(file[i], f),
              IsPrefix(file[i].data, f.data), UNCHANGED <<cmd, at, out, idx>>,
              pc' = pc \/ pc' \in Copying \ {"open_out"}
       PROVE  FilesInv'
  <2>1. OriginalsInv'
    BY <1>0, <1>16, ChangeKeeps DEF SameMeta
  <2>2. TargetInv'
    BY <1>0, <1>16, ChangeFacts, SameCmd DEF FilesInv, TargetInv, SameMeta
  <2>. QED
    BY <1>2, <2>1, <2>2
<1>17. CASE CopyTimes
  <2>1. CASE Exists(Dst) /\ Change(at[Dst], Timed(file[at[Dst]], st.time))
    <3>. DEFINE f == Timed(file[at[Dst]], st.time)
    <3>1. at[Dst] \in Inodes /\ file[at[Dst]].data \in Seq(Blocks)
      BY <1>0, <1>17, <2>1 DEF CopyTimes, Exists, Files
    <3>2. f \in Files /\ SameMeta(file[at[Dst]], f) /\ IsPrefix(file[at[Dst]].data, f.data)
      BY <1>0, <3>1, TimedFacts, PrefixFacts
    <3>. HIDE DEF f
    <3>3. Change(at[Dst], f) /\ UNCHANGED <<cmd, at, out, idx>> /\ pc' = "fchown"
      BY <1>17, <2>1 DEF CopyTimes, f
    <3>. QED
      BY <1>16, <3>1, <3>2, <3>3
  <2>2. CASE UNCHANGED file
    <3>1. UNCHANGED <<cmd, idx, at, file, out>> /\ pc' = "fchown"
      BY <1>17, <2>2 DEF CopyTimes
    <3>2. TargetInv'
      BY <3>1, SameCmd DEF FilesInv, TargetInv
    <3>. QED
      BY <1>2, <1>4, <3>1, <3>2
  <2>. QED
    BY <1>17, <2>1, <2>2 DEF CopyTimes
<1>18. ASSUME NEW p \in Paths, NEW b \in Blocks, OtherAppends(p, b) PROVE FilesInv'
  <2>. DEFINE f == Extended(file[at[p]], b)
  <2>1. at[p] \in Inodes /\ file[at[p]].data \in Seq(Blocks)
    BY <1>0, <1>18 DEF OtherAppends, Exists, Files
  <2>2. f \in Files /\ SameMeta(file[at[p]], f) /\ IsPrefix(file[at[p]].data, f.data)
    <3>1. f \in Files /\ SameMeta(file[at[p]], f) /\ f.data = Append(file[at[p]].data, b)
      BY <1>0, <2>1, ExtendedFacts
    <3>. QED
      BY <2>1, <3>1, PrefixFacts
  <2>. HIDE DEF f
  <2>3. Change(at[p], f) /\ UNCHANGED <<cmd, at, out, idx, pc>>
    BY <1>18 DEF OtherAppends, Elsewhere, f
  <2>. QED
    BY <1>16, <2>1, <2>2, <2>3
<1>19. ASSUME NEW p \in Paths, OtherRemoves(p) PROVE FilesInv'
  <2>1. Link(p, NONE) /\ UNCHANGED <<cmd, file, out, idx, pc>>
    BY <1>19 DEF OtherRemoves, Elsewhere
  <2>2. OriginalsInv'
    BY <1>0, <2>1, RemoveKeeps
  <2>3. TargetInv'
    BY <1>0, <2>1, LinkFacts, SameCmd DEF FilesInv, TargetInv
  <2>. QED
    BY <1>2, <2>2, <2>3
<1>20. ASSUME NEW p \in Paths, OtherCreates(p) PROVE FilesInv'
  <2>. DEFINE f == [Created EXCEPT !.own = "another"]
  <2>1. /\ Link(p, NewInode) /\ Change(NewInode, f) /\ Unused # {} /\ p \in Targets
        /\ UNCHANGED <<cmd, out, idx, pc>>
    BY <1>20 DEF OtherCreates, Elsewhere
  <2>2. f \in Files /\ f.kind = "file"
    BY CreatedType DEF Created
  <2>. HIDE DEF f
  <2>3. /\ NewInode \in Inodes \ Originals /\ NewInode # out
    BY <2>1, NewInodeFacts, MvAssumption DEF Originals
  <2>4. OriginalsInv'
    BY <1>0, <2>1, <2>2, CreateKeeps
  <2>5. TargetInv'
    <3>1. /\ at'[p] = NewInode /\ \A q \in Paths \ {p} : at'[q] = at[q]
          /\ \A j \in Inodes \ {NewInode} : file'[j] = file[j]
      BY <1>0, <2>1, <2>2, <2>3, LinkFacts, ChangeFacts
    <3>2. TargetInv /\ Dst' = Dst
      BY <2>1, SameCmd DEF FilesInv
    <3>3. pc' \in {"open_in", "open_out"} => at'[Dst'] \notin Originals
      BY <1>0, <2>1, <2>3, <3>1, <3>2 DEF TargetInv
    <3>4. out # NONE => /\ file'[out] = file[out]
                        /\ \A q \in Paths : at'[q] = out => q = Dst
      BY <1>0, <2>3, <3>1, <3>2 DEF TargetInv
    <3>. QED
      BY <2>1, <3>2, <3>3, <3>4 DEF TargetInv
  <2>. QED
    BY <1>2, <2>4, <2>5
<1>. QED
  BY <1>5, <1>6, <1>7, <1>8, <1>9, <1>10, <1>12, <1>13, <1>14, <1>15, <1>17, <1>18, <1>19, <1>20
  DEF Next, Step, Other, Done

-----------------------------------------------------------------------------
(* The copy of an operand that is alone.                                   *)
LEMMA NextCopy ==
  TypeInv /\ TypeInv' /\ FilesInv /\ FilesInv' /\ CopyInv /\ [Next]_vars => CopyInv'
<1>. SUFFICES ASSUME TypeInv, TypeInv', FilesInv, FilesInv', CopyInv, [Next]_vars,
                     pc' \in Busy, Alone(idx)'
              PROVE  CopyInv'
  BY DEF CopyInv
<1>. USE DEF Goto, Return, Stay, Works, Fault, fs, copying, hist, Copying, Busy
<1>0. /\ file \in [Inodes -> Files] /\ at \in [Paths -> Inodes \cup {NONE}]
      /\ StartFiles \in [Inodes -> Files]
      /\ NONE \notin Inodes /\ NONE \notin Originals /\ Originals \subseteq Inodes
      /\ pc \in Busy => Dst \in Paths /\ Dst \in Targets
      /\ pc \in Busy \cup {"operand", "done"}
      /\ out # NONE <=> pc \in Copying \ {"open_out"}
      /\ in # NONE <=> pc \in Copying
      /\ in \in Inodes \cup {NONE} /\ out \in Inodes \cup {NONE} /\ st \in Files
      /\ st.own \in {"mv", "source", "another"} /\ st.time \in {"old", "new"}
      /\ st.writable \in BOOLEAN /\ pos \in Nat
      /\ \A i \in Inodes : file[i].data \in Seq(Blocks)
  <2>1. st \in Files /\ file \in [Inodes -> Files] /\ StartFiles \in [Inodes -> Files]
    BY MvAssumption DEF TypeInv, TypeOK
  <2>2. /\ st.own \in {"mv", "source", "another"} /\ st.time \in {"old", "new"}
        /\ st.writable \in BOOLEAN /\ \A i \in Inodes : file[i].data \in Seq(Blocks)
    BY <2>1 DEF Files
  <2>3. /\ file \in [Inodes -> Files] /\ at \in [Paths -> Inodes \cup {NONE}]
        /\ in \in Inodes \cup {NONE} /\ out \in Inodes \cup {NONE} /\ pos \in Nat
        /\ pc \in Busy \cup {"operand", "done"}
    BY DEF TypeInv, TypeOK
  <2>4. NONE \notin Inodes /\ NONE \notin Originals /\ Originals \subseteq Inodes
    BY MvAssumption DEF Originals
  <2>5. pc \in Busy => idx \in DOMAIN cmd.ops
    BY DEF TypeInv, InPlace
  <2>7. out # NONE <=> pc \in Copying \ {"open_out"}
    BY DEF TypeInv, TypeOK
  <2>8. in # NONE <=> pc \in Copying
    BY DEF TypeInv, TypeOK
  <2>6. pc \in Busy => Dst \in Paths /\ Dst \in Targets
    BY <2>5, CmdFacts DEF Targets, Dst
  <2>. QED
    BY <2>1, <2>2, <2>3, <2>4, <2>6, <2>7, <2>8
<1>1. UNCHANGED <<cmd, idx>>
  BY <1>0 DEF Next, Step, StartOperand, AnswerYes, AnswerNo, Rename, RenameFails, RenameCrosses,
      OpenTargetCurdir, CopyFileRefuses, CopyFileStarts, UnlinkTarget, UnlinkFails,
      OpenSource, OpenSourceFails, OpenTarget, OpenTargetFails, CopyBlock, CopyEnds,
      CopyTimes, CopyOwner, CopyMode, CopySetid, CopyModeFails, Exit, Done, vars,
      Other, OtherAppends, OtherRemoves, OtherCreates, Elsewhere
<1>2. /\ idx \in DOMAIN cmd.ops /\ Alone(idx) /\ Original(idx)' = Original(idx)
      /\ SentKind' = SentKind /\ Dst' = Dst /\ Src' = Src
      /\ Original(idx) # NONE => Original(idx) \in Originals
      /\ at[Src] \in {NONE, Original(idx)}
      /\ Src \in Sources /\ Src \notin Targets /\ Dst \notin Sources /\ Dst \in Targets
      /\ Dst \in Paths /\ Src \in Paths
  <2>1. idx' \in DOMAIN cmd'.ops
    BY DEF TypeInv, InPlace
  <2>2. idx \in DOMAIN cmd.ops /\ Alone(idx)
    BY <1>1, <2>1 DEF Alone, Sources, Targets
  <2>. QED
    BY <1>1, <2>2, CmdFacts
    DEF Alone, Original, SentKind, Originals, FilesInv, SourceInv, Src, Dst, Sources, Targets
<1>3. /\ pc \in {"unlink", "open_in"} => Original(idx) # NONE /\ st.kind = SentKind
      /\ pc \in Copying \cup {"open_in"} => st.kind = "file"
      /\ pc \in Copying =>
           /\ in = Original(idx) /\ SentKind = "file" /\ in \in Originals
           /\ st.own = StartFiles[in].own /\ st.setid = StartFiles[in].setid
      /\ pc = "open_out" => pos = 0
      /\ pc \in Copying \ {"open_out"} => at[Dst] = out /\ out \notin Originals
      /\ pc = "copy" =>
           /\ Len(file[out].data) = pos /\ pos <= Len(file[in].data)
           /\ \A k \in 1..pos : file[out].data[k] = file[in].data[k]
      /\ pc \in Copying \ {"open_out", "copy"} /\ rc = 0 =>
           IsPrefix(StartFiles[in].data, file[out].data)
  BY <1>0, <1>2 DEF CopyInv, FilesInv, TargetInv, IsNew
<1>4. \A j \in Originals : FileKept(j)
  BY DEF FilesInv, KeptInv
<1>5. CASE pc' \in {"ask", "rename", "targets", "copy_file"}
  BY <1>5 DEF CopyInv
<1>6. CASE CopyFileStarts
  <2>1. pc' = "unlink" /\ st' = file[at[Src]] /\ at[Src] # NONE
    BY <1>6 DEF CopyFileStarts, Exists
  <2>2. FileKept(at[Src]) /\ at[Src] = Original(idx)
    BY <1>2, <1>4, <2>1
  <2>. QED
    BY <1>2, <2>1, <2>2 DEF CopyInv, FileKept, SentKind
<1>7. CASE UnlinkTarget
  <2>1. pc' = "open_in" /\ UNCHANGED st /\ st.kind = "file" /\ pc = "unlink"
    BY <1>7 DEF UnlinkTarget
  <2>. QED
    BY <1>2, <1>3, <2>1 DEF CopyInv
<1>8. CASE OpenSource
  <2>1. /\ pc' = "open_out" /\ st' = file[at[Src]] /\ in' = at[Src] /\ at[Src] # NONE
        /\ pc = "open_in" /\ pos' = 0
    BY <1>8 DEF OpenSource, Exists
  <2>2. FileKept(at[Src]) /\ at[Src] = Original(idx)
    BY <1>2, <1>4, <2>1
  <2>. QED
    BY <1>2, <1>3, <2>1, <2>2 DEF CopyInv, FileKept, SentKind
<1>9. CASE OpenTarget
  <2>1. /\ pc' = "copy" /\ pc = "open_out" /\ UNCHANGED <<st, in, pos>>
        /\ in \in Inodes /\ in \in Originals
    BY <1>0, <1>3, <1>9 DEF OpenTarget
  <2>2. at'[Dst] = out' /\ file'[out'].data = <<>>
    <3>1. CASE Exists(Dst)
      BY <1>0, <1>2, <1>9, <3>1, TruncatedFacts, ChangeFacts DEF OpenTarget, Exists
    <3>2. CASE ~Exists(Dst)
      <4>1. NewInode \in Inodes /\ Created \in Files /\ Created.data = <<>>
        BY <1>9, <3>2, NewInodeFacts, CreatedType DEF OpenTarget, Created
      <4>. QED
        BY <1>0, <1>2, <1>9, <3>2, <4>1, ChangeFacts, LinkFacts DEF OpenTarget
    <3>. QED
      BY <3>1, <3>2
  <2>3. file'[in].data \in Seq(Blocks)
    BY <2>1 DEF TypeInv, TypeOK, Files
  <2>. QED
    BY <1>2, <1>3, <2>1, <2>2, <2>3 DEF CopyInv
<1>10. CASE CopyBlock
  <2>. DEFINE b == file[in].data[pos + 1]
              f == Extended(file[out], b)
  <2>1. /\ pc = "copy" /\ pc' = "copy" /\ pos < Len(file[in].data) /\ pos' = pos + 1
        /\ in \in Inodes /\ out \in Inodes /\ in # out
        /\ UNCHANGED <<st, in, out, at>> /\ Change(out, f)
    BY <1>0, <1>3, <1>10 DEF CopyBlock
  <2>2. b \in Blocks
    BY <1>0, <2>1
  <2>3. f \in Files /\ f.data = Append(file[out].data, b)
    BY <1>0, <2>1, <2>2, ExtendedFacts
  <2>4. file'[out].data = Append(file[out].data, b) /\ file'[in] = file[in]
    BY <1>0, <2>1, <2>3, ChangeFacts
  <2>5. /\ Len(file'[out].data) = pos + 1
        /\ \A k \in 1..(pos + 1) : file'[out].data[k] = file[in].data[k]
    <3>1. file[out].data \in Seq(Blocks) /\ Len(file[out].data) = pos
          /\ \A k \in 1..pos : file[out].data[k] = file[in].data[k]
      BY <1>0, <1>3, <2>1
    <3>. QED
      BY <1>0, <2>2, <2>4, <3>1
  <2>6. pos + 1 <= Len(file[in].data)
    BY <1>0, <2>1
  <2>. QED
    BY <1>2, <1>3, <2>1, <2>4, <2>5, <2>6 DEF CopyInv
<1>11. CASE CopyEnds
  <2>1. /\ pc = "copy" /\ pc' = "utime" /\ UNCHANGED <<st, in, out, at, file>>
        /\ rc' = 0 => pos = Len(file[in].data)
    BY <1>11 DEF CopyEnds
  <2>2. ASSUME rc' = 0 PROVE IsPrefix(StartFiles[in].data, file[out].data)
    <3>1. /\ in \in Inodes /\ out \in Inodes /\ FileKept(in)
          /\ file[in].data \in Seq(Blocks) /\ file[out].data \in Seq(Blocks)
          /\ StartFiles[in].data \in Seq(Blocks)
      BY <1>0, <1>3, <1>4, <2>1 DEF Files
    <3>2. Len(file[in].data) = Len(file[out].data)
          /\ \A k \in 1..Len(file[out].data) : file[out].data[k] = file[in].data[k]
      BY <1>3, <2>1, <2>2
    <3>3. file[in].data = file[out].data
      BY <3>1, <3>2
    <3>. QED
      BY <3>1, <3>3 DEF FileKept
  <2>. QED
    BY <1>2, <1>3, <2>1, <2>2 DEF CopyInv
<1>12. ASSUME pc \in Copying \ {"open_out", "copy"}, pc' \in Copying \ {"open_out", "copy"},
              UNCHANGED <<st, in, out, at>>, rc' = rc \/ rc' = 1,
              file'[out].data = file[out].data
       PROVE  CopyInv'
  BY <1>2, <1>3, <1>12 DEF CopyInv
<1>13. CASE CopyTimes
  <2>1. out \in Inodes /\ at[Dst] = out
    BY <1>0, <1>3, <1>13 DEF CopyTimes
  <2>2. file'[out].data = file[out].data
    BY <1>0, <1>13, <2>1, TimedFacts, ChangeFacts DEF CopyTimes
  <2>. QED
    BY <1>12, <1>13, <2>2 DEF CopyTimes
<1>14. CASE CopyOwner
  <2>1. file'[out].data = file[out].data
    BY <1>0, <1>14, OwnedFacts, ChangeFacts DEF CopyOwner
  <2>. QED
    BY <1>12, <1>14, <2>1 DEF CopyOwner
<1>15. CASE CopyMode
  <2>1. file'[out].data = file[out].data
    BY <1>0, <1>15, ModedFacts, ChangeFacts DEF CopyMode
  <2>. QED
    BY <1>12, <1>15, <2>1 DEF CopyMode
<1>16. ASSUME NEW p \in Paths, NEW b \in Blocks, OtherAppends(p, b) PROVE CopyInv'
  <2>. DEFINE f == Extended(file[at[p]], b)
  <2>1. /\ at[p] \in Inodes /\ p \notin Targets /\ Change(at[p], f)
        /\ UNCHANGED <<st, in, out, at, pos, rc, pc>>
    BY <1>0, <1>16 DEF OtherAppends, Exists, Elsewhere
  <2>2. f \in Files /\ f.data = Append(file[at[p]].data, b)
    BY <1>0, <2>1, ExtendedFacts
  <2>3. out # NONE => at[p] # out
    BY <1>2, <2>1 DEF FilesInv, TargetInv
  <2>4. out # NONE => file'[out] = file[out]
    BY <1>0, <2>1, <2>2, <2>3, ChangeFacts
  <2>5. pc = "copy" => /\ Len(file[in].data) <= Len(file'[in].data)
                       /\ \A k \in 1..pos : file'[in].data[k] = file[in].data[k]
    <3>1. CASE pc = "copy" /\ in = at[p]
      <4>1. file[in].data \in Seq(Blocks) /\ file'[in].data = Append(file[in].data, b)
            /\ pos \in 0..Len(file[in].data)
        BY <1>0, <1>3, <2>1, <2>2, <3>1, ChangeFacts
      <4>. QED
        BY <1>0, <4>1
    <3>2. CASE pc = "copy" /\ in # at[p]
      <4>1. file'[in] = file[in] /\ Len(file[in].data) \in Nat
        BY <1>0, <2>1, <2>2, <3>2, ChangeFacts
      <4>. QED
        BY <4>1
    <3>. QED
      BY <3>1, <3>2
  <2>6. pc = "copy" => /\ Len(file'[out].data) = pos /\ pos <= Len(file'[in].data)
                       /\ \A k \in 1..pos : file'[out].data[k] = file'[in].data[k]
    <3>1. pc = "copy" => /\ Len(file[in].data) \in Nat /\ Len(file'[in].data) \in Nat
                         /\ out # NONE
      <4>1. pc = "copy" => /\ in \in Inodes /\ in' = in /\ out # NONE
                           /\ file'[in].data \in Seq(Blocks) /\ file[in].data \in Seq(Blocks)
        BY <1>0, <2>1 DEF TypeInv, TypeOK, Files
      <4>. QED
        BY <4>1
    <3>. QED
      BY <1>0, <1>3, <2>1, <2>4, <2>5, <3>1
  <2>. QED
    BY <1>0, <1>2, <1>3, <2>1, <2>4, <2>6 DEF CopyInv
<1>17. ASSUME NEW p \in Paths, OtherRemoves(p) PROVE CopyInv'
  <2>1. /\ p \in Sources /\ Link(p, NONE) /\ UNCHANGED <<file, st, in, out, pos, rc, pc>>
    BY <1>17 DEF OtherRemoves, Elsewhere
  <2>2. at'[Dst] = at[Dst]
    BY <1>0, <1>2, <2>1, LinkFacts
  <2>. QED
    BY <1>0, <1>2, <1>3, <2>1, <2>2 DEF CopyInv
<1>18. ASSUME NEW p \in Paths, OtherCreates(p) PROVE CopyInv'
  <2>. DEFINE f == [Created EXCEPT !.own = "another"]
  <2>1. /\ Link(p, NewInode) /\ Change(NewInode, f) /\ Unused # {} /\ at[p] = NONE
        /\ UNCHANGED <<st, in, out, pos, rc, pc>> /\ f \in Files
    BY <1>18, CreatedType DEF OtherCreates, Elsewhere, Exists
  <2>2. NewInode \in Inodes /\ NewInode # out /\ NewInode # in
    BY <2>1, NewInodeFacts
  <2>. HIDE DEF f
  <2>3. /\ in \in Inodes => file'[in] = file[in]
        /\ out \in Inodes => file'[out] = file[out]
        /\ at[Dst] # NONE => at'[Dst] = at[Dst]
    BY <1>0, <1>2, <2>1, <2>2, ChangeFacts, LinkFacts
  <2>. QED
    BY <1>0, <1>2, <1>3, <2>1, <2>3 DEF CopyInv
<1>19. CASE UNCHANGED vars
  BY <1>2, <1>3, <1>19 DEF CopyInv, vars
<1>20. CASE StartOperand \/ AnswerYes \/ AnswerNo \/ Rename \/ RenameFails \/ RenameCrosses
            \/ OpenTargetCurdir \/ CopyFileRefuses \/ UnlinkFails
  BY <1>5, <1>20 DEF StartOperand, AnswerYes, AnswerNo, Rename, RenameFails, RenameCrosses,
    OpenTargetCurdir, CopyFileRefuses, UnlinkFails
<1>21. ~(OpenSourceFails \/ OpenTargetFails \/ CopySetid \/ CopyModeFails \/ Exit)
  BY DEF OpenSourceFails, OpenTargetFails, CopySetid, CopyModeFails, Exit
<1>. QED
  BY <1>6, <1>7, <1>8, <1>9, <1>10, <1>11, <1>13, <1>14, <1>15, <1>16, <1>17, <1>18, <1>19,
     <1>20, <1>21
  DEF Next, Step, Other, Done

-----------------------------------------------------------------------------
(* What an operand that is alone is at is left alone by the others.        *)
SameFileAt(p) ==
  /\ at'[p] = at[p]
  /\ at[p] # NONE => /\ SameMeta(file[at[p]], file'[at[p]])
                     /\ file'[at[p]].data = file[at[p]].data

(* A step of mv leaves every path but its destination alone, a rename its  *)
(* source too, and does not change the file there.                         *)
LEMMA StepLeavesOthers ==
  ASSUME TypeInv, FilesInv, Step, NEW p \in Paths,
         idx \in DOMAIN cmd.ops => p # Dst /\ (p = Src => ~Rename)
  PROVE  SameFileAt(p)
<1>. USE DEF Goto, Return, Stay, Works, Fault, fs, copying, hist, Copying, Busy
<1>0. /\ file \in [Inodes -> Files] /\ at \in [Paths -> Inodes \cup {NONE}]
      /\ pc \in Busy => /\ Src \in Paths /\ Dst \in Paths /\ p # Dst
                       /\ (p = Src => ~Rename)
      /\ out # NONE <=> pc \in Copying \ {"open_out"}
      /\ in # NONE <=> pc \in Copying
      /\ in \in Inodes \cup {NONE} /\ out \in Inodes \cup {NONE} /\ st \in Files
  BY CmdFacts DEF TypeInv, TypeOK, InPlace
<1>1. /\ st.own \in {"mv", "source", "another"} /\ st.time \in {"old", "new"}
      /\ st.writable \in BOOLEAN
  BY <1>0 DEF Files
<1>2. CASE UNCHANGED fs
  BY <1>2 DEF SameFileAt, SameMeta
<1>3. CASE Rename \/ UnlinkTarget
  <2>1. at'[p] = at[p] /\ UNCHANGED file
    BY <1>0, <1>3, LinkFacts DEF Rename, UnlinkTarget
  <2>. QED
    BY <2>1 DEF SameFileAt, SameMeta
<1>4. ASSUME out # NONE, UNCHANGED at, NEW f \in Files, Change(out, f)
      PROVE  SameFileAt(p)
  <2>1. pc \in Busy /\ at[p] # out
    BY <1>0, <1>4 DEF FilesInv, TargetInv
  <2>2. at[p] # NONE => file'[at[p]] = file[at[p]]
    BY <1>0, <1>4, <2>1, ChangeFacts
  <2>. QED
    BY <1>4, <2>2 DEF SameFileAt, SameMeta
<1>5. CASE CopyBlock
  <2>. DEFINE f == Extended(file[out], file[in].data[pos + 1])
  <2>1. file[in].data[pos + 1] \in Blocks
    BY <1>0, <1>5 DEF CopyBlock, Files, TypeInv, TypeOK
  <2>2. f \in Files
    BY <1>0, <1>5, <2>1, ExtendedFacts DEF CopyBlock
  <2>. QED
    BY <1>0, <1>4, <1>5, <2>2 DEF CopyBlock
<1>6. CASE CopyOwner
  BY <1>0, <1>1, <1>2, <1>4, <1>6, OwnedFacts DEF CopyOwner
<1>7. CASE CopyMode
  BY <1>0, <1>1, <1>4, <1>7, ModedFacts DEF CopyMode
<1>8. CASE CopySetid
  BY <1>0, <1>1, <1>4, <1>8, WithSetidFacts DEF CopySetid
<1>9. CASE CopyTimes
  <2>1. CASE Exists(Dst) /\ Change(at[Dst], Timed(file[at[Dst]], st.time))
    <3>1. at[Dst] \in Inodes /\ UNCHANGED at
      BY <1>0, <1>9, <2>1 DEF Exists, CopyTimes
    <3>2. /\ Timed(file[at[Dst]], st.time) \in Files
          /\ Timed(file[at[Dst]], st.time).data = file[at[Dst]].data
          /\ SameMeta(file[at[Dst]], Timed(file[at[Dst]], st.time))
      BY <1>0, <1>1, <3>1, TimedFacts
    <3>3. /\ file'[at[Dst]] = Timed(file[at[Dst]], st.time)
          /\ \A j \in Inodes \ {at[Dst]} : file'[j] = file[j]
      BY <1>0, <2>1, <3>1, <3>2, ChangeFacts
    <3>. QED
      BY <1>0, <3>1, <3>2, <3>3 DEF SameFileAt, SameMeta
  <2>. QED
    BY <1>2, <1>9, <2>1 DEF CopyTimes
<1>10. CASE OpenTarget
  <2>1. pc = "open_out" /\ at[Dst] \notin Originals
    BY <1>10 DEF OpenTarget, FilesInv, TargetInv
  <2>2. CASE Exists(Dst)
    <3>1. /\ at[Dst] \in Inodes /\ IsNew(at[Dst]) /\ Truncated(file[at[Dst]]) \in Files
          /\ UNCHANGED at /\ Change(at[Dst], Truncated(file[at[Dst]]))
      BY <1>0, <1>10, <2>1, <2>2, TruncatedFacts DEF OpenTarget, Exists, IsNew
    <3>2. at[p] # at[Dst]
      BY <1>0, <2>1, <3>1 DEF FilesInv, NewInv
    <3>3. at[p] # NONE => file'[at[p]] = file[at[p]]
      BY <1>0, <3>1, <3>2, ChangeFacts
    <3>. QED
      BY <3>1, <3>3 DEF SameFileAt, SameMeta
  <2>3. CASE ~Exists(Dst)
    <3>1. /\ Link(Dst, NewInode) /\ Change(NewInode, Created) /\ NewInode \in Inodes
          /\ NewInode # at[p] /\ Created \in Files
      BY <1>10, <2>3, NewInodeFacts, CreatedType DEF OpenTarget
    <3>2. at'[p] = at[p] /\ (at[p] # NONE => file'[at[p]] = file[at[p]])
      BY <1>0, <2>1, <3>1, ChangeFacts, LinkFacts
    <3>. QED
      BY <3>2 DEF SameFileAt, SameMeta
  <2>. QED
    BY <2>2, <2>3
<1>. QED
  BY <1>2, <1>3, <1>5, <1>6, <1>7, <1>8, <1>9, <1>10
  DEF Step, StartOperand, AnswerYes, AnswerNo, RenameFails, RenameCrosses, OpenTargetCurdir,
      CopyFileRefuses, CopyFileStarts, UnlinkFails, OpenSource, OpenSourceFails,
      OpenTargetFails, CopyEnds, CopyModeFails, Exit

(* Other processes only add to a file that is at a destination.            *)
LEMMA OtherLeavesTargets ==
  ASSUME TypeInv, Other, NEW p \in Paths \ Sources, Exists(p)
  PROVE  /\ at'[p] = at[p] /\ SameMeta(file[at[p]], file'[at[p]])
         /\ IsPrefix(file[at[p]].data, file'[at[p]].data)
<1>0. /\ file \in [Inodes -> Files] /\ at \in [Paths -> Inodes \cup {NONE}]
      /\ at[p] \in Inodes /\ file[at[p]] \in Files
  BY DEF TypeInv, TypeOK, Exists
<1>1. file[at[p]].data \in Seq(Blocks) /\ IsPrefix(file[at[p]].data, file[at[p]].data)
  <2>1. file[at[p]].data \in Seq(Blocks)
    BY <1>0 DEF Files
  <2>. QED
    BY <2>1, PrefixFacts
<1>2. ASSUME NEW q \in Paths, NEW b \in Blocks, OtherAppends(q, b)
      PROVE  /\ at'[p] = at[p] /\ SameMeta(file[at[p]], file'[at[p]])
             /\ IsPrefix(file[at[p]].data, file'[at[p]].data)
  <2>1. at[q] \in Inodes /\ Change(at[q], Extended(file[at[q]], b)) /\ UNCHANGED at
    BY <1>0, <1>2 DEF OtherAppends, Exists
  <2>2. /\ Extended(file[at[q]], b) \in Files
        /\ Extended(file[at[q]], b).data = Append(file[at[q]].data, b)
        /\ SameMeta(file[at[q]], Extended(file[at[q]], b))
    BY <1>0, <2>1, ExtendedFacts
  <2>3. /\ file'[at[q]] = Extended(file[at[q]], b)
        /\ \A j \in Inodes \ {at[q]} : file'[j] = file[j]
    BY <1>0, <2>1, <2>2, ChangeFacts
  <2>4. CASE at[p] = at[q]
    <3>1. IsPrefix(file[at[p]].data, Append(file[at[p]].data, b))
      BY <1>1, PrefixFacts
    <3>2. file'[at[p]].data = Append(file[at[p]].data, b) /\ SameMeta(file[at[p]], file'[at[p]])
      BY <2>2, <2>3, <2>4
    <3>. QED
      BY <2>1, <3>1, <3>2
  <2>5. CASE at[p] # at[q]
    BY <1>0, <1>1, <2>1, <2>3, <2>5 DEF SameMeta
  <2>. QED
    BY <2>4, <2>5
<1>3. ASSUME NEW q \in Paths, OtherRemoves(q)
      PROVE  at'[p] = at[p] /\ UNCHANGED file
  BY <1>0, <1>3, LinkFacts, MvAssumption DEF OtherRemoves
<1>4. ASSUME NEW q \in Paths, OtherCreates(q)
      PROVE  at'[p] = at[p] /\ file'[at[p]] = file[at[p]]
  <2>. DEFINE f == [Created EXCEPT !.own = "another"]
  <2>1. /\ Link(q, NewInode) /\ Change(NewInode, f) /\ NewInode \in Inodes
        /\ NewInode # at[p] /\ f \in Files /\ p # q
    BY <1>4, NewInodeFacts, CreatedType DEF OtherCreates, Exists
  <2>. HIDE DEF f
  <2>. QED
    BY <1>0, <2>1, ChangeFacts, LinkFacts
<1>. QED
  BY <1>1, <1>2, <1>3, <1>4 DEF Other, SameMeta

-----------------------------------------------------------------------------
(* Status 0.  An operand is counted as dealt with, and the status stays 0, *)
(* only with the rename or the last call of a copy that works.             *)
LEMMA ArrivedStays ==
  ASSUME TypeInv, FilesInv, [Next]_vars, NEW i \in DOMAIN cmd.ops, i < idx,
         Alone(i), Arrived(i)
  PROVE  Arrived(i)'
<1>0. /\ i' = i /\ UNCHANGED cmd
      /\ cmd.ops[i].to \in Paths /\ cmd.ops[i].to \notin Sources /\ Exists(cmd.ops[i].to)
      /\ idx \in DOMAIN cmd.ops => cmd.ops[i].to # Dst /\ cmd.ops[i].to # Src
      /\ at \in [Paths -> Inodes \cup {NONE}]
  <2>1. UNCHANGED cmd
    BY DEF Next, Step, StartOperand, AnswerYes, AnswerNo, Rename, RenameFails, RenameCrosses,
        OpenTargetCurdir, CopyFileRefuses, CopyFileStarts, UnlinkTarget, UnlinkFails,
        OpenSource, OpenSourceFails, OpenTarget, OpenTargetFails, CopyBlock, CopyEnds,
        CopyTimes, CopyOwner, CopyMode, CopySetid, CopyModeFails, Exit, Done, vars,
        Other, OtherAppends, OtherRemoves, OtherCreates, Elsewhere
  <2>2. idx \in DOMAIN cmd.ops => idx # i /\ Src \in Sources
    BY CmdFacts DEF Sources, Src
  <2>. QED
    BY <2>1, <2>2, CmdFacts DEF TypeInv, TypeOK, Alone, Arrived, Src, Dst
<1>. DEFINE p == cmd.ops[i].to
<1>1. /\ at'[p] = at[p] /\ SameMeta(file[at[p]], file'[at[p]])
      /\ file'[at[p]].data = file[at[p]].data \/ IsPrefix(file[at[p]].data, file'[at[p]].data)
  <2>1. CASE Step
    BY <1>0, <2>1, StepLeavesOthers DEF SameFileAt, Exists
  <2>2. CASE Other
    BY <1>0, <2>2, OtherLeavesTargets
  <2>3. CASE UNCHANGED vars
    BY <2>3 DEF vars, fs, SameMeta
  <2>. QED
    BY <2>1, <2>2, <2>3 DEF Next, Done
<1>2. /\ at[p] \in Inodes /\ StartFiles[Original(i)].data \in Seq(Blocks)
      /\ file[at[p]].data \in Seq(Blocks) /\ file'[at[p]].data \in Seq(Blocks)
      /\ Original(i) \in Inodes
  <2>1. at[p] \in Inodes /\ Original(i) \in Inodes
    BY <1>0, CmdFacts, MvAssumption DEF Exists, Arrived, Original
  <2>2. StartFiles[Original(i)] \in Files /\ file[at[p]] \in Files
    BY <2>1, MvAssumption DEF TypeInv, TypeOK
  <2>3. file'[at[p]] \in Files
    BY <2>1, NextType DEF TypeInv, TypeOK
  <2>. QED
    BY <2>1, <2>2, <2>3 DEF Files
<1>3. IsPrefix(StartFiles[Original(i)].data, file'[at[p]].data)
  <2>1. IsPrefix(StartFiles[Original(i)].data, file[at[p]].data)
    BY <1>0 DEF Arrived
  <2>2. PICK r, s, t : /\ r = StartFiles[Original(i)].data /\ s = file[at[p]].data
                       /\ t = file'[at[p]].data
    OBVIOUS
  <2>3. /\ r \in Seq(Blocks) /\ s \in Seq(Blocks) /\ t \in Seq(Blocks)
        /\ IsPrefix(r, s) /\ (t = s \/ IsPrefix(s, t))
    BY <1>1, <1>2, <2>1, <2>2, Zenon
  <2>4. IsPrefix(r, t)
    BY <2>3, PrefixChain
  <2>. QED
    BY <2>2, <2>4
<1>. QED
  BY <1>0, <1>1, <1>3 DEF Arrived, SameMeta, Exists, Original

LEMMA NextArrived ==
  TypeInv /\ TypeInv' /\ SetidInv /\ FilesInv /\ FilesInv' /\ CopyInv /\ ArrivedInv
    /\ [Next]_vars => ArrivedInv'
<1>. SUFFICES ASSUME TypeInv, TypeInv', SetidInv, FilesInv, FilesInv', CopyInv, ArrivedInv,
                     [Next]_vars, err' = 0,
                     NEW i \in DOMAIN cmd'.ops, i < idx', Alone(i)'
              PROVE  Arrived(i)'
  BY DEF ArrivedInv
<1>. USE DEF Goto, Return, Stay, Works, Fault, fs, copying, hist
<1>0. UNCHANGED cmd /\ i' = i
  BY DEF Next, Step, StartOperand, AnswerYes, AnswerNo, Rename, RenameFails, RenameCrosses,
      OpenTargetCurdir, CopyFileRefuses, CopyFileStarts, UnlinkTarget, UnlinkFails,
      OpenSource, OpenSourceFails, OpenTarget, OpenTargetFails, CopyBlock, CopyEnds,
      CopyTimes, CopyOwner, CopyMode, CopySetid, CopyModeFails, Exit, Done, vars,
      Other, OtherAppends, OtherRemoves, OtherCreates, Elsewhere
<1>1. i \in DOMAIN cmd.ops /\ Alone(i) /\ i \in Nat /\ idx \in Nat /\ err \in -1..1
  BY <1>0, CmdFacts DEF Alone, Sources, Targets, TypeInv, TypeOK
<1>2. CASE UNCHANGED <<idx, err>>
  BY <1>1, <1>2, ArrivedStays DEF ArrivedInv
<1>3. ASSUME NEW s \in -1..1, Return(s) PROVE err = 0 /\ s = 0 /\ (i < idx \/ i = idx)
  BY <1>1, <1>3, BitOrFacts
<1>4. CASE i < idx /\ err = 0
  BY <1>1, <1>4, ArrivedStays DEF ArrivedInv
<1>5. CASE AnswerNo \/ RenameFails \/ CopyFileRefuses \/ UnlinkFails \/ OpenSourceFails
           \/ OpenTargetFails \/ CopyModeFails
  BY <1>3, <1>5 DEF AnswerNo, RenameFails, CopyFileRefuses, UnlinkFails, OpenSourceFails,
    OpenTargetFails, CopyModeFails
<1>6. CASE Rename
  <2>1. (i < idx /\ err = 0) \/ i = idx
    BY <1>3, <1>6 DEF Rename
  <2>2. CASE i = idx
    <3>1. /\ at[Src] = Original(i) /\ Original(i) # NONE /\ at[Src] \in Originals
          /\ FileKept(at[Src]) /\ Src \in Paths /\ Dst \in Paths
      <4>1. at[Src] \in {NONE, Original(i)} /\ Exists(Src)
        BY <1>1, <1>6, <2>2 DEF Rename, FilesInv, SourceInv, Src
      <4>2. Src \in Paths /\ Dst \in Paths
        BY <1>1, <2>2, CmdFacts
      <4>. QED
        BY <2>2, <4>1, <4>2 DEF Exists, Original, Originals, Src, FilesInv, KeptInv
    <3>2. at'[Dst] = at[Src] /\ UNCHANGED file
      BY <1>6, <3>1 DEF Rename, SameFile, TypeInv, TypeOK
    <3>. QED
      BY <1>0, <2>2, <3>1, <3>2 DEF Arrived, FileKept, Original, Dst, Exists
  <2>. QED
    BY <1>4, <2>1, <2>2
<1>7. CASE UnlinkTarget
  BY <1>2, <1>3, <1>7 DEF UnlinkTarget
<1>8. CASE OpenTargetCurdir
  BY <1>2, <1>8 DEF OpenTargetCurdir
(* the last call of a copy *)
<1>9. ASSUME pc \in {"fchmod", "fchmod_setid"}, Return(BitOr(rc, attr_rc)), i = idx,
             NEW f \in Files, Change(out, f), UNCHANGED at, f.data = file[out].data,
             f.kind = file[out].kind, f.own = file[out].own, attr_rc = 0 => f.setid = st.setid
      PROVE  Arrived(i)'
  <2>1. rc = 0 /\ attr_rc = 0 /\ rc \in 0..1 /\ attr_rc \in 0..1
    BY <1>3, <1>9, BitOrFacts DEF TypeInv, TypeOK
  <2>2. /\ in = Original(i) /\ SentKind = "file" /\ at[Dst] = out
        /\ st.own = StartFiles[in].own /\ st.setid = StartFiles[in].setid
        /\ IsPrefix(StartFiles[in].data, file[out].data)
    BY <1>1, <1>9, <2>1 DEF CopyInv, Busy, Copying
  <2>3. /\ in # NONE /\ out \in Inodes /\ file[out].kind = "file" /\ out # NONE
        /\ file[out].own = st.own
    BY <1>9, <2>1, MvAssumption DEF TypeInv, TypeOK, Copying, FilesInv, TargetInv, SetidInv
  <2>4. file'[out] = f
    BY <1>9, <2>3, ChangeFacts DEF TypeInv, TypeOK
  <2>. QED
    BY <1>0, <1>9, <2>1, <2>2, <2>3, <2>4 DEF Arrived, Exists, Original, Dst, SentKind
<1>10. out \in Inodes => file[out] \in Files
  BY DEF TypeInv, TypeOK
<1>11. CASE CopyMode
  <2>1. /\ pc = "fchmod" /\ UNCHANGED at /\ out \in Inodes /\ st.writable \in BOOLEAN
        /\ Change(out, Moded(file[out], st.writable)) /\ st.setid \in BOOLEAN
    BY <1>11 DEF CopyMode, TypeInv, TypeOK, Copying, Files
  <2>2. \/ UNCHANGED <<idx, err>>
        \/ Return(BitOr(rc, attr_rc)) /\ ~(attr_rc = 0 /\ st.setid)
    BY <1>11 DEF CopyMode
  <2>3. CASE Return(BitOr(rc, attr_rc)) /\ ~(attr_rc = 0 /\ st.setid)
    <3>1. BitOr(rc, attr_rc) \in -1..1
      BY BitOrFacts DEF TypeInv, TypeOK
    <3>2. (i < idx /\ err = 0) \/ i = idx
      BY <1>3, <2>3, <3>1
    <3>3. CASE i = idx
      <4>. DEFINE f == Moded(file[out], st.writable)
      <4>1. /\ f \in Files /\ f.data = file[out].data /\ f.kind = file[out].kind
            /\ f.own = file[out].own
        BY <1>10, <2>1, ModedFacts
      <4>2. attr_rc = 0 => f.setid = st.setid
        <5>1. f.setid = FALSE
          BY <1>10, <2>1 DEF Files, Moded
        <5>. QED
          BY <2>1, <2>3, <5>1
      <4>. HIDE DEF f
      <4>3. Change(out, f)
        BY <2>1 DEF f
      <4>. QED
        BY <1>9, <2>1, <2>3, <3>3, <4>1, <4>2, <4>3
    <3>. QED
      BY <1>4, <3>2, <3>3
  <2>. QED
    BY <1>2, <2>2, <2>3
<1>12. CASE CopySetid
  <2>1. /\ pc = "fchmod_setid" /\ UNCHANGED at /\ out \in Inodes /\ st.setid \in BOOLEAN
        /\ Change(out, WithSetid(file[out])) /\ st.setid /\ Return(BitOr(rc, attr_rc))
    BY <1>12 DEF CopySetid, TypeInv, TypeOK, Copying, Files, SetidInv
  <2>2. BitOr(rc, attr_rc) \in -1..1
    BY BitOrFacts DEF TypeInv, TypeOK
  <2>3. (i < idx /\ err = 0) \/ i = idx
    BY <1>3, <2>1, <2>2
  <2>4. CASE i = idx
    BY <1>9, <1>10, <2>1, <2>4, WithSetidFacts
  <2>. QED
    BY <1>4, <2>3, <2>4
<1>13. UNCHANGED <<idx, err>> \/ AnswerNo \/ Rename \/ RenameFails \/ OpenTargetCurdir
       \/ CopyFileRefuses \/ UnlinkTarget \/ UnlinkFails \/ OpenSourceFails
       \/ OpenTargetFails \/ CopyMode \/ CopySetid \/ CopyModeFails
  BY DEF Next, Step, StartOperand, AnswerYes, RenameCrosses, CopyFileStarts, OpenSource,
    OpenTarget, CopyBlock, CopyEnds, CopyTimes, CopyOwner, Exit, Done, vars,
    Other, OtherAppends, OtherRemoves, OtherCreates, Elsewhere
<1>. QED
  BY <1>2, <1>5, <1>6, <1>7, <1>8, <1>11, <1>12, <1>13

(* The inductive invariant.                                                *)
IInv == TypeInv /\ SetidInv /\ FilesInv /\ CopyInv /\ ArrivedInv

LEMMA Invariant == Spec => []IInv
<1>1. Init => IInv
  <2>. SUFFICES ASSUME Init PROVE IInv
    OBVIOUS
  <2>1. TypeInv /\ SetidInv
    BY InitType, InitSetid
  <2>2. KeptInv
    <3>. SUFFICES ASSUME NEW j \in Originals PROVE FileKept(j)
      BY DEF KeptInv
    <3>1. file[j] = StartFiles[j] /\ file[j] \in Files
      BY MvAssumption DEF Init, Originals
    <3>2. file[j].data \in Seq(Blocks)
      BY <3>1 DEF Files
    <3>. QED
      BY <3>1, <3>2, PrefixFacts DEF FileKept
  <2>3. NewInv /\ SourceInv
    <3>1. /\ \A p \in Paths : at[p] \in Originals \cup {NONE}
          /\ \A i \in DOMAIN cmd.ops : at[cmd.ops[i].from] = Original(i)
      BY <2>1, CmdFacts DEF Init, Originals, Original
    <3>. QED
      BY <3>1, MvAssumption DEF NewInv, IsNew, SourceInv
  <2>4. TargetInv /\ CopyInv
    BY DEF Init, TargetInv, CopyInv, Busy, Copying
  <2>5. ArrivedInv
    BY <2>1, CmdFacts DEF Init, ArrivedInv
  <2>. QED
    BY <2>1, <2>2, <2>3, <2>4, <2>5 DEF IInv, FilesInv
<1>2. IInv /\ [Next]_vars => IInv'
  BY NextType, NextSetid, NextFiles, NextCopy, NextArrived DEF IInv
<1>. QED
  BY <1>1, <1>2, PTL DEF Spec

(* With status 0 every operand that shares its paths with no other has     *)
(* arrived: its data, owner and mode are at its destination.               *)
THEOREM StatusZeroArrives == Spec => []StatusZeroMeansArrived
<1>1. IInv => StatusZeroMeansArrived
  <2>. SUFFICES ASSUME IInv, pc = "done", err = 0, NEW i \in DOMAIN cmd.ops, Alone(i)
                PROVE  Arrived(i)
    BY DEF StatusZeroMeansArrived, Arrived
  <2>1. i < idx
    BY CmdFacts DEF IInv, TypeInv, TypeOK, InPlace
  <2>. QED
    BY <2>1 DEF IInv, ArrivedInv
<1>. QED
  BY Invariant, <1>1, PTL

-----------------------------------------------------------------------------
(* Replacement: each step of mv is one of its steps.                       *)
PlaceOf(i) ==
  {w \in {"source", "target"} :
     \/ ~Alone(i)
     \/ w = "source" /\ Whole(i, cmd.ops[i].from)
     \/ w = "target" /\ Whole(i, cmd.ops[i].to) /\ Dealt(i)}

LEMMA PlaceFacts ==
  TypeInv =>
    /\ place = [i \in 1..Len(cmd.ops) |-> PlaceOf(i)]
    /\ place \in Seq(SUBSET replacement!Places) /\ Len(place) = Len(cmd.ops)
    /\ \A i \in 1..Len(cmd.ops) :
         /\ place[i] = PlaceOf(i) /\ PlaceOf(i) \subseteq {"source", "target"}
<1>. SUFFICES ASSUME TypeInv
     PROVE /\ place = [i \in 1..Len(cmd.ops) |-> PlaceOf(i)]
           /\ place \in Seq(SUBSET replacement!Places) /\ Len(place) = Len(cmd.ops)
           /\ \A i \in 1..Len(cmd.ops) :
                /\ place[i] = PlaceOf(i) /\ PlaceOf(i) \subseteq {"source", "target"}
  OBVIOUS
<1>1. Len(cmd.ops) \in Nat /\ DOMAIN cmd.ops = 1..Len(cmd.ops)
  BY CmdFacts
<1>2. place = [i \in 1..Len(cmd.ops) |-> PlaceOf(i)]
  BY <1>1 DEF place, PlaceOf
<1>3. \A i \in 1..Len(cmd.ops) : PlaceOf(i) \subseteq {"source", "target"}
  BY DEF PlaceOf
<1>4. \A i \in 1..Len(cmd.ops) : PlaceOf(i) \in SUBSET replacement!Places
  BY <1>3 DEF replacement!Places, replacement!Kept
<1>. HIDE DEF place, PlaceOf
<1>5. place \in Seq(SUBSET replacement!Places) /\ Len(place) = Len(cmd.ops)
  BY <1>1, <1>2, <1>4
<1>. QED
  BY <1>2, <1>3, <1>5

PlaceType == place \in Seq(SUBSET replacement!Places) /\ Len(place) = Len(cmd.ops)
LEMMA PlaceTyped == TypeInv => PlaceType
BY PlaceFacts DEF PlaceType

(* mv takes the operands in order and one step at a time.                  *)
LEMMA StepCounts ==
  ASSUME TypeInv, TypeInv', Step
  PROVE  /\ UNCHANGED <<cmd, others>>
         /\ idx' = idx \/ (pc \in Busy /\ idx' = idx + 1 /\ out' = NONE)
<1>. USE DEF Goto, Return, Stay, Busy, Copying
<1>1. UNCHANGED <<cmd, others>>
  BY DEF Step, StartOperand, AnswerYes, AnswerNo, Rename, RenameFails, RenameCrosses,
      OpenTargetCurdir, CopyFileRefuses, CopyFileStarts, UnlinkTarget, UnlinkFails,
      OpenSource, OpenSourceFails, OpenTarget, OpenTargetFails, CopyBlock, CopyEnds,
      CopyTimes, CopyOwner, CopyMode, CopySetid, CopyModeFails, Exit
<1>2. idx' = idx \/ (pc \in Busy /\ idx' = idx + 1 /\ pc' = "operand")
  BY DEF Step, StartOperand, AnswerYes, AnswerNo, Rename, RenameFails, RenameCrosses,
      OpenTargetCurdir, CopyFileRefuses, CopyFileStarts, UnlinkTarget, UnlinkFails,
      OpenSource, OpenSourceFails, OpenTarget, OpenTargetFails, CopyBlock, CopyEnds,
      CopyTimes, CopyOwner, CopyMode, CopySetid, CopyModeFails, Exit
<1>. QED
  BY <1>1, <1>2 DEF TypeInv, TypeOK

(* Operands other than the one mv is at are where they were.               *)
LEMMA OthersInPlace ==
  ASSUME TypeInv, TypeInv', FilesInv, Step, NEW i \in 1..Len(cmd.ops), i # idx
  PROVE  PlaceOf(i)' = PlaceOf(i)
<1>0. /\ i \in DOMAIN cmd.ops /\ i \in Nat /\ idx \in Nat /\ UNCHANGED cmd /\ i' = i
      /\ cmd.ops[i].from \in Paths /\ cmd.ops[i].to \in Paths
  <2>1. DOMAIN cmd.ops = 1..Len(cmd.ops) /\ Len(cmd.ops) \in Nat
    BY CmdFacts
  <2>2. cmd.ops[i].from \in Paths /\ cmd.ops[i].to \in Paths
    BY <2>1, CmdFacts
  <2>3. idx \in Nat
    BY <2>1 DEF TypeInv, TypeOK
  <2>. QED
    BY <2>1, <2>2, <2>3, StepCounts
<1>1. Alone(i)' = Alone(i) /\ Original(i)' = Original(i)
  BY <1>0 DEF Alone, Sources, Targets, Original
<1>2. Dealt(i)' = Dealt(i)
  BY <1>0, StepCounts DEF Dealt
<1>3. ASSUME Alone(i), NEW p \in {cmd.ops[i].from, cmd.ops[i].to}
      PROVE  Whole(i, p)' = Whole(i, p)
  <2>1. idx \in DOMAIN cmd.ops => p # Src /\ p # Dst
    BY <1>0, <1>3 DEF Alone, Src, Dst, Sources, Targets
  <2>2. SameFileAt(p)
    BY <1>0, <2>1, StepLeavesOthers
  <2>. QED
    BY <1>0, <1>1, <2>2 DEF Whole, SameFileAt, SameMeta, Exists
<1>. QED
  BY <1>0, <1>1, <1>2, <1>3 DEF PlaceOf

(* The operand mv is at keeps its source, unless it is renamed, and what   *)
(* has arrived of it.                                                      *)
LEMMA OperandKept ==
  ASSUME IInv, IInv', Step, ~Rename, NEW i \in 1..Len(cmd.ops), i = idx,
         NEW s \in Paths, s = cmd.ops[i].from, NEW d \in Paths, d = cmd.ops[i].to
  PROVE  PlaceOf(i) \subseteq PlaceOf(i)'
<1>. USE DEF Goto, Return, Stay, Works, Fault, fs, copying, hist, Copying, Busy
<1>0. /\ TypeInv /\ TypeInv' /\ FilesInv /\ CopyInv
      /\ i \in DOMAIN cmd.ops /\ i \in Nat /\ idx \in Nat /\ UNCHANGED cmd /\ i' = i
      /\ s = Src /\ d = Dst
      /\ Src \in Sources /\ Dst \in Targets
      /\ file \in [Inodes -> Files] /\ at \in [Paths -> Inodes \cup {NONE}]
      /\ StartFiles \in [Inodes -> Files] /\ StartAt \in [Paths -> Inodes \cup {NONE}]
      /\ in \in Inodes \cup {NONE} /\ out \in Inodes \cup {NONE} /\ st \in Files
      /\ pos \in Nat /\ (out # NONE <=> pc \in Copying \ {"open_out"})
      /\ (in # NONE <=> pc \in Copying) /\ NONE \notin Inodes
  BY CmdFacts, StepCounts, MvAssumption
  DEF IInv, TypeInv, TypeOK, Src, Dst, Sources, Targets
<1>1. Alone(i)' = Alone(i) /\ Original(i)' = Original(i)
  BY <1>0 DEF Alone, Sources, Targets, Original
<1>2. CASE ~Alone(i)
  BY <1>1, <1>2 DEF PlaceOf
<1>3. ASSUME Alone(i), Whole(i, s) PROVE Whole(i, s)'
  <2>1. s # d
    BY <1>0, <1>3 DEF Alone
  <2>2. SameFileAt(s)
    BY <1>0, <2>1, StepLeavesOthers
  <2>. QED
    BY <1>0, <1>1, <1>3, <2>2 DEF Whole, SameFileAt, SameMeta, Exists
<1>4. ASSUME Alone(i), Whole(i, d), Dealt(i) PROVE Whole(i, d)' /\ Dealt(i)'
  <2>1. /\ out # NONE /\ out \in Inodes /\ pc \in Copying \ {"open_out"} /\ at[d] = out
        /\ i \in Nat /\ file[out] \in Files /\ in \in Inodes
    BY <1>0, <1>4 DEF Dealt, CopyInv
  <2>2. st.own \in {"mv", "source", "another"} /\ st.time \in {"old", "new"}
        /\ st.writable \in BOOLEAN /\ file[out].data \in Seq(Blocks)
        /\ file[in].data \in Seq(Blocks)
    BY <1>0, <2>1 DEF Files
  <2>3. Original(i) \in Inodes /\ StartFiles[Original(i)].data \in Seq(Blocks)
    <3>1. Original(i) \in Inodes
      BY <1>0, <1>4 DEF Whole, Original
    <3>. QED
      BY <1>0, <3>1 DEF Files
  <2>4. ASSUME UNCHANGED at, idx' = idx + 1 \/ (idx' = idx /\ UNCHANGED out),
               file'[out].kind = file[out].kind,
               \/ file'[out].data = file[out].data
               \/ \E b \in Blocks : file'[out].data = Append(file[out].data, b)
        PROVE  Whole(i, d)' /\ Dealt(i)'
    <3>1. IsPrefix(StartFiles[Original(i)].data, file[out].data)
      BY <1>4, <2>1 DEF Whole
    <3>2. IsPrefix(StartFiles[Original(i)].data, file'[out].data)
      <4>1. CASE file'[out].data = file[out].data
        BY <3>1, <4>1
      <4>2. ASSUME NEW b \in Blocks, file'[out].data = Append(file[out].data, b)
            PROVE  IsPrefix(StartFiles[Original(i)].data, file'[out].data)
        <5>1. IsPrefix(StartFiles[Original(i)].data, Append(file[out].data, b))
          BY <2>2, <2>3, <3>1, PrefixFacts
        <5>. QED
          BY <4>2, <5>1
      <4>. QED
        BY <2>4, <4>1, <4>2
    <3>. QED
      BY <1>0, <1>1, <1>4, <2>1, <2>4, <3>2 DEF Whole, Dealt, Exists
  <2>5. CASE CopyBlock
    <3>. DEFINE b == file[in].data[pos + 1]
    <3>1. b \in Blocks
      BY <1>0, <2>2, <2>5 DEF CopyBlock
    <3>. HIDE DEF b
    <3>2. Change(out, Extended(file[out], b)) /\ UNCHANGED <<at, idx, out>>
      BY <2>5 DEF CopyBlock, b
    <3>3. file'[out].kind = file[out].kind /\ file'[out].data = Append(file[out].data, b)
      BY <1>0, <2>1, <3>1, <3>2, ExtendedFacts, ChangeFacts DEF SameMeta
    <3>. QED
      BY <2>4, <3>1, <3>2, <3>3
  <2>6. CASE CopyTimes
    BY <1>0, <2>1, <2>2, <2>4, <2>6, TimedFacts, ChangeFacts DEF CopyTimes, SameMeta
  <2>7. CASE CopyOwner
    BY <1>0, <2>1, <2>2, <2>4, <2>7, OwnedFacts, ChangeFacts DEF CopyOwner
  <2>8. CASE CopyMode
    BY <1>0, <2>1, <2>2, <2>4, <2>8, ModedFacts, ChangeFacts DEF CopyMode
  <2>9. CASE CopySetid
    BY <1>0, <2>1, <2>2, <2>4, <2>9, WithSetidFacts, ChangeFacts DEF CopySetid
  <2>10. CASE CopyEnds \/ CopyModeFails
    BY <2>4, <2>10 DEF CopyEnds, CopyModeFails
  <2>. QED
    BY <2>1, <2>5, <2>6, <2>7, <2>8, <2>9, <2>10
    DEF Step, StartOperand, AnswerYes, AnswerNo, RenameFails, RenameCrosses, OpenTargetCurdir,
        CopyFileRefuses, CopyFileStarts, UnlinkTarget, UnlinkFails, OpenSource,
        OpenSourceFails, OpenTarget, OpenTargetFails, Exit
<1>. QED
  BY <1>0, <1>1, <1>2, <1>3, <1>4 DEF PlaceOf

(* After a rename the operand is at its destination.                       *)
LEMMA RenameArrives ==
  ASSUME IInv, Rename, NEW i \in 1..Len(cmd.ops), i = idx,
         NEW d \in Paths, d = cmd.ops[i].to
  PROVE  "target" \in PlaceOf(i)'
<1>0. /\ TypeInv /\ FilesInv
      /\ i \in DOMAIN cmd.ops /\ i \in Nat /\ UNCHANGED <<cmd, file>> /\ i' = i
      /\ cmd.ops[i].from = Src /\ d = Dst /\ Src \in Paths
      /\ at \in [Paths -> Inodes \cup {NONE}] /\ idx' = idx + 1
  BY CmdFacts DEF IInv, TypeInv, TypeOK, Src, Dst, Rename, Return
<1>1. Alone(i)' = Alone(i) /\ Original(i)' = Original(i) /\ Dealt(i)'
  BY <1>0 DEF Alone, Sources, Targets, Original, Dealt
<1>2. ASSUME Alone(i) PROVE Whole(i, d)'
  <2>1. at[Src] = Original(i) /\ at[Src] # NONE
    BY <1>0, <1>2 DEF FilesInv, SourceInv, Rename, Exists
  <2>2. at'[d] = at[Src]
    BY <1>0 DEF Rename, SameFile
  <2>3. FileKept(Original(i))
    BY <1>0, <2>1 DEF FilesInv, KeptInv, Originals, Original
  <2>. QED
    BY <1>0, <1>1, <2>1, <2>2, <2>3 DEF Whole, FileKept, Exists
<1>. QED
  BY <1>0, <1>1, <1>2 DEF PlaceOf

LEMMA StepReplaces == IInv /\ IInv' /\ Step => replacement!Next \/ UNCHANGED replacement!vars
<1>. SUFFICES ASSUME IInv, IInv', Step PROVE replacement!Next \/ UNCHANGED replacement!vars
  OBVIOUS
<1>0. /\ TypeInv /\ TypeInv' /\ FilesInv /\ ArrivedInv' /\ UNCHANGED <<cmd, others>>
      /\ Len(cmd.ops) \in Nat /\ DOMAIN cmd.ops = 1..Len(cmd.ops) /\ idx \in Nat \ {0}
      /\ err \in -1..1 /\ err' \in -1..1
  BY StepCounts, CmdFacts DEF IInv, TypeInv, TypeOK
<1>1. /\ place = [i \in 1..Len(cmd.ops) |-> PlaceOf(i)]
      /\ place' = [i \in 1..Len(cmd.ops) |-> PlaceOf(i)']
      /\ Len(place) = Len(cmd.ops)
      /\ \A i \in 1..Len(cmd.ops) : place[i] = PlaceOf(i) /\ place'[i] = PlaceOf(i)'
  <2>1. place' = [i \in 1..Len(cmd.ops) |-> PlaceOf(i)']
    BY <1>0 DEF place, PlaceOf
  <2>. QED
    BY <1>0, <2>1, PlaceFacts
<1>2. \A i \in 1..Len(cmd.ops) : i # idx => PlaceOf(i)' = PlaceOf(i)
  BY <1>0, OthersInPlace
<1>. HIDE DEF place, PlaceOf
<1>3. CASE idx > Len(cmd.ops)
  <2>1. pc \notin Busy
    BY <1>0, <1>3 DEF TypeInv, InPlace
  <2>2. idx' = idx /\ err' = err
    BY <1>0, <2>1 DEF Busy, Copying, Step, StartOperand, AnswerYes, AnswerNo, Rename,
      RenameFails, RenameCrosses, OpenTargetCurdir, CopyFileRefuses, CopyFileStarts,
      UnlinkTarget, UnlinkFails, OpenSource, OpenSourceFails, OpenTarget, OpenTargetFails,
      CopyBlock, CopyEnds, CopyTimes, CopyOwner, CopyMode, CopySetid, CopyModeFails, Exit,
      Goto, Stay
  <2>3. place' = place
    BY <1>0, <1>1, <1>2, <1>3
  <2>. QED
    BY <1>0, <2>2, <2>3 DEF replacement!vars
<1>4. CASE idx <= Len(cmd.ops)
  <2>0. idx \in 1..Len(cmd.ops) /\ idx <= Len(place)
    BY <1>0, <1>1, <1>4
  <2>. DEFINE i == idx
              new == place'[idx]
  <2>1. place' = [place EXCEPT ![idx] = new] /\ new \subseteq {"source", "target"}
    <3>1. place' = [place EXCEPT ![idx] = new]
      BY <1>0, <1>1, <1>2, <2>0
    <3>2. \A k \in 1..Len(cmd.ops) : PlaceOf(k)' \subseteq {"source", "target"}
      BY <1>0 DEF PlaceOf
    <3>. QED
      BY <1>1, <2>0, <3>1, <3>2
  <2>2. new \in SUBSET replacement!Places
    BY <2>1 DEF replacement!Places, replacement!Kept
  <2>3. PICK k \in 1..Len(cmd.ops) : k = idx
    BY <2>0
  <2>3b. cmd.ops[k].from \in Paths /\ cmd.ops[k].to \in Paths
    BY <1>0, CmdFacts
  <2>4. place[idx] = PlaceOf(k) /\ new = PlaceOf(k)' /\ PlaceOf(k) \subseteq {"source", "target"}
    BY <1>0, <1>1, <2>3, PlaceFacts
  <2>5. CASE Rename
    <3>1. "target" \in new
      BY <2>3, <2>3b, <2>4, <2>5, RenameArrives
    <3>2. replacement!Put(new) /\ new \cap {"target", "sent"} # {}
      BY <2>0, <2>1, <3>1 DEF replacement!Put, replacement!Safely, replacement!Kept
    <3>3. idx' = idx + 1 /\ err' = err
      BY <1>0, <2>5, BitOrFacts DEF Rename, Return
    <3>4. replacement!Arrive
      BY <1>0, <2>2, <3>2, <3>3 DEF replacement!Arrive, replacement!Advance
    <3>. QED
      BY <3>4 DEF replacement!Next
  <2>6. CASE ~Rename
    <3>1. place[idx] \subseteq new
      BY <2>3, <2>3b, <2>4, <2>6, OperandKept
    <3>2. replacement!Put(new)
      BY <2>0, <2>1, <3>1 DEF replacement!Put, replacement!Safely, replacement!Kept
    <3>3. CASE idx' = idx
      <4>1. err' = err \/ err' # 0
        BY <1>0, <3>3 DEF Step, StartOperand, AnswerYes, AnswerNo, Rename,
          RenameFails, RenameCrosses, OpenTargetCurdir, CopyFileRefuses, CopyFileStarts,
          UnlinkTarget, UnlinkFails, OpenSource, OpenSourceFails, OpenTarget, OpenTargetFails,
          CopyBlock, CopyEnds, CopyTimes, CopyOwner, CopyMode, CopySetid, CopyModeFails, Exit,
          Goto, Return, Stay
      <4>2. replacement!Work
        BY <1>0, <2>2, <3>2, <3>3, <4>1 DEF replacement!Work
      <4>. QED
        BY <4>2 DEF replacement!Next
    <3>4. CASE idx' = idx + 1 /\ err' # 0
      <4>1. replacement!Refuse
        BY <1>0, <2>2, <3>1, <3>2, <3>4 DEF replacement!Refuse, replacement!Advance
      <4>. QED
        BY <4>1 DEF replacement!Next
    <3>5. CASE idx' = idx + 1 /\ err' = 0
      <4>1. err = 0
        <5>1. \E s \in -1..1 : Return(s)
          BY <1>0, <3>5, BitOrFacts
          DEF Step, StartOperand, AnswerYes, AnswerNo, Rename,
            RenameFails, RenameCrosses, OpenTargetCurdir, CopyFileRefuses, CopyFileStarts,
            UnlinkTarget, UnlinkFails, OpenSource, OpenSourceFails, OpenTarget,
            OpenTargetFails, CopyBlock, CopyEnds, CopyTimes, CopyOwner, CopyMode, CopySetid,
            CopyModeFails, Exit, Goto, Stay, TypeInv, TypeOK
        <5>. QED
          BY <1>0, <3>5, <5>1, BitOrFacts DEF Return
      <4>2. "target" \in PlaceOf(k)'
        <5>1. k' = k /\ k < idx' /\ k \in DOMAIN cmd'.ops
          BY <1>0, <2>3, <3>5
        <5>2. Alone(k)' => Arrived(k)'
          BY <1>0, <3>5, <5>1 DEF ArrivedInv
        <5>. QED
          BY <5>1, <5>2 DEF PlaceOf, Arrived, Whole, Dealt
      <4>3. replacement!Arrive
        BY <1>0, <2>2, <2>4, <3>2, <3>5, <4>1, <4>2 DEF replacement!Arrive, replacement!Advance
      <4>. QED
        BY <4>3 DEF replacement!Next
    <3>. QED
      BY <1>0, <3>3, <3>4, <3>5, StepCounts
  <2>. QED
    BY <2>5, <2>6
<1>. QED
  BY <1>0, <1>3, <1>4

(* mv implements Replacement: at every moment, whatever fails and whenever *)
(* it is killed, an operand is whole at its source or at its destination,  *)
(* unless another process took it away; an operand that fails keeps its    *)
(* source and does not disturb another; the status tells.                  *)
THEOREM MvReplaces == Spec => Replaces
<1>1. Init /\ IInv => replacement!Init
  BY PlaceFacts DEF Init, IInv, replacement!Init
<1>2. IInv /\ IInv' /\ [Next]_vars => [replacement!Next]_(replacement!vars)
  <2>0. TypeInv' => PlaceType'
    BY PlaceTyped, PTL
  <2>. SUFFICES ASSUME IInv, IInv', [Next]_vars
                PROVE  replacement!Next \/ UNCHANGED replacement!vars
    OBVIOUS
  <2>1. CASE Step
    BY <2>1, StepReplaces
  <2>2. CASE Other
    <3>1. UNCHANGED <<cmd, idx, err>> /\ others' = others + 1
      BY <2>2 DEF Other, OtherAppends, OtherRemoves, OtherCreates, Elsewhere
    <3>2. /\ place \in Seq(SUBSET replacement!Places) /\ Len(place) = Len(cmd.ops)
          /\ place' \in Seq(SUBSET replacement!Places) /\ Len(place') = Len(cmd'.ops)
      BY <2>0, PlaceTyped DEF IInv, PlaceType
    <3>. HIDE DEF place
    <3>3. replacement!Disturb
      BY <3>1, <3>2 DEF replacement!Disturb
    <3>. QED
      BY <3>3 DEF replacement!Next
  <2>3. CASE UNCHANGED vars
    <3>1. UNCHANGED <<place, idx, err, others>>
      BY <2>3 DEF vars, fs, copying, place, Alone, Sources, Targets, Whole, Dealt, Original,
        Exists
    <3>. QED
      BY <3>1 DEF replacement!vars
  <2>. QED
    BY <2>1, <2>2, <2>3 DEF Next, Done
<1>. QED
  BY <1>1, <1>2, Invariant, PTL DEF Spec, Replaces, replacement!Spec
=============================================================================
