------------------------------ MODULE RmProofs ------------------------------
(***************************************************************************)
(* Theorems about Rm, for every tree, operand list, option list and        *)
(* descriptor limit, and any number of steps of other processes.           *)
(***************************************************************************)
EXTENDS Rm, TLAPS

-----------------------------------------------------------------------------
(* The stack: what replacing, pushing and popping its top frame leave.     *)

LEMMA SetTopFacts ==
  ASSUME NEW s \in Seq(Frames), s # <<>>, NEW f \in Frames
  PROVE  LET t == [s EXCEPT ![Len(s)] = f]
         IN /\ t \in Seq(Frames) /\ t # <<>> /\ Len(t) = Len(s)
            /\ Last(t) = f
            /\ \A k \in 1..(Len(s) - 1) : t[k] = s[k]
<1>. DEFINE t == [s EXCEPT ![Len(s)] = f]
<1>1. Len(s) \in Nat /\ Len(s) > 0
  OBVIOUS
<1>2. t \in Seq(Frames) /\ Len(t) = Len(s)
  BY <1>1
<1>3. t # <<>>
  BY <1>1, <1>2
<1>4. t[Len(s)] = f
  BY <1>1
<1>5. ASSUME NEW k \in 1..(Len(s) - 1) PROVE t[k] = s[k]
  <2>1. k \in 1..Len(s) /\ k # Len(s)
    OBVIOUS
  <2>. QED
    BY <2>1
<1>6. Last(t) = f
  BY <1>2, <1>4 DEF Last
<1>. QED
  BY <1>2, <1>3, <1>5, <1>6

LEMMA PushFacts ==
  ASSUME NEW s \in Seq(Frames), s # <<>>, NEW f \in Frames, NEW g \in Frames
  PROVE  LET t == Append([s EXCEPT ![Len(s)] = f], g)
         IN /\ t \in Seq(Frames) /\ t # <<>> /\ Len(t) = Len(s) + 1
            /\ Last(t) = g /\ t[Len(s)] = f
            /\ \A k \in 1..(Len(s) - 1) : t[k] = s[k]
<1>. DEFINE r == [s EXCEPT ![Len(s)] = f]
            t == Append(r, g)
<1>1. /\ r \in Seq(Frames) /\ Len(r) = Len(s) /\ Len(s) \in Nat \ {0}
      /\ r[Len(s)] = f /\ \A k \in 1..(Len(s) - 1) : r[k] = s[k]
  BY SetTopFacts DEF Last
<1>. HIDE DEF r
<1>2. /\ t \in Seq(Frames) /\ Len(t) = Len(s) + 1 /\ t[Len(s) + 1] = g
      /\ \A k \in 1..Len(s) : t[k] = r[k]
  BY <1>1
<1>3. t # <<>> /\ Last(t) = g
  BY <1>1, <1>2 DEF Last
<1>4. t[Len(s)] = f /\ \A k \in 1..(Len(s) - 1) : t[k] = s[k]
  BY <1>1, <1>2
<1>. QED
  BY <1>1, <1>2, <1>3, <1>4 DEF r

LEMMA AppendFacts ==
  ASSUME NEW r \in Seq(Frames), NEW g \in Frames, NEW t, t = Append(r, g)
  PROVE  /\ t \in Seq(Frames) /\ Len(t) = Len(r) + 1 /\ Last(t) = g
         /\ \A k \in 1..Len(r) : t[k] = r[k]
BY DEF Last

LEMMA PopFacts ==
  ASSUME NEW s \in Seq(Frames), Len(s) > 1, NEW f \in Frames
  PROVE  LET t == [Front(s) EXCEPT ![Len(s) - 1] = f]
         IN /\ t \in Seq(Frames) /\ t # <<>> /\ Len(t) = Len(s) - 1
            /\ Last(t) = f
            /\ \A k \in 1..(Len(s) - 2) : t[k] = s[k]
<1>. DEFINE r == Front(s)
            t == [r EXCEPT ![Len(s) - 1] = f]
<1>1. /\ r \in Seq(Frames) /\ Len(r) = Len(s) - 1 /\ Len(s) \in Nat
      /\ \A k \in 1..(Len(s) - 1) : r[k] = s[k]
  BY DEF Front
<1>. HIDE DEF r
<1>2. r # <<>>
  BY <1>1
<1>3. /\ t \in Seq(Frames) /\ t # <<>> /\ Len(t) = Len(r) /\ Last(t) = f
      /\ \A k \in 1..(Len(r) - 1) : t[k] = r[k]
  BY <1>1, <1>2, SetTopFacts
<1>. QED
  BY <1>1, <1>3 DEF r

LEMMA LookupType ==
  ASSUME NEW t \in Trees, NEW m \in Modes, NEW d \in Dirs, NEW n \in AnyName
  PROVE  Lookup(t, m, d, n) \in Nodes \cup {NONE}
BY TreeAssumption DEF Lookup, Parent, Above, Trees, Nodes, AnyName, Dots

LEMMA OpenType ==
  ASSUME NEW t \in Trees, NEW m \in Modes, NEW d \in Dirs, NEW n \in AnyName
  PROVE  OpenDirectory(t, m, d, n) \in Dirs \cup {NONE}
BY DEF OpenDirectory

LEMMA InitType == Init => TypeOK
<1>. SUFFICES ASSUME Init PROVE TypeOK
  OBVIOUS
<1>1. tree \in Trees /\ mode \in Modes /\ cwd \in Dirs /\ nfd \in Int
  BY RmAssumption DEF Init
<1>2. args \in ArgLists /\ flags \in FlagLists /\ idx \in Nat \ {0} /\ err \in 0..2
  BY DEF Init
<1>3. olddir \in Dirs \cup {NONE} /\ oprc \in 0..1 /\ others \in Nat
  BY DEF Init
<1>4. stack \in Seq(Frames) /\ pc \in PCs
  BY DEF Init, PCs
<1>5. strayed \in BOOLEAN /\ declined \in BOOLEAN
  BY DEF Init
<1>6. removed \subseteq Dirs \X Names /\ confirmed \subseteq Dirs \X AnyName
  BY DEF Init
<1>7. /\ pc \in Outside <=> stack = <<>>
      /\ pc \in {"operand", "done"} <=> olddir = NONE
      /\ pc \in InSub \cup {"enter"} => Top.sub # NONE
  BY DEF Init, Outside, InSub
<1>. QED
  BY <1>1, <1>2, <1>3, <1>4, <1>5, <1>6, <1>7 DEF TypeOK

-----------------------------------------------------------------------------
(* Every frame but the top one is inside the directory it opened, and that *)
(* directory is the descriptor it passed down.                             *)
Threaded ==
  \A k \in 1..(Len(stack) - 1) :
     stack[k].sub # NONE /\ stack[k + 1].dirfd = stack[k].sub

TypeInv == TypeOK /\ Threaded

LEMMA StackFacts ==
  ASSUME TypeInv, pc \notin Outside
  PROVE  /\ stack \in Seq(Frames) /\ stack # <<>>
         /\ Len(stack) \in Nat /\ Len(stack) >= 1
         /\ Top \in Frames /\ Top = stack[Len(stack)]
<1>1. stack \in Seq(Frames) /\ stack # <<>>
  BY DEF TypeInv, TypeOK
<1>2. Len(stack) \in Nat /\ Len(stack) >= 1
  BY <1>1
<1>3. stack[Len(stack)] \in Frames
  BY <1>1, <1>2
<1>. QED
  BY <1>1, <1>2, <1>3 DEF Top, Last

LEMMA FrameFields ==
  ASSUME NEW f \in Frames
  PROVE  /\ f.dirfd \in Dirs /\ f.base \in AnyName /\ f.sub \in Dirs \cup {NONE}
         /\ f.rc \in 0..1
         /\ \A r \in 0..1 : [f EXCEPT !.rc = r] \in Frames
         /\ \A d \in Dirs : [f EXCEPT !.sub = d] \in Frames
         /\ \A S \in SUBSET AnyName : /\ [f EXCEPT !.must = S] \in Frames
                                     /\ [f EXCEPT !.seen = S] \in Frames
BY DEF Frames

LEMMA BitOrType ==
  ASSUME NEW a \in 0..1, NEW b \in 0..1
  PROVE  BitOr(a, b) \in 0..1
BY DEF BitOr

(* Replacing the top frame by one for the same rm() call.                  *)
LEMMA SetTopStep ==
  ASSUME TypeInv, pc \notin Outside, NEW f \in Frames, f.dirfd = Top.dirfd, SetTop(f)
  PROVE  /\ stack' \in Seq(Frames) /\ stack' # <<>> /\ Len(stack') = Len(stack)
         /\ Top' = f /\ Threaded'
         /\ \A k \in 1..(Len(stack) - 1) : stack'[k] = stack[k]
<1>1. /\ stack' \in Seq(Frames) /\ stack' # <<>> /\ Len(stack') = Len(stack)
      /\ Last(stack') = f
      /\ \A k \in 1..(Len(stack) - 1) : stack'[k] = stack[k]
  BY StackFacts, SetTopFacts DEF SetTop
<1>2. Len(stack) \in Nat /\ Len(stack) >= 1
  BY StackFacts
<1>3. stack'[Len(stack)] = f
  BY <1>1 DEF Last
<1>4. ASSUME NEW k \in 1..(Len(stack) - 1)
      PROVE  stack'[k].sub # NONE /\ stack'[k + 1].dirfd = stack'[k].sub
  <2>1. stack[k].sub # NONE /\ stack[k + 1].dirfd = stack[k].sub
    BY DEF TypeInv, Threaded
  <2>2. CASE k + 1 = Len(stack)
    BY <1>1, <1>3, <2>1, <2>2, StackFacts
  <2>3. CASE k + 1 # Len(stack)
    <3>1. k + 1 \in 1..(Len(stack) - 1)
      BY <1>2, <2>3
    <3>. QED
      BY <1>1, <2>1, <3>1
  <2>. QED
    BY <2>2, <2>3
<1>5. Threaded'
  BY <1>1, <1>4 DEF Threaded
<1>. QED
  BY <1>1, <1>5 DEF Top

(* Returning from rm(): to rm_fn_actor, or to the readdir loop below.      *)
LEMMA ReturnStep ==
  ASSUME TypeInv, pc \notin Outside, NEW rc \in 0..1, Return(rc)
  PROVE  /\ stack' \in Seq(Frames) /\ oprc' \in 0..1 /\ Threaded'
         /\ \/ Len(stack) = 1 /\ stack' = <<>> /\ pc' = "restore"
            \/ /\ Len(stack) > 1 /\ stack' # <<>> /\ pc' = "readdir"
               /\ Len(stack') = Len(stack) - 1
               /\ Top'.sub = Top.dirfd /\ Top'.sub # NONE
               /\ Top'.dirfd = stack[Len(stack) - 1].dirfd
               /\ Top'.base = stack[Len(stack) - 1].base
               /\ \A k \in 1..(Len(stack) - 2) : stack'[k] = stack[k]
<1>0. Len(stack) \in Nat /\ Len(stack) >= 1 /\ stack \in Seq(Frames)
  BY StackFacts
<1>1. CASE Len(stack) = 1
  <2>1. stack' = <<>> /\ oprc' = rc /\ pc' = "restore"
    BY <1>1 DEF Return
  <2>2. Threaded'
    BY <2>1 DEF Threaded
  <2>. QED
    BY <1>1, <2>1, <2>2
<1>2. CASE Len(stack) > 1
  <2>0. Len(stack) # 1
    <3>1. PICK l \in Nat : l = Len(stack)
      BY <1>0
    <3>2. l > 1
      BY <1>2, <3>1
    <3>3. l # 1
      BY <3>2
    <3>. QED
      BY <3>1, <3>3
  <2>. DEFINE n == Len(stack) - 1
              c == stack[n]
              g == [c EXCEPT !.rc = BitOr(@, rc)]
  <2>1. n \in 1..Len(stack) /\ n \in 1..(Len(stack) - 1)
    BY <1>0, <1>2
  <2>2. c \in Frames
    BY <1>0, <2>1
  <2>3. BitOr(c.rc, rc) \in 0..1
    BY <2>2, FrameFields, BitOrType
  <2>4. g \in Frames
    BY <2>2, <2>3, FrameFields
  <2>5. g.sub = c.sub /\ g.dirfd = c.dirfd /\ g.base = c.base
    BY <2>2 DEF Frames
  <2>6. stack' = [Front(stack) EXCEPT ![Len(stack) - 1] = g]
    BY <2>0, Zenon DEF Return
  <2>7. /\ stack' \in Seq(Frames) /\ stack' # <<>>
        /\ Len(stack') = n /\ Last(stack') = g
        /\ \A k \in 1..(Len(stack) - 2) : stack'[k] = stack[k]
    <3>. HIDE DEF g
    <3>. QED
      BY <1>0, <1>2, <2>4, <2>6, PopFacts
  <2>8. pc' = "readdir" /\ oprc' = oprc
    BY <2>0, Zenon DEF Return
  <2>11. oprc \in 0..1
    BY DEF TypeInv, TypeOK
  <2>9. c.sub # NONE /\ Top.dirfd = c.sub
    BY <2>1, StackFacts DEF TypeInv, Threaded
  <2>10. Threaded'
    <3>1. stack'[n] = g
      BY <2>7 DEF Last
    <3>. SUFFICES ASSUME NEW k \in 1..(n - 1)
                  PROVE  stack'[k].sub # NONE /\ stack'[k + 1].dirfd = stack'[k].sub
      BY <2>7 DEF Threaded
    <3>2. k \in 1..(Len(stack) - 2) /\ k \in 1..(Len(stack) - 1)
      BY <1>0
    <3>3. /\ stack[k].sub # NONE /\ stack[k + 1].dirfd = stack[k].sub
          /\ stack'[k] = stack[k]
      BY <2>7, <3>2 DEF TypeInv, Threaded
    <3>4. CASE k + 1 = n
      BY <2>5, <3>1, <3>3, <3>4
    <3>5. CASE k + 1 # n
      <4>1. k + 1 \in 1..(Len(stack) - 2)
        BY <1>0, <3>5
      <4>. QED
        BY <2>7, <3>3, <4>1
    <3>. QED
      BY <3>4, <3>5
  <2>. HIDE DEF g
  <2>. QED
    BY <1>2, <2>5, <2>7, <2>8, <2>9, <2>10, <2>11 DEF Top
<1>. QED
  BY <1>0, <1>1, <1>2

-----------------------------------------------------------------------------
(* Type correctness.                                                       *)

LEMMA TreeChangeType ==
  ASSUME NEW t \in Trees, NEW d \in Dirs, NEW n \in Names, NEW leaf \in Leaves
  PROVE  RemoveEntry(t, d, n) \in Trees /\ AddEntry(t, d, n, leaf) \in Trees
BY DEF RemoveEntry, AddEntry, Trees, Nodes

LEMMA StackUnchanged ==
  ASSUME TypeInv, UNCHANGED stack
  PROVE  Threaded' /\ Top' = Top /\ stack' \in Seq(Frames)
BY DEF TypeInv, TypeOK, Threaded, Top

LEMMA CommandFacts ==
  ASSUME TypeInv, AtOperand
  PROVE  /\ args[idx].dirn \in AnyName /\ args[idx].base \in AnyName
         /\ idx \in DOMAIN args
<1>1. args \in Seq(Operands) /\ idx \in 1..Len(args)
  BY RmAssumption DEF TypeInv, TypeOK, AtOperand
<1>2. args[idx] \in Operands /\ idx \in DOMAIN args
  BY <1>1
<1>. QED
  BY <1>2 DEF Operands, AnyName, Dots

LEMMA OperandStepsType ==
  ASSUME TypeInv, RefuseOperand \/ StartOperand \/ FinishOperand \/ Exit
  PROVE  TypeInv'
<1>1. CASE RefuseOperand
  <2>1. Threaded' /\ Top' = Top
    BY <1>1, StackUnchanged DEF RefuseOperand
  <2>2. err' \in 0..2 /\ idx' \in Nat \ {0}
    BY <1>1 DEF RefuseOperand, BitOr, TypeInv, TypeOK
  <2>. QED
    BY <1>1, <2>1, <2>2 DEF RefuseOperand, TypeInv, TypeOK, fs, cmd, hist
<1>2. CASE StartOperand
  <2>1. OpDir \in Dirs
    BY <1>2, OpenType, CommandFacts
    DEF StartOperand, CanReachOperand, OpDir, TypeInv, TypeOK
  <2>2. Call(OpDir, args[idx].base) \in Frames
    BY <1>2, <2>1, CommandFacts DEF StartOperand, Call, Frames
  <2>3. /\ stack' \in Seq(Frames) /\ stack' # <<>> /\ Len(stack') = 1
    BY <1>2, <2>2 DEF StartOperand
  <2>4. Threaded'
    BY <2>3 DEF Threaded
  <2>5. /\ cwd' \in Dirs /\ olddir' \in Dirs /\ nfd' \in Int /\ pc' = "lstat"
    BY <1>2, <2>1 DEF StartOperand, TypeInv, TypeOK
  <2>6. olddir' # NONE
    BY <2>5, TreeAssumption DEF Nodes
  <2>. QED
    BY <1>2, <2>3, <2>4, <2>5, <2>6
    DEF StartOperand, TypeInv, TypeOK, fs, cmd, hist, PCs, Outside, InSub
<1>3. CASE FinishOperand
  <2>1. Threaded' /\ stack' = stack
    BY <1>3, StackUnchanged DEF FinishOperand
  <2>2. olddir \in Dirs
    BY <1>3 DEF FinishOperand, TypeInv, TypeOK
  <2>3. /\ cwd' \in Dirs /\ err' \in 0..2
        /\ nfd' \in Int /\ idx' \in Nat \ {0}
    BY <1>3, <2>2 DEF FinishOperand, BitOr, TypeInv, TypeOK
  <2>4. strayed' \in BOOLEAN
    BY <1>3 DEF FinishOperand, TypeInv, TypeOK
  <2>. QED
    BY <1>3, <2>1, <2>3, <2>4
    DEF FinishOperand, TypeInv, TypeOK, fs, cmd, PCs, Outside, InSub
<1>4. CASE Exit
  <2>1. Threaded' /\ stack' = stack
    BY <1>4, StackUnchanged DEF Exit
  <2>2. err' \in 0..2
    BY <1>4 DEF Exit, TypeInv, TypeOK
  <2>. QED
    BY <1>4, <2>1, <2>2
    DEF Exit, TypeInv, TypeOK, fs, cmd, hist, PCs, Outside, InSub
<1>. QED
  BY <1>1, <1>2, <1>3, <1>4

LEMMA ReturnType ==
  ASSUME TypeInv, pc \notin Outside, NEW rc \in 0..1, Return(rc), UNCHANGED olddir
  PROVE  /\ stack' \in Seq(Frames) /\ oprc' \in 0..1 /\ Threaded'
         /\ pc' \in PCs /\ (pc' \in Outside <=> stack' = <<>>)
         /\ (pc' \in {"operand", "done"} <=> olddir' = NONE)
         /\ (pc' \in InSub \cup {"enter"} => Top'.sub # NONE)
<1>1. olddir' # NONE
  BY DEF TypeInv, TypeOK, Outside
<1>. QED
  BY <1>1, ReturnStep DEF PCs, Outside, InSub

LEMMA RmStepsType ==
  ASSUME TypeInv,
         \/ LstatAndReturn \/ LstatAndProceed \/ AnswerYes \/ AnswerNo
         \/ Unlink \/ Rmdir
  PROVE  TypeInv'
<1>1. CASE LstatAndReturn
  <2>1. pc \notin Outside /\ UNCHANGED olddir
    BY <1>1 DEF LstatAndReturn, Outside
  <2>2. Return(0) \/ Return(1)
    BY <1>1 DEF LstatAndReturn
  <2>3. /\ stack' \in Seq(Frames) /\ oprc' \in 0..1 /\ Threaded'
        /\ pc' \in PCs /\ (pc' \in Outside <=> stack' = <<>>)
        /\ (pc' \in {"operand", "done"} <=> olddir' = NONE)
        /\ (pc' \in InSub \cup {"enter"} => Top'.sub # NONE)
    BY <2>1, <2>2, ReturnType
  <2>. QED
    BY <1>1, <2>3 DEF LstatAndReturn, TypeInv, TypeOK, fs, cmd, hist
<1>2. CASE LstatAndProceed
  <2>1. Threaded' /\ stack' = stack /\ Top' = Top
    BY <1>2, StackUnchanged DEF LstatAndProceed
  <2>2. pc' \in {"open", "unlink", "askdir", "ask"} /\ pc = "lstat"
    BY <1>2 DEF LstatAndProceed
  <2>. QED
    BY <1>2, <2>1, <2>2
    DEF LstatAndProceed, TypeInv, TypeOK, fs, cmd, hist, PCs, Outside, InSub
<1>3. CASE AnswerYes
  <2>1. Threaded' /\ stack' = stack /\ Top' = Top
    BY <1>3, StackUnchanged DEF AnswerYes
  <2>2. pc' \in {"open", "unlink"} /\ pc \in {"ask", "askdir"}
    BY <1>3 DEF AnswerYes
  <2>3. confirmed' \subseteq Dirs \X AnyName
    <3>1. pc \notin Outside
      BY <2>2 DEF Outside
    <3>2. Top.base \in AnyName
      BY <3>1, StackFacts, FrameFields
    <3>. QED
      BY <1>3, <3>2 DEF AnswerYes, TypeInv, TypeOK
  <2>. QED
    BY <1>3, <2>1, <2>2, <2>3
    DEF AnswerYes, TypeInv, TypeOK, fs, cmd, PCs, Outside, InSub
<1>4. CASE AnswerNo
  <2>1. pc \notin Outside /\ UNCHANGED olddir
    BY <1>4 DEF AnswerNo, Outside
  <2>2. Top.rc \in 0..1 /\ Return(Top.rc)
    BY <1>4, <2>1, StackFacts, FrameFields DEF AnswerNo
  <2>3. /\ stack' \in Seq(Frames) /\ oprc' \in 0..1 /\ Threaded'
        /\ pc' \in PCs /\ (pc' \in Outside <=> stack' = <<>>)
        /\ (pc' \in {"operand", "done"} <=> olddir' = NONE)
        /\ (pc' \in InSub \cup {"enter"} => Top'.sub # NONE)
    BY <2>1, <2>2, ReturnType
  <2>. QED
    BY <1>4, <2>3 DEF AnswerNo, TypeInv, TypeOK, fs, cmd
<1>5. ASSUME Unlink \/ Rmdir PROVE TypeInv'
  <2>1. pc \notin Outside /\ UNCHANGED olddir
    BY <1>5 DEF Unlink, Rmdir, Outside
  <2>2. Top.rc \in 0..1
    BY <2>1, StackFacts, FrameFields
  <2>3. Return(Top.rc) \/ Return(1)
    BY <1>5 DEF Unlink, Rmdir
  <2>4. /\ stack' \in Seq(Frames) /\ oprc' \in 0..1 /\ Threaded'
        /\ pc' \in PCs /\ (pc' \in Outside <=> stack' = <<>>)
        /\ (pc' \in {"operand", "done"} <=> olddir' = NONE)
        /\ (pc' \in InSub \cup {"enter"} => Top'.sub # NONE)
    BY <2>1, <2>2, <2>3, ReturnType
  <2>5. \/ UNCHANGED <<tree, removed>>
        \/ /\ Top.base \in Names
           /\ tree' = RemoveEntry(tree, cwd, Top.base)
           /\ removed' = removed \cup {<<cwd, Top.base>>}
    BY <1>5 DEF Unlink, Rmdir, CanUnlink, CanRmdir
  <2>6. tree' \in Trees /\ removed' \subseteq Dirs \X Names
    BY <2>5, TreeChangeType DEF TypeInv, TypeOK, RemoveEntry, Trees
  <2>. QED
    BY <1>5, <2>4, <2>6 DEF Unlink, Rmdir, TypeInv, TypeOK, cmd
<1>. QED
  BY <1>1, <1>2, <1>3, <1>4, <1>5

LEMMA DirectoryStepsType ==
  ASSUME TypeInv, OpenSub \/ EnterSub \/ OpenStream \/ CloseStream \/ LeaveSub
  PROVE  TypeInv'
<1>0. pc \notin Outside
  BY DEF OpenSub, EnterSub, OpenStream, CloseStream, LeaveSub, Outside
<1>. DEFINE failed == [Top EXCEPT !.rc = 1]
<1>1. Top \in Frames /\ failed \in Frames
  <2>1. Top \in Frames
    BY <1>0, StackFacts
  <2>. QED
    BY <2>1 DEF Frames
<1>2. failed.dirfd = Top.dirfd /\ failed.sub = Top.sub
  BY <1>1 DEF Frames
<1>3. SetTop(failed) =>
        /\ stack' \in Seq(Frames) /\ stack' # <<>> /\ Threaded' /\ Top'.sub = Top.sub
  BY <1>0, <1>1, <1>2, SetTopStep
<1>4. UNCHANGED stack => stack' # <<>> /\ stack' \in Seq(Frames) /\ Threaded' /\ Top' = Top
  BY <1>0, StackFacts, StackUnchanged
<1>. HIDE DEF failed
<1>5. CASE OpenSub
  <2>. DEFINE d == OpenDirectory(tree, mode, cwd, Top.base)
              opened == [Top EXCEPT !.sub = d]
  <2>1. CASE d # NONE /\ nfd < MaxFds
    <3>1. d \in Dirs
      BY <1>1, <2>1, OpenType, FrameFields DEF TypeInv, TypeOK
    <3>2. opened \in Frames /\ opened.dirfd = Top.dirfd /\ opened.sub = d
      BY <1>1, <3>1, FrameFields DEF Frames
    <3>3. SetTop(opened) /\ pc' = "enter" /\ nfd' = nfd + 1
      BY <1>5, <2>1 DEF OpenSub
    <3>4. /\ stack' \in Seq(Frames) /\ stack' # <<>> /\ Threaded' /\ Top'.sub # NONE
      <4>. HIDE DEF opened
      <4>. QED
        BY <1>0, <2>1, <3>2, <3>3, SetTopStep
    <3>. QED
      BY <1>5, <3>3, <3>4
      DEF OpenSub, TypeInv, TypeOK, fs, cmd, hist, PCs, Outside, InSub
  <2>2. CASE ~(d # NONE /\ nfd < MaxFds)
    <3>1. SetTop(failed) /\ pc' = "rmdir" /\ nfd' = nfd
      BY <1>5, <2>2 DEF OpenSub, failed
    <3>. QED
      BY <1>3, <1>5, <3>1
      DEF OpenSub, TypeInv, TypeOK, fs, cmd, hist, PCs, Outside, InSub
  <2>. QED
    BY <2>1, <2>2
<1>6. CASE EnterSub
  <2>1. CASE CanEnter(mode, Top.sub)
    <3>1. /\ cwd' = Top.sub /\ pc' = "opendir" /\ pc = "enter"
          /\ nfd' = nfd /\ stack' = stack
      BY <1>6, <2>1 DEF EnterSub
    <3>2. Top.sub \in Dirs
      BY <1>1, <3>1, FrameFields DEF TypeInv, TypeOK
    <3>. QED
      BY <1>4, <1>6, <3>1, <3>2
      DEF EnterSub, TypeInv, TypeOK, fs, cmd, hist, PCs, Outside, InSub
  <2>2. CASE ~CanEnter(mode, Top.sub)
    <3>1. SetTop(failed) /\ pc' = "rmdir" /\ nfd' = nfd - 1 /\ cwd' = cwd
      BY <1>6, <2>2 DEF EnterSub, failed
    <3>. QED
      BY <1>3, <1>6, <3>1
      DEF EnterSub, TypeInv, TypeOK, fs, cmd, hist, PCs, Outside, InSub
  <2>. QED
    BY <2>1, <2>2
<1>7. CASE OpenStream
  <2>. DEFINE names == EntriesOf(tree, Top.sub) \cup Dots
              reading == [Top EXCEPT !.must = names]
  <2>1. reading \in Frames /\ reading.dirfd = Top.dirfd /\ reading.sub = Top.sub
    <3>1. names \in SUBSET AnyName
      BY DEF EntriesOf, AnyName
    <3>. QED
      BY <1>1, <3>1, FrameFields DEF Frames
  <2>2. \/ SetTop(reading) /\ nfd' = nfd + 1 /\ pc' = "readdir"
        \/ SetTop(failed) /\ pc' = "leave" /\ nfd' = nfd
    BY <1>7 DEF OpenStream, failed
  <2>3. /\ stack' \in Seq(Frames) /\ stack' # <<>> /\ Threaded' /\ Top'.sub = Top.sub
    <3>. HIDE DEF reading
    <3>. QED
      BY <1>0, <1>3, <2>1, <2>2, SetTopStep
  <2>4. Top.sub # NONE
    BY <1>7 DEF OpenStream, TypeInv, TypeOK, InSub
  <2>. HIDE DEF reading
  <2>5. pc' \in {"readdir", "leave"} /\ nfd' \in Int
    BY <2>2 DEF TypeInv, TypeOK
  <2>. QED
    BY <1>7, <2>3, <2>4, <2>5
    DEF OpenStream, TypeInv, TypeOK, fs, cmd, hist, PCs, Outside, InSub
<1>8. CASE CloseStream
  <2>1. /\ pc' = "leave" /\ pc = "readdir" /\ nfd' = nfd - 1 /\ stack' = stack
        /\ others' \in Nat
    BY <1>8 DEF CloseStream, TypeInv, TypeOK
  <2>. QED
    BY <1>4, <1>8, <2>1
    DEF CloseStream, TypeInv, TypeOK, fs, cmd, hist, PCs, Outside, InSub
<1>9. CASE LeaveSub
  <2>1. pc' = "rmdir" /\ nfd' = nfd - 1
    BY <1>9 DEF LeaveSub
  <2>2. UNCHANGED stack \/ SetTop(failed)
    BY <1>9 DEF LeaveSub, failed
  <2>3. cwd' \in Dirs
    BY <1>1, <1>9, FrameFields DEF LeaveSub, TypeInv, TypeOK
  <2>4. strayed' \in BOOLEAN
    BY <1>9 DEF LeaveSub, TypeInv, TypeOK
  <2>5. stack' \in Seq(Frames) /\ stack' # <<>> /\ Threaded'
    BY <1>3, <1>4, <2>2
  <2>. QED
    BY <1>9, <2>1, <2>3, <2>4, <2>5
    DEF LeaveSub, TypeInv, TypeOK, fs, cmd, PCs, Outside, InSub
<1>. QED
  BY <1>5, <1>6, <1>7, <1>8, <1>9

LEMMA ReadEntryStep ==
  ASSUME TypeInv, NEW n \in AnyName, ReadEntry(n)
  PROVE  /\ stack' \in Seq(Frames) /\ stack' # <<>> /\ Len(stack') = Len(stack) + 1
         /\ Top' = Call(Top.sub, n) /\ Threaded'
         /\ stack'[Len(stack)].dirfd = Top.dirfd /\ stack'[Len(stack)].base = Top.base
         /\ stack'[Len(stack)].sub = Top.sub
         /\ \A k \in 1..(Len(stack) - 1) : stack'[k] = stack[k]
<1>1. pc \notin Outside /\ Top.sub # NONE
  BY DEF ReadEntry, Outside, InSub, TypeInv, TypeOK
<1>2. Top \in Frames
  BY <1>1, StackFacts
<1>. DEFINE f == [Top EXCEPT !.seen = @ \cup {n}]
            g == Call(Top.sub, n)
<1>3. f \in Frames /\ f.dirfd = Top.dirfd /\ f.base = Top.base /\ f.sub = Top.sub
  BY <1>2 DEF Frames
<1>4. g \in Frames /\ g.dirfd = Top.sub
  BY <1>1, <1>2 DEF Frames, Call
<1>5. stack' = Append([stack EXCEPT ![Len(stack)] = f], g)
  BY DEF ReadEntry
<1>. HIDE DEF f, g
<1>6. /\ stack' \in Seq(Frames) /\ stack' # <<>> /\ Len(stack') = Len(stack) + 1
      /\ Last(stack') = g /\ stack'[Len(stack)] = f
      /\ \A k \in 1..(Len(stack) - 1) : stack'[k] = stack[k]
  BY <1>1, <1>3, <1>4, <1>5, StackFacts, PushFacts
<1>7. Len(stack) \in Nat /\ Len(stack) >= 1
  BY <1>1, StackFacts
<1>8. stack'[Len(stack) + 1] = g
  BY <1>6 DEF Last
<1>9. ASSUME NEW k \in 1..Len(stack)
      PROVE  stack'[k].sub # NONE /\ stack'[k + 1].dirfd = stack'[k].sub
  <2>1. CASE k = Len(stack)
    BY <1>1, <1>3, <1>4, <1>6, <1>8, <2>1
  <2>2. CASE k # Len(stack)
    <3>1. k \in 1..(Len(stack) - 1)
      BY <1>7, <2>2
    <3>2. stack'[k] = stack[k] /\ stack[k].sub # NONE /\ stack[k + 1].dirfd = stack[k].sub
      BY <1>6, <3>1 DEF TypeInv, Threaded
    <3>3. stack'[k + 1].dirfd = stack[k + 1].dirfd
      <4>1. CASE k + 1 = Len(stack)
        BY <1>1, <1>3, <1>6, <4>1, StackFacts
      <4>2. CASE k + 1 # Len(stack)
        <5>1. k + 1 \in 1..(Len(stack) - 1)
          BY <1>7, <3>1, <4>2
        <5>. QED
          BY <1>6, <5>1
      <4>. QED
        BY <4>1, <4>2
    <3>. QED
      BY <3>2, <3>3
  <2>. QED
    BY <2>1, <2>2
<1>10. Threaded'
  <2>1. Len(stack') - 1 = Len(stack)
    BY <1>6, <1>7
  <2>. QED
    BY <1>9, <2>1 DEF Threaded
<1>. QED
  BY <1>3, <1>6, <1>10 DEF Top, g

LEMMA OtherStepsType ==
  ASSUME TypeInv, Other
  PROVE  TypeInv'
<1>1. UNCHANGED <<cmd, hist, cwd, nfd, idx, err, olddir, oprc, stack, pc>> /\ others' \in Nat
  BY DEF Other, OtherCreates, OtherUnlinks, OtherChmods, Elsewhere, TypeInv, TypeOK
<1>2. tree' \in Trees /\ mode' \in Modes
  <2>1. ASSUME NEW d \in Dirs, NEW n \in Names, NEW leaf \in Leaves, OtherCreates(d, n, leaf)
        PROVE  tree' \in Trees /\ mode' \in Modes
    BY <2>1, TreeChangeType DEF OtherCreates, TypeInv, TypeOK
  <2>2. ASSUME NEW d \in Dirs, NEW n \in Names, OtherUnlinks(d, n)
        PROVE  tree' \in Trees /\ mode' \in Modes
    BY <2>2 DEF OtherUnlinks, TypeInv, TypeOK, Trees, RemoveEntry
  <2>3. ASSUME NEW d \in Dirs, NEW p \in Permissions, OtherChmods(d, p)
        PROVE  tree' \in Trees /\ mode' \in Modes
    BY <2>3 DEF OtherChmods, TypeInv, TypeOK, Modes, Nodes
  <2>. QED
    BY <2>1, <2>2, <2>3 DEF Other
<1>3. Threaded' /\ Top' = Top /\ stack' = stack
  BY <1>1, StackUnchanged
<1>. QED
  BY <1>1, <1>2, <1>3 DEF TypeInv, TypeOK, cmd, hist

LEMMA NextType == TypeInv /\ [Next]_vars => TypeInv'
<1>. SUFFICES ASSUME TypeInv, [Next]_vars PROVE TypeInv'
  OBVIOUS
<1>1. ASSUME NEW n \in AnyName, ReadEntry(n) PROVE TypeInv'
  <2>1. stack' \in Seq(Frames) /\ stack' # <<>> /\ Threaded'
    BY <1>1, ReadEntryStep
  <2>. QED
    BY <1>1, <2>1
    DEF ReadEntry, TypeInv, TypeOK, fs, cmd, hist, PCs, Outside, InSub
<1>2. CASE UNCHANGED vars
  BY <1>2, StackUnchanged DEF vars, TypeInv, TypeOK
<1>. QED
  BY <1>1, <1>2, OperandStepsType, RmStepsType, DirectoryStepsType, OtherStepsType
  DEF Next, Step, Done

LEMMA TypeInvariant == Spec => []TypeInv
<1>1. Init => TypeInv
  <2>1. Init => Threaded
    BY DEF Init, Threaded
  <2>. QED
    BY <2>1, InitType DEF TypeInv
<1>. QED
  BY <1>1, NextType, PTL DEF Spec

(* Type correctness of rm's state for every tree, command line, descriptor *)
(* limit and interleaving with other processes (rm.cc, lib.cc).            *)
THEOREM TypeCorrect == Spec => []TypeOK
<1>1. TypeInv => TypeOK
  BY DEF TypeInv
<1>. QED
  BY <1>1, TypeInvariant, PTL

-----------------------------------------------------------------------------
(* Descriptors.                                                            *)

(* A return leaves two descriptors fewer per frame, or the operand's two.  *)
LEMMA ReturnFds ==
  ASSUME TypeInv, FdsBalanced, NEW rc \in 0..1, Return(rc), UNCHANGED nfd,
         pc \in {"lstat", "ask", "askdir", "unlink", "rmdir"}
  PROVE  FdsBalanced'
<1>1. pc \notin Outside /\ nfd = 2 * Len(stack)
  BY DEF FdsBalanced, HeldByTop, Outside
<1>2. \/ Len(stack) = 1 /\ pc' = "restore"
      \/ Len(stack) > 1 /\ pc' = "readdir" /\ Len(stack') = Len(stack) - 1
  BY <1>1, ReturnStep
<1>3. Len(stack) \in Nat
  BY <1>1, StackFacts
<1>4. CASE Len(stack) = 1 /\ pc' = "restore"
  BY <1>1, <1>4 DEF FdsBalanced
<1>5. CASE Len(stack) > 1 /\ pc' = "readdir" /\ Len(stack') = Len(stack) - 1
  <2>1. nfd' = 2 * Len(stack') + 2
    BY <1>1, <1>3, <1>5
  <2>. QED
    BY <1>5, <2>1 DEF FdsBalanced, HeldByTop
<1>. QED
  BY <1>2, <1>4, <1>5

LEMMA TopRc ==
  ASSUME TypeInv, pc \notin Outside
  PROVE  Top.rc \in 0..1
BY StackFacts, FrameFields

LEMMA FdsStep ==
  ASSUME TypeInv, FdsBalanced, [Next]_vars
  PROVE  FdsBalanced'
<1>0. nfd \in Int
  BY DEF TypeInv, TypeOK
<1>1. CASE RefuseOperand \/ Exit
  BY <1>1 DEF RefuseOperand, Exit, AtOperand, FdsBalanced, HeldByTop
<1>2. CASE StartOperand
  <2>1. /\ nfd = 0 /\ nfd' = 2 /\ pc' = "lstat"
    BY <1>2 DEF StartOperand, AtOperand, FdsBalanced
  <2>2. Len(stack') = 1
    BY <1>2 DEF StartOperand
  <2>. QED
    BY <2>1, <2>2 DEF FdsBalanced, HeldByTop
<1>3. CASE FinishOperand
  BY <1>0, <1>3 DEF FinishOperand, FdsBalanced, HeldByTop
<1>4. CASE LstatAndReturn \/ AnswerNo \/ Unlink \/ Rmdir
  <2>1. /\ pc \in {"lstat", "ask", "askdir", "unlink", "rmdir"} /\ UNCHANGED nfd
        /\ Return(0) \/ Return(1) \/ Return(Top.rc)
    BY <1>4 DEF LstatAndReturn, AnswerNo, Unlink, Rmdir
  <2>2. Top.rc \in 0..1
    BY <2>1, TopRc DEF Outside
  <2>. QED
    BY <2>1, <2>2, ReturnFds
<1>5. CASE LstatAndProceed \/ AnswerYes
  BY <1>5 DEF LstatAndProceed, AnswerYes, FdsBalanced, HeldByTop
<1>6. ASSUME OpenSub \/ EnterSub \/ OpenStream \/ CloseStream \/ LeaveSub
      PROVE  FdsBalanced'
  <2>1. pc \notin Outside
    BY <1>6 DEF OpenSub, EnterSub, OpenStream, CloseStream, LeaveSub, Outside
  <2>2. Top \in Frames /\ Len(stack) \in Nat
    BY <2>1, StackFacts
  <2>3. stack' = stack \/ \E f \in Frames : f.dirfd = Top.dirfd /\ SetTop(f)
    <3>1. [Top EXCEPT !.rc = 1] \in Frames /\ [Top EXCEPT !.rc = 1].dirfd = Top.dirfd
      BY <2>2 DEF Frames
    <3>2. ASSUME NEW d \in Dirs
          PROVE  [Top EXCEPT !.sub = d] \in Frames /\ [Top EXCEPT !.sub = d].dirfd = Top.dirfd
      BY <2>2 DEF Frames
    <3>3. ASSUME NEW S \in SUBSET AnyName
          PROVE  [Top EXCEPT !.must = S] \in Frames /\ [Top EXCEPT !.must = S].dirfd = Top.dirfd
      BY <2>2 DEF Frames
    <3>4. OpenDirectory(tree, mode, cwd, Top.base) \in Dirs \cup {NONE}
      BY <2>2, OpenType, FrameFields DEF TypeInv, TypeOK
    <3>5. EntriesOf(tree, Top.sub) \cup Dots \in SUBSET AnyName
      BY DEF EntriesOf, AnyName
    <3>. QED
      BY <1>6, <3>1, <3>2, <3>3, <3>4, <3>5, Zenon
      DEF OpenSub, EnterSub, OpenStream, CloseStream, LeaveSub
  <2>4. Len(stack') = Len(stack)
    BY <2>1, <2>3, SetTopStep
  <2>5. CASE OpenSub
    BY <1>0, <2>2, <2>4, <2>5 DEF OpenSub, FdsBalanced, HeldByTop
  <2>6. CASE EnterSub
    BY <1>0, <2>2, <2>4, <2>6 DEF EnterSub, FdsBalanced, HeldByTop
  <2>7. CASE OpenStream
    BY <1>0, <2>2, <2>4, <2>7 DEF OpenStream, FdsBalanced, HeldByTop
  <2>8. CASE CloseStream
    BY <1>0, <2>2, <2>4, <2>8 DEF CloseStream, FdsBalanced, HeldByTop
  <2>9. CASE LeaveSub
    BY <1>0, <2>2, <2>4, <2>9 DEF LeaveSub, FdsBalanced, HeldByTop
  <2>. QED
    BY <1>6, <2>5, <2>6, <2>7, <2>8, <2>9
<1>7. ASSUME NEW n \in AnyName, ReadEntry(n) PROVE FdsBalanced'
  <2>1. /\ nfd = 2 * Len(stack) + 2 /\ nfd' = nfd /\ pc' = "lstat" /\ pc \notin Outside
    BY <1>7 DEF ReadEntry, FdsBalanced, HeldByTop, Outside
  <2>2. Len(stack') = Len(stack) + 1 /\ Len(stack) \in Nat
    BY <1>7, <2>1, ReadEntryStep, StackFacts
  <2>3. nfd' = 2 * Len(stack')
    BY <2>1, <2>2
  <2>. QED
    BY <2>1, <2>3 DEF FdsBalanced, HeldByTop
<1>8. CASE Other \/ UNCHANGED vars
  <2>1. nfd' = nfd /\ pc' = pc /\ stack' = stack
    BY <1>8 DEF Other, OtherCreates, OtherUnlinks, OtherChmods, Elsewhere, vars
  <2>. QED
    BY <2>1 DEF FdsBalanced, HeldByTop
<1>. QED
  BY <1>1, <1>2, <1>3, <1>4, <1>5, <1>6, <1>7, <1>8 DEF Next, Step, Done

(* rm closes every descriptor it opens, on every error path, at any depth. *)
THEOREM FdsAlwaysBalanced == Spec => []FdsBalanced
<1>1. Init => FdsBalanced
  BY DEF Init, FdsBalanced
<1>. QED
  BY <1>1, FdsStep, TypeInvariant, PTL DEF Spec

-----------------------------------------------------------------------------
(* The working directory.                                                  *)

LEMMA DirectoryStack ==
  ASSUME TypeInv, OpenSub \/ EnterSub \/ OpenStream \/ CloseStream \/ LeaveSub
  PROVE  /\ pc \notin Outside /\ Len(stack') = Len(stack)
         /\ Top'.dirfd = Top.dirfd /\ Top'.base = Top.base
         /\ \/ Top'.sub = Top.sub
            \/ /\ OpenSub /\ Top'.sub # NONE
               /\ Top'.sub = OpenDirectory(tree, mode, cwd, Top.base)
         /\ \A k \in 1..(Len(stack) - 1) : stack'[k] = stack[k]
<1>1. pc \notin Outside
  BY DEF OpenSub, EnterSub, OpenStream, CloseStream, LeaveSub, Outside
<1>2. Top \in Frames /\ Len(stack) \in Nat
  BY <1>1, StackFacts
<1>. DEFINE d == OpenDirectory(tree, mode, cwd, Top.base)
            failed == [Top EXCEPT !.rc = 1]
            opened == [Top EXCEPT !.sub = d]
            reading == [Top EXCEPT !.must = EntriesOf(tree, Top.sub) \cup Dots]
<1>3. /\ failed \in Frames /\ failed.dirfd = Top.dirfd /\ failed.base = Top.base
      /\ failed.sub = Top.sub
  BY <1>2 DEF Frames
<1>4. EntriesOf(tree, Top.sub) \cup Dots \in SUBSET AnyName
  BY DEF EntriesOf, AnyName
<1>5. /\ reading \in Frames /\ reading.dirfd = Top.dirfd /\ reading.base = Top.base
      /\ reading.sub = Top.sub
  BY <1>2, <1>4 DEF Frames
<1>6. d # NONE => /\ opened \in Frames /\ opened.dirfd = Top.dirfd
                  /\ opened.base = Top.base /\ opened.sub = d
  <2>1. d \in Dirs \cup {NONE}
    BY <1>2, OpenType, FrameFields DEF TypeInv, TypeOK
  <2>. HIDE DEF d
  <2>. QED
    BY <1>2, <2>1 DEF Frames
<1>7. \/ stack' = stack
      \/ SetTop(failed)
      \/ SetTop(reading)
      \/ OpenSub /\ d # NONE /\ SetTop(opened)
  BY Zenon DEF OpenSub, EnterSub, OpenStream, CloseStream, LeaveSub
<1>. HIDE DEF failed, opened, reading
<1>8. CASE stack' = stack
  BY <1>1, <1>8 DEF Top
<1>9. CASE SetTop(failed)
  BY <1>1, <1>3, <1>9, SetTopStep
<1>10. CASE SetTop(reading)
  BY <1>1, <1>5, <1>10, SetTopStep
<1>11. CASE OpenSub /\ d # NONE /\ SetTop(opened)
  BY <1>1, <1>6, <1>11, SetTopStep
<1>. QED
  BY <1>7, <1>8, <1>9, <1>10, <1>11

CwdInv ==
  /\ CwdFollowsTraversal
  /\ ~strayed /\ olddir # NONE => olddir = StartDir

LEMMA CwdStep ==
  ASSUME TypeInv, CwdInv, [Next]_vars
  PROVE  CwdInv'
<1>. SUFFICES ASSUME ~strayed' PROVE CwdInv'
  BY DEF CwdInv, CwdFollowsTraversal
<1>0. ~strayed
  BY DEF Next, Step, Done, Other, vars, hist, Elsewhere,
         RefuseOperand, StartOperand, FinishOperand, Exit, LstatAndReturn,
         LstatAndProceed, AnswerYes, AnswerNo, Unlink, Rmdir, OpenSub, EnterSub,
         OpenStream, CloseStream, LeaveSub, ReadEntry, OtherCreates,
         OtherUnlinks, OtherChmods
<1>1. CASE RefuseOperand \/ Exit
  BY <1>0, <1>1 DEF RefuseOperand, Exit, AtOperand, CwdInv, CwdFollowsTraversal, Outside
<1>2. CASE StartOperand
  <2>1. stack' = <<Call(OpDir, args[idx].base)>>
    BY <1>2 DEF StartOperand
  <2>2. Top'.dirfd = OpDir
    BY <2>1 DEF Top, Last, Call
  <2>. QED
    BY <1>0, <1>2, <2>2
    DEF StartOperand, AtOperand, CwdInv, CwdFollowsTraversal, Outside, InSub
<1>3. CASE FinishOperand
  <2>1. olddir = StartDir
    BY <1>0, <1>3 DEF FinishOperand, CwdInv, TypeInv, TypeOK
  <2>2. cwd' = olddir /\ olddir' = NONE /\ pc' = "operand"
    BY <1>3 DEF FinishOperand
  <2>. QED
    BY <2>1, <2>2 DEF CwdInv, CwdFollowsTraversal, Outside
<1>4. CASE LstatAndReturn \/ AnswerNo \/ Unlink \/ Rmdir
  <2>1. /\ pc \in {"lstat", "ask", "askdir", "unlink", "rmdir"}
        /\ cwd' = cwd /\ olddir' = olddir
        /\ Return(0) \/ Return(1) \/ Return(Top.rc)
    BY <1>4 DEF LstatAndReturn, AnswerNo, Unlink, Rmdir
  <2>2. pc \notin Outside /\ cwd = Top.dirfd
    BY <1>0, <2>1 DEF CwdInv, CwdFollowsTraversal, Outside, InSub
  <2>3. \E rc \in 0..1 : Return(rc)
    <3>1. Top.rc \in 0..1
      BY <2>2, TopRc
    <3>. QED
      BY <2>1, <3>1
  <2>4. pc' = "restore" \/ (pc' = "readdir" /\ Top'.sub = Top.dirfd)
    BY <2>2, <2>3, ReturnStep
  <2>. QED
    BY <1>0, <2>1, <2>2, <2>4 DEF CwdInv, CwdFollowsTraversal, Outside, InSub
<1>5. CASE LstatAndProceed \/ AnswerYes
  <2>1. /\ pc \in {"lstat", "ask", "askdir"} /\ pc' \in {"open", "unlink", "ask", "askdir"}
        /\ cwd' = cwd /\ olddir' = olddir /\ stack' = stack
    BY <1>5 DEF LstatAndProceed, AnswerYes
  <2>. QED
    BY <1>0, <2>1 DEF CwdInv, CwdFollowsTraversal, Outside, InSub, Top
<1>6. ASSUME OpenSub \/ EnterSub \/ OpenStream \/ CloseStream \/ LeaveSub
      PROVE  CwdInv'
  <2>1. Top'.dirfd = Top.dirfd /\ (Top'.sub = Top.sub \/ OpenSub)
    BY <1>6, DirectoryStack
  <2>2. olddir' = olddir
    BY <1>6 DEF OpenSub, EnterSub, OpenStream, CloseStream, LeaveSub
  <2>3. CASE OpenSub
    BY <1>0, <2>1, <2>2, <2>3 DEF OpenSub, CwdInv, CwdFollowsTraversal, Outside, InSub
  <2>4. CASE EnterSub
    <3>1. Top'.sub = Top.sub
      BY <2>1, <2>4 DEF EnterSub, OpenSub
    <3>. QED
      BY <1>0, <2>1, <2>2, <2>4, <3>1
      DEF EnterSub, CwdInv, CwdFollowsTraversal, Outside, InSub
  <2>5. CASE OpenStream
    <3>1. Top'.sub = Top.sub
      BY <2>1, <2>5 DEF OpenStream, OpenSub
    <3>. QED
      BY <1>0, <2>2, <2>5, <3>1
      DEF OpenStream, CwdInv, CwdFollowsTraversal, Outside, InSub
  <2>6. CASE CloseStream
    <3>1. Top' = Top
      BY <2>6 DEF CloseStream, Top
    <3>. QED
      BY <1>0, <2>2, <2>6, <3>1
      DEF CloseStream, CwdInv, CwdFollowsTraversal, Outside, InSub
  <2>7. CASE LeaveSub
    <3>1. cwd' = Top.dirfd /\ pc' = "rmdir"
      BY <2>7 DEF LeaveSub
    <3>. QED
      BY <1>0, <2>1, <2>2, <3>1 DEF CwdInv, CwdFollowsTraversal, Outside, InSub
  <2>. QED
    BY <1>6, <2>3, <2>4, <2>5, <2>6, <2>7
<1>7. ASSUME NEW n \in AnyName, ReadEntry(n) PROVE CwdInv'
  <2>1. Top' = Call(Top.sub, n)
    BY <1>7, ReadEntryStep
  <2>2. Top'.dirfd = Top.sub
    BY <2>1 DEF Call
  <2>. QED
    BY <1>0, <1>7, <2>2 DEF ReadEntry, CwdInv, CwdFollowsTraversal, Outside, InSub
<1>8. CASE Other \/ UNCHANGED vars
  <2>1. cwd' = cwd /\ pc' = pc /\ stack' = stack /\ olddir' = olddir
    BY <1>8 DEF Other, OtherCreates, OtherUnlinks, OtherChmods, Elsewhere, vars
  <2>. QED
    BY <1>0, <2>1 DEF CwdInv, CwdFollowsTraversal, Top
<1>. QED
  BY <1>1, <1>2, <1>3, <1>4, <1>5, <1>6, <1>7, <1>8 DEF Next, Step, Done

LEMMA CwdInvariant == Spec => []CwdInv
<1>1. Init => CwdInv
  BY DEF Init, CwdInv, CwdFollowsTraversal, Outside
<1>. QED
  BY <1>1, CwdStep, TypeInvariant, PTL DEF Spec

(* Names are resolved in the directory the traversal means, and rm is back *)
(* in its start directory between operands and at exit, until an fchdir()  *)
(* back fails; in any tree, to any depth.                                  *)
THEOREM CwdAlwaysFollows == Spec => []CwdFollowsTraversal
<1>1. CwdInv => CwdFollowsTraversal
  BY DEF CwdInv
<1>. QED
  BY <1>1, CwdInvariant, PTL

-----------------------------------------------------------------------------
(* What is removed.                                                        *)

(* What other processes and rm leave of the tree: an entry is as it was,   *)
(* or it does not lead to a directory.                                     *)
TreeInv ==
  \A d \in Dirs, n \in Names :
    tree[d][n] = StartTree[d][n] \/ Follow(tree[d][n]) \notin Dirs

(* What is open or about to be opened: the first frame is the operand's,   *)
(* and each directory is the one StartTree has under the frame's name.     *)
OperandFrame ==
  stack # <<>> =>
    /\ idx \in DOMAIN args /\ args[idx].base \in Names /\ Intended(idx) \in Dirs
    /\ stack[1].dirfd = Intended(idx) /\ stack[1].base = args[idx].base
DownInv ==
  /\ pc \in {"askdir", "open"} =>
       Top.base \in Names /\ tree[Top.dirfd][Top.base] \in Dirs
  /\ \A k \in DOMAIN stack :
       /\ BelowOperand(idx, stack[k].dirfd, stack[k].base)
       /\ stack[k].sub # NONE =>
            /\ stack[k].base \in Names
            /\ StartTree[stack[k].dirfd][stack[k].base] = stack[k].sub
BelowInv == ~strayed => OperandFrame /\ DownInv /\ RemovesOnlyBelowOperands

(* Under -i without -f every frame past its prompt is of a confirmed entry.*)
Asking == {"lstat", "ask", "askdir"}
FrameConfirmed(k) == <<stack[k].dirfd, stack[k].base>> \in confirmed
ConfirmInv ==
  Given("i") /\ ~Given("f") /\ ~strayed =>
    /\ removed \subseteq confirmed
    /\ \A k \in DOMAIN stack :
         k < Len(stack) \/ pc \notin Asking => FrameConfirmed(k)

(* A failed return to a directory is remembered in some frame's status     *)
(* until it reaches the exit status.                                       *)
Failing ==
  \/ \E k \in DOMAIN stack : stack[k].rc = 1
  \/ pc = "restore" /\ oprc = 1
StrayInv ==
  /\ strayed /\ err = 0 => Failing
  /\ pc = "lstat" => Top.rc = 0
Gone(i) == <<Intended(i), args[i].base>> \in removed
StatusInv ==
  err = 0 =>
    /\ OperandFrame
    /\ ~declined =>
         /\ \A i \in DOMAIN args : i < idx => Gone(i)
         /\ pc = "restore" /\ oprc = 0 => idx \in DOMAIN args /\ Gone(idx)
    /\ pc = "done" => idx > Len(args)

(* Each frame after a step of an active rm() call is a frame before it, or *)
(* the call made for the entry that readdir() returned.                    *)
SameCall(f, g) == f.dirfd = g.dirfd /\ f.base = g.base
Opened(k) ==
  /\ pc = "open" /\ k = Len(stack)
  /\ stack'[k].sub = OpenDirectory(tree, mode, cwd, Top.base)

LEMMA OperandSteps ==
  ASSUME TypeInv, RefuseOperand \/ StartOperand \/ FinishOperand \/ Exit
  PROVE  /\ stack = <<>>
         /\ \/ stack' = <<>> /\ ~StartOperand
            \/ /\ StartOperand /\ stack' = <<Call(OpDir, args[idx].base)>>
               /\ Len(stack') = 1 /\ DOMAIN stack' = {1}
               /\ Top' = Call(OpDir, args[idx].base)
               /\ idx \in DOMAIN args /\ args[idx].base \in Names
               /\ args[idx].dirn \in Names \cup {"."} /\ OpDir \in Dirs
<1>1. stack = <<>>
  BY DEF RefuseOperand, StartOperand, FinishOperand, Exit, AtOperand, TypeInv, TypeOK, Outside
<1>2. CASE ~StartOperand
  BY <1>1, <1>2 DEF RefuseOperand, FinishOperand, Exit, StartOperand, AtOperand
<1>3. CASE StartOperand
  <2>1. stack' = <<Call(OpDir, args[idx].base)>>
    BY <1>3 DEF StartOperand
  <2>2. args \in Seq(Operands) /\ idx \in 1..Len(args)
    BY <1>3, RmAssumption DEF StartOperand, AtOperand, TypeInv, TypeOK
  <2>3. args[idx] \in Operands /\ idx \in DOMAIN args
    BY <2>2
  <2>4. args[idx].base \in Names /\ args[idx].dirn \in Names \cup {"."}
    BY <1>3, <2>3 DEF StartOperand, HaveDots, Operands, AnyName
  <2>5. OpDir \in Dirs
    BY <1>3, <2>4, OpenType
    DEF StartOperand, CanReachOperand, OpDir, TypeInv, TypeOK, AnyName, Dots
  <2>6. Len(stack') = 1 /\ DOMAIN stack' = {1} /\ Top' = Call(OpDir, args[idx].base)
    BY <2>1 DEF Top, Last
  <2>. QED
    BY <1>1, <1>3, <2>1, <2>3, <2>4, <2>5, <2>6
<1>. QED
  BY <1>2, <1>3

LEMMA Returning ==
  ASSUME LstatAndReturn \/ AnswerNo \/ Unlink \/ Rmdir, TypeInv
  PROVE  /\ pc \notin Outside /\ Top.rc \in 0..1
         /\ \E rc \in 0..1 : Return(rc)
<1>1. pc \notin Outside
  BY DEF LstatAndReturn, AnswerNo, Unlink, Rmdir, Outside
<1>2. Top.rc \in 0..1
  BY <1>1, TopRc
<1>3. Return(0) \/ Return(1) \/ Return(Top.rc)
  BY DEF LstatAndReturn, AnswerNo, Unlink, Rmdir
<1>. QED
  BY <1>1, <1>2, <1>3

LEMMA FrameStep ==
  ASSUME TypeInv, [Next]_vars, pc \notin Outside, NEW k \in DOMAIN stack'
  PROVE  /\ stack' \in Seq(Frames) /\ k \in Nat
         /\ \/ /\ k \in DOMAIN stack /\ SameCall(stack'[k], stack[k])
               /\ \/ stack'[k].sub = stack[k].sub
                  \/ Opened(k) /\ stack'[k].sub # NONE
            \/ /\ k = Len(stack) + 1 /\ pc = "readdir" /\ pc' = "lstat"
               /\ \E n \in AnyName : stack'[k] = Call(Top.sub, n)
<1>0. /\ stack \in Seq(Frames) /\ Len(stack) \in Nat /\ Len(stack) >= 1
      /\ Top = stack[Len(stack)] /\ DOMAIN stack = 1..Len(stack)
  BY StackFacts
<1>1. TypeInv' /\ stack' \in Seq(Frames) /\ DOMAIN stack' = 1..Len(stack') /\ k \in Nat
  <2>1. TypeInv'
    BY NextType
  <2>. QED
    BY <2>1 DEF TypeInv, TypeOK
<1>2. CASE LstatAndReturn \/ AnswerNo \/ Unlink \/ Rmdir
  <2>0. stack' # <<>>
    BY <1>1
  <2>1. /\ Len(stack) > 1 /\ Len(stack') = Len(stack) - 1
        /\ Top'.sub = Top.dirfd /\ Top'.dirfd = stack[Len(stack) - 1].dirfd
        /\ Top'.base = stack[Len(stack) - 1].base
        /\ \A j \in 1..(Len(stack) - 2) : stack'[j] = stack[j]
    BY <1>2, <2>0, Returning, ReturnStep
  <2>2. k \in 1..(Len(stack) - 1)
    BY <1>0, <1>1, <2>1
  <2>3. CASE k = Len(stack) - 1
    <3>1. stack[k + 1].dirfd = stack[k].sub
      BY <2>2 DEF TypeInv, Threaded
    <3>2. Top' = stack'[k]
      BY <2>1, <2>3 DEF Top, Last
    <3>3. k + 1 = Len(stack) /\ k \in DOMAIN stack
      BY <1>0, <2>1, <2>3
    <3>4. stack'[k].sub = stack[k].sub
      BY <1>0, <2>1, <3>1, <3>2, <3>3
    <3>5. SameCall(stack'[k], stack[k])
      BY <2>1, <2>3, <3>2 DEF SameCall
    <3>. QED
      BY <1>1, <3>3, <3>4, <3>5
  <2>4. CASE k # Len(stack) - 1
    <3>1. k \in 1..(Len(stack) - 2) /\ k \in DOMAIN stack
      BY <1>0, <2>2, <2>4
    <3>. QED
      BY <1>1, <2>1, <2>2, <3>1 DEF SameCall
  <2>. QED
    BY <2>3, <2>4
<1>3. CASE stack' = stack
  BY <1>0, <1>1, <1>3 DEF SameCall
<1>4. CASE OpenSub \/ EnterSub \/ OpenStream \/ CloseStream \/ LeaveSub
  <2>1. /\ Len(stack') = Len(stack)
        /\ Top'.dirfd = Top.dirfd /\ Top'.base = Top.base
        /\ \/ Top'.sub = Top.sub
           \/ /\ OpenSub /\ Top'.sub # NONE
              /\ Top'.sub = OpenDirectory(tree, mode, cwd, Top.base)
        /\ \A j \in 1..(Len(stack) - 1) : stack'[j] = stack[j]
    BY <1>4, DirectoryStack
  <2>2. k \in 1..Len(stack) /\ k \in DOMAIN stack
    BY <1>0, <1>1, <2>1
  <2>3. CASE k = Len(stack)
    <3>1. Top' = stack'[k]
      BY <2>1, <2>3 DEF Top, Last
    <3>2. OpenSub => pc = "open"
      BY DEF OpenSub
    <3>. QED
      BY <1>0, <1>1, <2>1, <2>2, <2>3, <3>1, <3>2 DEF SameCall, Opened
  <2>4. CASE k # Len(stack)
    <3>1. k \in 1..(Len(stack) - 1)
      BY <1>0, <2>2, <2>4
    <3>. QED
      BY <1>1, <2>1, <2>2, <3>1 DEF SameCall
  <2>. QED
    BY <2>3, <2>4
<1>5. ASSUME NEW n \in AnyName, ReadEntry(n)
      PROVE  \/ /\ k \in DOMAIN stack /\ SameCall(stack'[k], stack[k])
                /\ stack'[k].sub = stack[k].sub
             \/ /\ k = Len(stack) + 1 /\ pc = "readdir" /\ pc' = "lstat"
                /\ stack'[k] = Call(Top.sub, n)
  <2>1. /\ Len(stack') = Len(stack) + 1 /\ Top' = Call(Top.sub, n)
        /\ stack'[Len(stack)].dirfd = Top.dirfd /\ stack'[Len(stack)].base = Top.base
        /\ stack'[Len(stack)].sub = Top.sub
        /\ \A j \in 1..(Len(stack) - 1) : stack'[j] = stack[j]
    BY <1>5, ReadEntryStep
  <2>2. pc = "readdir" /\ pc' = "lstat"
    BY <1>5 DEF ReadEntry
  <2>3. CASE k = Len(stack) + 1
    <3>1. Top' = stack'[k]
      BY <2>1, <2>3 DEF Top, Last
    <3>. QED
      BY <2>1, <2>2, <2>3, <3>1
  <2>4. CASE k = Len(stack)
    <3>1. k \in DOMAIN stack /\ stack[k] = Top
      BY <1>0, <2>4
    <3>. QED
      BY <2>1, <2>4, <3>1 DEF SameCall
  <2>5. CASE k \notin {Len(stack), Len(stack) + 1}
    <3>1. k \in 1..(Len(stack) - 1) /\ k \in DOMAIN stack
      BY <1>0, <1>1, <2>1, <2>5
    <3>. QED
      BY <2>1, <3>1 DEF SameCall
  <2>. QED
    BY <2>3, <2>4, <2>5
<1>6. \/ LstatAndReturn \/ AnswerNo \/ Unlink \/ Rmdir
      \/ stack' = stack
      \/ OpenSub \/ EnterSub \/ OpenStream \/ CloseStream \/ LeaveSub
      \/ \E n \in AnyName : ReadEntry(n)
  BY DEF Next, Step, Done, Other, OtherCreates, OtherUnlinks, OtherChmods, Elsewhere, vars,
    RefuseOperand, StartOperand, FinishOperand, Exit, AtOperand, LstatAndProceed, AnswerYes,
    Outside
<1>. QED
  BY <1>1, <1>2, <1>3, <1>4, <1>5, <1>6

LEMMA TreeSteps ==
  ASSUME TypeInv, [Next]_vars
  PROVE  \/ UNCHANGED tree
         \/ \E d \in Dirs, n \in Names :
              /\ tree' = RemoveEntry(tree, d, n)
              /\ tree[d][n] \in Leaves \/ pc = "rmdir"
         \/ \E d \in Dirs, n \in Names, leaf \in Leaves :
              /\ tree[d][n] = NONE /\ LinkTo[leaf] = NONE
              /\ tree' = AddEntry(tree, d, n, leaf)
<1>1. CASE Unlink
  <2>1. CASE CanUnlink(Top.base)
    <3>1. Top.base \in Names /\ Here(Top.base) \in Leaves /\ cwd \in Dirs
      BY <2>1 DEF CanUnlink, TypeInv, TypeOK
    <3>2. tree[cwd][Top.base] \in Leaves
      BY <3>1, TreeAssumption DEF Here, Lookup, Nodes, Dots
    <3>. QED
      BY <1>1, <2>1, <3>1, <3>2 DEF Unlink
  <2>. QED
    BY <1>1, <2>1 DEF Unlink
<1>2. CASE Rmdir
  BY <1>2 DEF Rmdir, CanRmdir, TypeInv, TypeOK
<1>3. CASE Other
  BY <1>3 DEF Other, OtherCreates, OtherUnlinks, OtherChmods, IsEntry
<1>4. CASE ~Unlink /\ ~Rmdir /\ ~Other
  BY <1>4 DEF Next, Step, Done, vars, fs,
         RefuseOperand, StartOperand, FinishOperand, Exit, LstatAndReturn,
         LstatAndProceed, AnswerYes, AnswerNo, OpenSub, EnterSub,
         OpenStream, CloseStream, LeaveSub, ReadEntry
<1>. QED
  BY <1>1, <1>2, <1>3, <1>4

LEMMA NextTree == TypeInv /\ TreeInv /\ [Next]_vars => TreeInv'
<1>. SUFFICES ASSUME TypeInv, TreeInv, [Next]_vars, NEW d \in Dirs, NEW n \in Names
              PROVE  tree'[d][n] = StartTree[d][n] \/ Follow(tree'[d][n]) \notin Dirs
  BY DEF TreeInv
<1>1. tree \in Trees /\ (tree[d][n] = StartTree[d][n] \/ Follow(tree[d][n]) \notin Dirs)
  BY DEF TypeInv, TypeOK, TreeInv
<1>2. /\ Follow(NONE) \notin Dirs
      /\ \A leaf \in Leaves : LinkTo[leaf] = NONE => Follow(leaf) \notin Dirs
  BY TreeAssumption DEF Follow, Nodes
<1>3. tree'[d][n] \in {tree[d][n], NONE} \/ \E leaf \in Leaves : LinkTo[leaf] = NONE /\ tree'[d][n] = leaf
  BY <1>1, TreeSteps DEF RemoveEntry, AddEntry, Trees
<1>. QED
  BY <1>1, <1>2, <1>3

(* A tree's entries are where they were, or do not lead to a directory: so *)
(* what opens as a directory is what StartTree has there.                  *)
LEMMA OpensAsMeant ==
  ASSUME TypeInv, TreeInv, NEW d \in Dirs, NEW n \in Names,
         OpenDirectory(tree, mode, d, n) # NONE
  PROVE  OpenDirectory(tree, mode, d, n) = Follow(StartTree[d][n])
<1>1. Lookup(tree, mode, d, n) \in {NONE, tree[d][n]}
  BY TreeAssumption DEF Lookup, Dots
<1>2. Follow(NONE) \notin Dirs
  BY TreeAssumption DEF Follow, Nodes
<1>3. Follow(Lookup(tree, mode, d, n)) \in Dirs
  BY DEF OpenDirectory
<1>4. Lookup(tree, mode, d, n) = tree[d][n]
  BY <1>1, <1>2, <1>3
<1>5. tree[d][n] = StartTree[d][n]
  BY <1>3, <1>4 DEF TreeInv
<1>. QED
  BY <1>4, <1>5 DEF OpenDirectory

LEMMA SubtreeFacts ==
  ASSUME NEW d \in Dirs
  PROVE  /\ d \in SubtreeDirs(StartTree, d)
         /\ \A p \in SubtreeDirs(StartTree, d), n \in Names :
              StartTree[p][n] \in Dirs => StartTree[p][n] \in SubtreeDirs(StartTree, d)
BY DEF SubtreeDirs, ClosedUnder

LEMMA Deeper ==
  ASSUME NEW i \in DOMAIN args, NEW d \in Dirs, NEW n \in Names, BelowOperand(i, d, n),
         StartTree[d][n] \in Dirs, NEW m
  PROVE  BelowOperand(i, StartTree[d][n], m)
<1>1. CASE d = Intended(i) /\ n = args[i].base
  BY <1>1, SubtreeFacts DEF BelowOperand
<1>2. CASE ~(d = Intended(i) /\ n = args[i].base)
  BY <1>2, SubtreeFacts DEF BelowOperand
<1>. QED
  BY <1>1, <1>2

LEMMA CommandUnchanged == [Next]_vars => UNCHANGED <<args, flags>>
BY DEF Next, Step, Done, Other, vars, cmd, Elsewhere,
       RefuseOperand, StartOperand, FinishOperand, Exit, LstatAndReturn,
       LstatAndProceed, AnswerYes, AnswerNo, Unlink, Rmdir, OpenSub, EnterSub,
       OpenStream, CloseStream, LeaveSub, ReadEntry, OtherCreates,
       OtherUnlinks, OtherChmods

LEMMA WithinOperand ==
  ASSUME [Next]_vars, pc \notin Outside
  PROVE  UNCHANGED <<idx, err>>
BY DEF Next, Step, Done, Other, vars, Elsewhere, Outside, AtOperand,
       RefuseOperand, StartOperand, FinishOperand, Exit, LstatAndReturn,
       LstatAndProceed, AnswerYes, AnswerNo, Unlink, Rmdir, OpenSub, EnterSub,
       OpenStream, CloseStream, LeaveSub, ReadEntry, OtherCreates,
       OtherUnlinks, OtherChmods

LEMMA StrayedStays == [Next]_vars => strayed' \in {strayed, TRUE}
BY DEF Next, Step, Done, Other, vars, hist, Elsewhere,
       RefuseOperand, StartOperand, FinishOperand, Exit, LstatAndReturn,
       LstatAndProceed, AnswerYes, AnswerNo, Unlink, Rmdir, OpenSub, EnterSub,
       OpenStream, CloseStream, LeaveSub, ReadEntry, OtherCreates,
       OtherUnlinks, OtherChmods

(* The operand's own directory is the one it names.                        *)
LEMMA StartsAsMeant ==
  ASSUME TypeInv, TreeInv, CwdInv, ~strayed, StartOperand
  PROVE  /\ OpDir = Intended(idx) /\ Intended(idx)' = Intended(idx)
         /\ Intended(idx) \in Dirs
<1>1. /\ idx \in DOMAIN args /\ args[idx].dirn \in Names \cup {"."} /\ OpDir \in Dirs
  BY OperandSteps
<1>2. cwd = StartDir /\ StartDir \in Dirs /\ OpDir # NONE
  BY <1>1, TreeAssumption, RmAssumption
  DEF StartOperand, AtOperand, CwdInv, CwdFollowsTraversal, Nodes
<1>3. CASE args[idx].dirn = "."
  <2>1. OpDir = cwd
    <3>1. Lookup(tree, mode, cwd, ".") \in {NONE, cwd}
      BY TreeAssumption DEF Lookup, Dots
    <3>2. Follow(NONE) = NONE /\ Follow(cwd) = cwd
      BY <1>2, TreeAssumption DEF Follow, Nodes
    <3>. QED
      BY <1>2, <1>3, <3>1, <3>2 DEF OpDir, OpenDirectory
  <2>2. Intended(idx) = StartDir
    BY <1>3 DEF Intended
  <2>3. Intended(idx)' = Intended(idx)
    BY DEF Intended, StartOperand, cmd
  <2>. QED
    BY <1>2, <2>1, <2>2, <2>3
<1>4. CASE args[idx].dirn # "."
  BY <1>1, <1>2, <1>4, OpensAsMeant DEF OpDir, Intended, StartOperand, cmd
<1>. QED
  BY <1>1, <1>3, <1>4

LEMMA NextOperandFrame ==
  ASSUME TypeInv, TreeInv, CwdInv, [Next]_vars, OperandFrame,
         StartOperand => ~strayed
  PROVE  OperandFrame'
<1>. SUFFICES ASSUME stack' # <<>> PROVE OperandFrame'
  BY DEF OperandFrame
<1>0. args' = args
  BY CommandUnchanged
<1>1. CASE RefuseOperand \/ StartOperand \/ FinishOperand \/ Exit
  <2>1. /\ StartOperand /\ stack' = <<Call(OpDir, args[idx].base)>>
        /\ idx \in DOMAIN args /\ args[idx].base \in Names
    BY <1>1, OperandSteps
  <2>2. idx' = idx /\ OpDir = Intended(idx) /\ Intended(idx)' = Intended(idx) /\ Intended(idx) \in Dirs
    BY <2>1, StartsAsMeant DEF StartOperand
  <2>3. stack'[1].dirfd = OpDir /\ stack'[1].base = args[idx].base
    BY <2>1 DEF Call
  <2>. QED
    BY <1>0, <2>1, <2>2, <2>3 DEF OperandFrame
<1>2. CASE pc \notin Outside
  <2>1. idx' = idx /\ stack # <<>>
    BY <1>2, WithinOperand, StackFacts
  <2>2. 1 \in DOMAIN stack' /\ 1 \in DOMAIN stack
    <3>1. TypeInv'
      BY NextType
    <3>. QED
      BY <2>1, <3>1 DEF TypeInv, TypeOK
  <2>3. SameCall(stack'[1], stack[1])
    <3>1. Len(stack) >= 1 /\ Len(stack) \in Nat
      BY <1>2, StackFacts
    <3>2. 1 # Len(stack) + 1
      BY <3>1
    <3>. QED
      BY <1>2, <2>2, <3>2, FrameStep
  <2>. QED
    BY <1>0, <2>1, <2>2, <2>3 DEF OperandFrame, SameCall, Intended
<1>3. CASE pc \in Outside /\ ~(RefuseOperand \/ StartOperand \/ FinishOperand \/ Exit)
  <2>1. stack' = stack /\ idx' = idx
    BY <1>3 DEF Next, Step, Done, Other, vars, Elsewhere, Outside, LstatAndReturn,
       LstatAndProceed, AnswerYes, AnswerNo, Unlink, Rmdir, OpenSub, EnterSub,
       OpenStream, CloseStream, LeaveSub, ReadEntry, OtherCreates,
       OtherUnlinks, OtherChmods
  <2>. QED
    BY <1>0, <2>1 DEF OperandFrame, Intended
<1>. QED
  BY <1>1, <1>2, <1>3

(* What rm() has found to be a directory it is still when it is opened.    *)
LEMMA NextFound ==
  ASSUME TypeInv, TreeInv, CwdInv, DownInv, ~strayed, [Next]_vars, pc' \in {"askdir", "open"}
  PROVE  Top'.base \in Names /\ tree'[Top'.dirfd][Top'.base] \in Dirs
<1>1. CASE LstatAndProceed
  <2>1. pc = "lstat" /\ ~LstatRefuses /\ UNCHANGED <<tree, stack>>
    BY <1>1 DEF LstatAndProceed, fs
  <2>2. Here(Top.base) \in Dirs /\ ~HaveDots(Top.base)
    BY <1>1, <2>1 DEF LstatAndProceed, LstatRefuses
  <2>3. cwd = Top.dirfd
    BY <2>1 DEF CwdInv, CwdFollowsTraversal, Outside, InSub
  <2>4. Top.base \in Names
    <3>1. Top.base \in AnyName
      BY <2>1, StackFacts, FrameFields DEF Outside
    <3>. QED
      BY <2>2, <3>1 DEF HaveDots, AnyName
  <2>5. Here(Top.base) \in {NONE, tree[cwd][Top.base]}
    BY <2>4, TreeAssumption DEF Here, Lookup, Dots
  <2>6. tree[Top.dirfd][Top.base] \in Dirs
    BY <2>2, <2>3, <2>5, TreeAssumption DEF Nodes
  <2>. QED
    BY <2>1, <2>4, <2>6 DEF Top
<1>2. CASE AnswerYes
  BY <1>2 DEF AnswerYes, DownInv, Top, fs
<1>3. CASE Other \/ UNCHANGED vars
  <2>1. UNCHANGED <<pc, stack>> /\ pc \notin {"rmdir"} /\ pc \notin Outside
    BY <1>3 DEF Other, OtherCreates, OtherUnlinks, OtherChmods, vars, Outside
  <2>2. Top' = Top /\ Top.base \in Names /\ Top.dirfd \in Dirs /\ tree[Top.dirfd][Top.base] \in Dirs
    BY <2>1, StackFacts, FrameFields DEF DownInv, Top
  <2>3. tree \in Trees
    BY DEF TypeInv, TypeOK
  <2>4. tree'[Top.dirfd][Top.base] = tree[Top.dirfd][Top.base]
    BY <2>1, <2>2, <2>3, TreeSteps, TreeAssumption DEF RemoveEntry, AddEntry, Trees, Nodes
  <2>. QED
    BY <2>2, <2>4
<1>4. CASE ~LstatAndProceed /\ ~AnswerYes /\ ~Other /\ ~UNCHANGED vars
  <2>1. ASSUME LstatAndReturn \/ AnswerNo \/ Unlink \/ Rmdir PROVE FALSE
    BY <2>1, Returning, ReturnStep
  <2>. QED
    BY <1>4, <2>1 DEF Next, Step, Done, RefuseOperand, StartOperand, FinishOperand, Exit,
      OpenSub, EnterSub, OpenStream, CloseStream, LeaveSub, ReadEntry, AtOperand
<1>. QED
  BY <1>1, <1>2, <1>3, <1>4

LEMMA NextDown ==
  ASSUME TypeInv, TreeInv, CwdInv, OperandFrame, DownInv, ~strayed, [Next]_vars
  PROVE  DownInv'
<1>. SUFFICES ASSUME NEW k \in DOMAIN stack'
              PROVE  /\ BelowOperand(idx, stack[k].dirfd, stack[k].base)'
                     /\ stack'[k].sub # NONE =>
                          /\ stack'[k].base \in Names
                          /\ StartTree[stack'[k].dirfd][stack'[k].base] = stack'[k].sub
  BY NextFound DEF DownInv
<1>0. args' = args
  BY CommandUnchanged
<1>1. CASE RefuseOperand \/ StartOperand \/ FinishOperand \/ Exit
  <2>1. /\ StartOperand /\ stack' = <<Call(OpDir, args[idx].base)>> /\ k = 1
    BY <1>1, OperandSteps
  <2>2. idx' = idx /\ OpDir = Intended(idx) /\ Intended(idx)' = Intended(idx) /\ Intended(idx) \in Dirs
    BY <2>1, StartsAsMeant DEF StartOperand
  <2>3. stack'[k].dirfd = OpDir /\ stack'[k].base = args[idx].base /\ stack'[k].sub = NONE
    BY <2>1 DEF Call
  <2>. QED
    BY <1>0, <2>2, <2>3 DEF BelowOperand
<1>2. CASE pc \notin Outside
  <2>1. idx' = idx /\ stack # <<>> /\ idx \in DOMAIN args
    BY <1>2, WithinOperand, StackFacts DEF OperandFrame
  <2>2. /\ \A d, n : BelowOperand(idx, d, n)' <=> BelowOperand(idx, d, n)
    BY <1>0, <2>1 DEF BelowOperand, Intended
  <2>3. /\ Top = stack[Len(stack)] /\ Len(stack) \in DOMAIN stack /\ Top \in Frames
        /\ stack \in Seq(Frames)
    BY <1>2, StackFacts
  <2>4. /\ BelowOperand(idx, Top.dirfd, Top.base)
        /\ Top.sub # NONE => Top.base \in Names /\ StartTree[Top.dirfd][Top.base] = Top.sub
    BY <2>3 DEF DownInv
  <2>5. CASE k \in DOMAIN stack /\ SameCall(stack'[k], stack[k]) /\ stack'[k].sub = stack[k].sub
    BY <2>2, <2>5 DEF DownInv, SameCall
  <2>6. CASE k \in DOMAIN stack /\ SameCall(stack'[k], stack[k]) /\ Opened(k) /\ stack'[k].sub # NONE
    <3>1. cwd = Top.dirfd /\ Top.dirfd \in Dirs
      BY <1>2, <2>3, <2>6, FrameFields DEF Opened, CwdInv, CwdFollowsTraversal, InSub
    <3>2. Top.base \in Names /\ tree[Top.dirfd][Top.base] \in Dirs
      BY <2>6 DEF Opened, DownInv
    <3>3. stack'[k].sub = Follow(StartTree[Top.dirfd][Top.base])
      BY <2>6, <3>1, <3>2, OpensAsMeant DEF Opened
    <3>4. StartTree[Top.dirfd][Top.base] = tree[Top.dirfd][Top.base]
      BY <3>1, <3>2, TreeAssumption DEF TreeInv, Follow, Nodes
    <3>5. stack'[k].sub = StartTree[Top.dirfd][Top.base]
      BY <3>2, <3>3, <3>4, TreeAssumption DEF Follow, Nodes
    <3>. QED
      BY <2>2, <2>3, <2>4, <2>6, <3>2, <3>5 DEF Opened, SameCall
  <2>7. CASE k = Len(stack) + 1 /\ pc = "readdir" /\ \E n \in AnyName : stack'[k] = Call(Top.sub, n)
    <3>1. Top.sub # NONE /\ Top.sub \in Dirs /\ Top.dirfd \in Dirs
      BY <2>3, <2>7, FrameFields DEF TypeInv, TypeOK, InSub
    <3>2. BelowOperand(idx, Top.sub, stack'[k].base)
      BY <2>1, <2>4, <3>1, Deeper
    <3>3. stack'[k].dirfd = Top.sub /\ stack'[k].sub = NONE
      BY <2>7 DEF Call
    <3>. QED
      BY <2>2, <3>2, <3>3
  <2>. QED
    BY <1>2, <2>5, <2>6, <2>7, FrameStep
<1>3. CASE pc \in Outside /\ ~(RefuseOperand \/ StartOperand \/ FinishOperand \/ Exit)
  <2>1. stack' = stack /\ stack = <<>>
    BY <1>3 DEF Next, Step, Done, Other, vars, Elsewhere, Outside, LstatAndReturn,
       LstatAndProceed, AnswerYes, AnswerNo, Unlink, Rmdir, OpenSub, EnterSub,
       OpenStream, CloseStream, LeaveSub, ReadEntry, OtherCreates,
       OtherUnlinks, OtherChmods, TypeInv, TypeOK
  <2>. QED
    BY <2>1
<1>. QED
  BY <1>1, <1>2, <1>3

(* Only rm() removes, and what it removes is the entry of its frame.       *)
LEMMA Removes ==
  ASSUME TypeInv, [Next]_vars
  PROVE  \/ removed' = removed
         \/ /\ pc \in {"unlink", "rmdir"}
            /\ removed' = removed \cup {<<cwd, Top.base>>}
            /\ UNCHANGED confirmed
BY DEF Next, Step, Done, Other, vars, hist, Elsewhere,
       RefuseOperand, StartOperand, FinishOperand, Exit, LstatAndReturn,
       LstatAndProceed, AnswerYes, AnswerNo, Unlink, Rmdir, OpenSub, EnterSub,
       OpenStream, CloseStream, LeaveSub, ReadEntry, OtherCreates,
       OtherUnlinks, OtherChmods

LEMMA NextBelow ==
  ASSUME TypeInv, TreeInv, CwdInv, BelowInv, [Next]_vars
  PROVE  BelowInv'
<1>. SUFFICES ASSUME ~strayed' PROVE BelowInv'
  BY DEF BelowInv
<1>1. ~strayed
  BY StrayedStays
<1>2. OperandFrame /\ DownInv /\ RemovesOnlyBelowOperands
  BY <1>1 DEF BelowInv
<1>3. OperandFrame' /\ DownInv'
  BY <1>1, <1>2, NextOperandFrame, NextDown
<1>4. /\ args' = args
      /\ \A i, d, n : BelowOperand(i, d, n)' <=> BelowOperand(i, d, n)
  BY CommandUnchanged DEF BelowOperand, Intended
<1>5. CASE removed' = removed
  BY <1>1, <1>2, <1>3, <1>4, <1>5 DEF BelowInv, RemovesOnlyBelowOperands
<1>6. CASE pc \in {"unlink", "rmdir"} /\ removed' = removed \cup {<<cwd, Top.base>>}
  <2>1. cwd = Top.dirfd /\ stack # <<>>
    BY <1>1, <1>6, StackFacts DEF CwdInv, CwdFollowsTraversal, Outside, InSub
  <2>2. idx \in DOMAIN args /\ BelowOperand(idx, Top.dirfd, Top.base)
    BY <1>2, <1>6, <2>1, StackFacts DEF OperandFrame, DownInv, Outside
  <2>3. \A e \in removed' : \E i \in DOMAIN args' : BelowOperand(i, e[1], e[2])'
    BY <1>1, <1>2, <1>4, <1>6, <2>1, <2>2 DEF RemovesOnlyBelowOperands
  <2>. QED
    BY <1>3, <2>3 DEF BelowInv, RemovesOnlyBelowOperands
<1>. QED
  BY <1>5, <1>6, Removes

LEMMA OutsideRests ==
  ASSUME TypeInv, [Next]_vars, pc \in Outside,
         ~(RefuseOperand \/ StartOperand \/ FinishOperand \/ Exit)
  PROVE  stack' = stack /\ stack = <<>> /\ UNCHANGED <<idx, pc, oprc, err, hist>>
BY DEF Next, Step, Done, Other, vars, hist, Elsewhere, Outside, LstatAndReturn,
   LstatAndProceed, AnswerYes, AnswerNo, Unlink, Rmdir, OpenSub, EnterSub,
   OpenStream, CloseStream, LeaveSub, ReadEntry, OtherCreates,
   OtherUnlinks, OtherChmods, TypeInv, TypeOK

LEMMA StackGrowsByOne ==
  ASSUME TypeInv, [Next]_vars, pc \notin Outside
  PROVE  Len(stack') <= Len(stack) + 1
<1>0. Len(stack) \in Nat /\ TypeInv'
  BY StackFacts, NextType
<1>1. stack' \in Seq(Frames) /\ Len(stack') \in Nat /\ DOMAIN stack' = 1..Len(stack')
  BY <1>0 DEF TypeInv, TypeOK
<1>2. SUFFICES ASSUME Len(stack') > Len(stack) + 1 PROVE FALSE
  BY <1>0, <1>1
<1>3. Len(stack') \in DOMAIN stack' /\ Len(stack') \notin DOMAIN stack
  <2>1. stack \in Seq(Frames)
    BY StackFacts
  <2>. QED
    BY <1>0, <1>1, <1>2, <2>1
<1>. QED
  BY <1>0, <1>1, <1>2, <1>3, FrameStep

LEMMA BelowInvariant == Spec => [](TreeInv /\ BelowInv)
<1>1. Init => TreeInv /\ BelowInv
  BY DEF Init, TreeInv, BelowInv, OperandFrame, DownInv, RemovesOnlyBelowOperands
<1>. QED
  BY <1>1, NextTree, NextBelow, TypeInvariant, CwdInvariant, PTL DEF Spec

(* rm removes nothing that is not named by an operand or below one, in any *)
(* tree and whatever other processes do to it, until an fchdir() fails.    *)
THEOREM RemovesBelowOperands == Spec => []RemovesOnlyBelowOperands
<1>1. BelowInv => RemovesOnlyBelowOperands
  BY DEF BelowInv, RemovesOnlyBelowOperands
<1>. QED
  BY <1>1, BelowInvariant, PTL

-----------------------------------------------------------------------------
(* Prompts.                                                                *)

(* Nothing but a prompt answered "yes" lets an rm() call past its prompts. *)
LEMMA PastPrompt ==
  ASSUME TypeInv, [Next]_vars, Given("i"), ~Given("f"), pc \in Asking, pc' \notin Asking
  PROVE  AnswerYes \/ LstatAndReturn \/ AnswerNo
BY DEF Next, Step, Done, Other, vars, Elsewhere, Asking, ShouldPrompt,
       RefuseOperand, StartOperand, FinishOperand, Exit, AtOperand,
       LstatAndProceed, Unlink, Rmdir, OpenSub, EnterSub,
       OpenStream, CloseStream, LeaveSub, ReadEntry, OtherCreates,
       OtherUnlinks, OtherChmods

LEMMA ConfirmedGrows == [Next]_vars => confirmed \subseteq confirmed'
BY DEF Next, Step, Done, Other, vars, hist, Elsewhere,
       RefuseOperand, StartOperand, FinishOperand, Exit, LstatAndReturn,
       LstatAndProceed, AnswerYes, AnswerNo, Unlink, Rmdir, OpenSub, EnterSub,
       OpenStream, CloseStream, LeaveSub, ReadEntry, OtherCreates,
       OtherUnlinks, OtherChmods

LEMMA NextConfirm ==
  ASSUME TypeInv, CwdInv, ConfirmInv, [Next]_vars
  PROVE  ConfirmInv'
<1>. SUFFICES ASSUME Given("i")', ~Given("f")', ~strayed' PROVE ConfirmInv'
  BY DEF ConfirmInv
<1>1. Given("i") /\ ~Given("f") /\ ~strayed
  <2>1. flags' = flags
    BY CommandUnchanged
  <2>2. ~strayed
    BY StrayedStays
  <2>. QED
    BY <2>1, <2>2 DEF Given
<1>2. /\ removed \subseteq confirmed
      /\ \A k \in DOMAIN stack : k < Len(stack) \/ pc \notin Asking => FrameConfirmed(k)
  BY <1>1 DEF ConfirmInv
<1>3. removed' \subseteq confirmed'
  <2>1. CASE pc \in {"unlink", "rmdir"}
    <3>1. cwd = Top.dirfd /\ pc \notin Outside /\ pc \notin Asking
      BY <1>1, <2>1 DEF CwdInv, CwdFollowsTraversal, Outside, InSub, Asking
    <3>2. <<cwd, Top.base>> \in confirmed
      BY <1>2, <3>1, StackFacts DEF FrameConfirmed
    <3>. QED
      BY <1>2, <3>2, Removes, ConfirmedGrows
  <2>2. CASE pc \notin {"unlink", "rmdir"}
    BY <1>2, <2>2, Removes, ConfirmedGrows
  <2>. QED
    BY <2>1, <2>2
<1>4. ASSUME NEW k \in DOMAIN stack', k < Len(stack') \/ pc' \notin Asking
      PROVE  FrameConfirmed(k)'
  <2>1. CASE RefuseOperand \/ StartOperand \/ FinishOperand \/ Exit
    <3>1. StartOperand /\ k = 1 /\ Len(stack') = 1
      BY <2>1, OperandSteps
    <3>2. pc' = "lstat"
      BY <3>1 DEF StartOperand
    <3>. QED
      BY <1>4, <3>1, <3>2 DEF Asking
  <2>2. CASE pc \notin Outside
    <3>0. /\ stack \in Seq(Frames) /\ Len(stack) \in Nat /\ Len(stack) >= 1
          /\ Top = stack[Len(stack)] /\ DOMAIN stack = 1..Len(stack)
      BY <2>2, StackFacts
    <3>1. CASE k \in DOMAIN stack /\ SameCall(stack'[k], stack[k]) /\ FrameConfirmed(k)
      BY <3>1, ConfirmedGrows DEF FrameConfirmed, SameCall
    <3>2. CASE k \in DOMAIN stack /\ SameCall(stack'[k], stack[k]) /\ ~FrameConfirmed(k)
      <4>1. k = Len(stack) /\ pc \in Asking
        BY <1>2, <3>0, <3>2
      <4>2. CASE LstatAndReturn \/ AnswerNo
        <5>1. stack' = <<>> \/ Len(stack') = Len(stack) - 1
          BY <4>2, Returning, ReturnStep
        <5>. QED
          <6>1. TypeInv'
            BY NextType
          <6>2. k <= Len(stack') /\ stack' # <<>>
            BY <6>1 DEF TypeInv, TypeOK
          <6>3. Len(stack') = k - 1
            BY <4>1, <5>1, <6>2
          <6>4. k \in Nat
            BY <3>0, <4>1
          <6>5. FALSE
            BY <6>2, <6>3, <6>4
          <6>. QED
            BY <6>5
      <4>3. CASE AnswerYes
        <5>1. cwd = Top.dirfd
          BY <1>1, <4>3 DEF AnswerYes, CwdInv, CwdFollowsTraversal, Outside, InSub
        <5>2. <<stack[k].dirfd, stack[k].base>> \in confirmed'
          BY <3>0, <4>1, <4>3, <5>1 DEF AnswerYes
        <5>. QED
          BY <3>2, <5>2 DEF FrameConfirmed, SameCall
      <4>4. CASE pc' \in Asking
        <5>1. k < Len(stack')
          BY <1>4, <4>4
        <5>2. Len(stack') = Len(stack)
          <6>1. CASE LstatAndProceed \/ AnswerYes \/ Other \/ UNCHANGED vars
            BY <6>1 DEF LstatAndProceed, AnswerYes, Other, OtherCreates, OtherUnlinks,
              OtherChmods, vars
          <6>2. CASE LstatAndReturn \/ AnswerNo
            <7>1. pc' \in {"restore", "readdir"}
              BY <6>2, Returning, ReturnStep
            <7>. QED
              BY <4>4, <7>1 DEF Asking
          <6>. QED
            BY <4>1, <6>1, <6>2 DEF Next, Step, Done, Asking, RefuseOperand, StartOperand,
              FinishOperand, Exit, AtOperand, Unlink, Rmdir, OpenSub, EnterSub, OpenStream,
              CloseStream, LeaveSub, ReadEntry
        <5>. QED
          BY <3>0, <4>1, <5>1, <5>2
      <4>. QED
        BY <1>1, <4>1, <4>2, <4>3, <4>4, PastPrompt
    <3>3. CASE k = Len(stack) + 1 /\ pc' = "lstat"
      <4>1. Len(stack') <= k
        <5>1. Len(stack') <= Len(stack) + 1
          BY <2>2, <3>0, StackGrowsByOne
        <5>. QED
          BY <3>3, <5>1
      <4>. QED
        BY <1>4, <3>0, <3>3, <4>1, NextType DEF Asking, TypeInv, TypeOK
    <3>. QED
      BY <2>2, <3>1, <3>2, <3>3, FrameStep
  <2>3. CASE pc \in Outside /\ ~(RefuseOperand \/ StartOperand \/ FinishOperand \/ Exit)
    <3>1. stack' = <<>>
      BY <2>3, OutsideRests
    <3>. QED
      BY <1>4, <3>1
  <2>. QED
    BY <2>1, <2>2, <2>3
<1>. QED
  BY <1>1, <1>3, <1>4 DEF ConfirmInv

LEMMA ConfirmInvariant == Spec => []ConfirmInv
<1>1. Init => ConfirmInv
  BY DEF Init, ConfirmInv
<1>. QED
  BY <1>1, NextConfirm, TypeInvariant, CwdInvariant, PTL DEF Spec

(* Under -i without -f nothing is removed that a prompt was not answered   *)
(* "yes" for, at any depth, until an fchdir() back fails.                  *)
THEOREM RemovesConfirmed == Spec => []ConfirmedBeforeRemoved
<1>1. ConfirmInv => ConfirmedBeforeRemoved
  BY DEF ConfirmInv, ConfirmedBeforeRemoved
<1>. QED
  BY <1>1, ConfirmInvariant, PTL

-----------------------------------------------------------------------------
(* The exit status.                                                        *)

LEMMA ReturnRc ==
  ASSUME TypeInv, pc \notin Outside, NEW rc \in 0..1, Return(rc)
  PROVE  \/ Len(stack) = 1 /\ pc' = "restore" /\ oprc' = rc
         \/ /\ Len(stack) > 1 /\ Len(stack) - 1 \in DOMAIN stack'
            /\ stack'[Len(stack) - 1].rc = BitOr(stack[Len(stack) - 1].rc, rc)
            /\ \A k \in 1..(Len(stack) - 2) : k \in DOMAIN stack' /\ stack'[k] = stack[k]
<1>0. Len(stack) \in Nat /\ Len(stack) >= 1 /\ stack \in Seq(Frames)
  BY StackFacts
<1>1. CASE Len(stack) = 1
  BY <1>1 DEF Return
<1>2. CASE Len(stack) > 1
  <2>0. Len(stack) # 1
    <3>1. PICK l \in Nat : l = Len(stack)
      BY <1>0
    <3>2. l > 1
      BY <1>2, <3>1
    <3>3. l # 1
      BY <3>2
    <3>. QED
      BY <3>1, <3>3
  <2>. DEFINE n == Len(stack) - 1
              c == stack[n]
              g == [c EXCEPT !.rc = BitOr(@, rc)]
  <2>1. n \in 1..Len(stack) /\ n \in Nat
    BY <1>0, <1>2
  <2>2. c \in Frames
    BY <1>0, <2>1
  <2>3. BitOr(c.rc, rc) \in 0..1
    BY <2>2, FrameFields, BitOrType
  <2>4. g \in Frames /\ g.rc = BitOr(c.rc, rc)
    BY <2>2, <2>3, FrameFields DEF Frames
  <2>6. stack' = [Front(stack) EXCEPT ![Len(stack) - 1] = g]
    BY <2>0, Zenon DEF Return
  <2>. HIDE DEF g
  <2>7. /\ stack' \in Seq(Frames) /\ Len(stack') = n /\ Last(stack') = g
        /\ \A k \in 1..(Len(stack) - 2) : stack'[k] = stack[k]
    BY <1>0, <1>2, <2>4, <2>6, PopFacts
  <2>8. DOMAIN stack' = 1..n /\ stack'[n] = g
    BY <2>7 DEF Last
  <2>9. \A k \in 1..(Len(stack) - 2) : k \in 1..n
    BY <1>0
  <2>10. Len(stack) - 1 \in DOMAIN stack'
    BY <2>1, <2>8, <1>0, <1>2
  <2>11. stack'[Len(stack) - 1].rc = BitOr(stack[Len(stack) - 1].rc, rc)
    BY <2>4, <2>8
  <2>12. \A k \in 1..(Len(stack) - 2) : k \in DOMAIN stack' /\ stack'[k] = stack[k]
    BY <2>7, <2>8, <2>9, Zenon
  <2>. QED
    BY <1>2, <2>10, <2>11, <2>12, Zenon
<1>3. Len(stack) = 1 \/ Len(stack) > 1
  <2>1. \A n \in Nat : n >= 1 => n = 1 \/ n > 1
    OBVIOUS
  <2>. QED
    BY <1>0, <2>1
<1>. QED
  BY <1>1, <1>2, <1>3, Zenon

LEMMA ReturnKeeps ==
  ASSUME TypeInv, pc \notin Outside, NEW rc \in 0..1, Return(rc),
         Top.rc = 1 => rc = 1, Failing
  PROVE  Failing'
<1>0. /\ stack \in Seq(Frames) /\ Len(stack) \in Nat /\ Len(stack) >= 1
      /\ Top = stack[Len(stack)] /\ DOMAIN stack = 1..Len(stack)
  BY StackFacts
<1>1. PICK k \in DOMAIN stack : stack[k].rc = 1
  BY DEF Failing, Outside
<1>2. CASE Len(stack) = 1
  <2>1. k = 1
    BY <1>0, <1>1, <1>2
  <2>2. rc = 1
    BY <1>0, <1>1, <1>2, <2>1
  <2>3. pc' = "restore" /\ oprc' = rc
    BY <1>2, ReturnRc
  <2>. QED
    BY <2>2, <2>3 DEF Failing
<1>3. CASE Len(stack) > 1 /\ k \in {Len(stack), Len(stack) - 1}
  <2>1. /\ Len(stack) - 1 \in DOMAIN stack' /\ Len(stack) - 1 \in DOMAIN stack
        /\ stack'[Len(stack) - 1].rc = BitOr(stack[Len(stack) - 1].rc, rc)
    BY <1>0, <1>3, ReturnRc
  <2>2. stack[Len(stack) - 1] \in Frames
    BY <1>0, <2>1
  <2>3. stack[Len(stack) - 1].rc \in 0..1
    BY <2>2, FrameFields
  <2>4. stack[Len(stack) - 1].rc = 1 \/ rc = 1
    BY <1>0, <1>1, <1>3
  <2>5. stack'[Len(stack) - 1].rc = 1
    BY <2>1, <2>3, <2>4 DEF BitOr
  <2>. QED
    BY <2>1, <2>5 DEF Failing
<1>4. CASE Len(stack) > 1 /\ k \notin {Len(stack), Len(stack) - 1}
  <2>1. k \in 1..(Len(stack) - 2)
    BY <1>0, <1>4
  <2>2. k \in DOMAIN stack' /\ stack'[k] = stack[k]
    <3>1. Len(stack) # 1
      BY <1>0, <1>4
    <3>2. \A j \in 1..(Len(stack) - 2) : j \in DOMAIN stack' /\ stack'[j] = stack[j]
      BY <3>1, ReturnRc, Zenon
    <3>. QED
      BY <2>1, <3>2
  <2>. QED
    BY <1>1, <2>2 DEF Failing
<1>. QED
  BY <1>0, <1>2, <1>3, <1>4

(* Every directory step keeps each frame's status, or sets the top one's.  *)
LEMMA DirectoryRc ==
  ASSUME TypeInv, OpenSub \/ EnterSub \/ OpenStream \/ CloseStream \/ LeaveSub
  PROVE  /\ DOMAIN stack' = DOMAIN stack
         /\ \A k \in DOMAIN stack : stack[k].rc = 1 => stack'[k].rc = 1
         /\ LeaveSub => strayed' = strayed \/ Failing'
<1>0. pc \notin Outside
  BY DEF OpenSub, EnterSub, OpenStream, CloseStream, LeaveSub, Outside
<1>1. /\ stack \in Seq(Frames) /\ Len(stack) \in Nat /\ Len(stack) >= 1
      /\ Top = stack[Len(stack)] /\ Top \in Frames /\ DOMAIN stack = 1..Len(stack)
  BY <1>0, StackFacts
<1>2. \/ stack' = stack
      \/ \E f : SetTop(f) /\ f.rc \in {Top.rc, 1}
  <2>1. [Top EXCEPT !.rc = 1].rc = 1
    BY <1>1 DEF Frames
  <2>2. \A d : [Top EXCEPT !.sub = d].rc = Top.rc
    BY <1>1 DEF Frames
  <2>3. \A S : [Top EXCEPT !.must = S].rc = Top.rc
    BY <1>1 DEF Frames
  <2>. QED
    BY <2>1, <2>2, <2>3, Zenon DEF OpenSub, EnterSub, OpenStream, CloseStream, LeaveSub
<1>3. \A f : SetTop(f) => /\ DOMAIN stack' = DOMAIN stack /\ stack'[Len(stack)] = f
                          /\ \A k \in DOMAIN stack : k # Len(stack) => stack'[k] = stack[k]
  BY <1>1 DEF SetTop
<1>4. DOMAIN stack' = DOMAIN stack /\ \A k \in DOMAIN stack : stack[k].rc = 1 => stack'[k].rc = 1
  BY <1>1, <1>2, <1>3
<1>5. ASSUME LeaveSub, strayed' # strayed PROVE Failing'
  <2>. DEFINE failed == [Top EXCEPT !.rc = 1]
  <2>1. SetTop(failed)
    BY <1>5 DEF LeaveSub
  <2>2. failed.rc = 1
    BY <1>1 DEF Frames
  <2>. HIDE DEF failed
  <2>3. stack'[Len(stack)].rc = 1 /\ Len(stack) \in DOMAIN stack'
    BY <1>1, <1>3, <2>1, <2>2
  <2>. QED
    BY <2>3 DEF Failing
<1>. QED
  BY <1>4, <1>5

LEMMA ErrSteps ==
  ASSUME [Next]_vars
  PROVE  \/ err' \in {err, 2}
         \/ RefuseOperand /\ err' = BitOr(err, 1)
         \/ FinishOperand /\ err' \in {BitOr(err, 1), BitOr(err, oprc)}
BY DEF Next, Step, Done, Other, vars, Elsewhere,
       RefuseOperand, StartOperand, FinishOperand, Exit, LstatAndReturn,
       LstatAndProceed, AnswerYes, AnswerNo, Unlink, Rmdir, OpenSub, EnterSub,
       OpenStream, CloseStream, LeaveSub, ReadEntry, OtherCreates,
       OtherUnlinks, OtherChmods

LEMMA ErrGrows == [Next]_vars /\ err' = 0 => err = 0
BY ErrSteps DEF BitOr

LEMMA Strays ==
  ASSUME [Next]_vars, strayed' # strayed
  PROVE  LeaveSub \/ (FinishOperand /\ err' # 0)
<1>1. LeaveSub \/ FinishOperand
  BY DEF Next, Step, Done, Other, vars, hist, Elsewhere,
       RefuseOperand, StartOperand, Exit, LstatAndReturn,
       LstatAndProceed, AnswerYes, AnswerNo, Unlink, Rmdir, OpenSub, EnterSub,
       OpenStream, CloseStream, ReadEntry, OtherCreates, OtherUnlinks, OtherChmods
<1>2. FinishOperand => err' = BitOr(err, 1)
  BY DEF FinishOperand
<1>3. FinishOperand => err' # 0
  BY <1>2 DEF BitOr
<1>. QED
  BY <1>1, <1>3

(* What rm() returns passes a failure on.                                  *)
LEMMA ReturnsFailure ==
  ASSUME TypeInv, StrayInv, LstatAndReturn \/ AnswerNo \/ Unlink \/ Rmdir
  PROVE  \E rc \in 0..1 : Return(rc) /\ (Top.rc = 1 => rc = 1)
<1>1. CASE LstatAndReturn
  <2>1. Top.rc = 0 /\ (Return(0) \/ Return(1))
    BY <1>1 DEF LstatAndReturn, StrayInv
  <2>. QED
    BY <2>1
<1>2. CASE AnswerNo \/ Unlink \/ Rmdir
  <2>1. Top.rc \in 0..1
    BY <1>2, Returning
  <2>2. Return(Top.rc) \/ Return(1)
    BY <1>2 DEF AnswerNo, Unlink, Rmdir
  <2>. QED
    BY <2>1, <2>2
<1>. QED
  BY <1>1, <1>2

LEMMA FailingStep ==
  ASSUME TypeInv, StrayInv, [Next]_vars, Failing, err = 0, err' = 0
  PROVE  Failing'
<1>1. CASE LstatAndReturn \/ AnswerNo \/ Unlink \/ Rmdir
  BY <1>1, Returning, ReturnsFailure, ReturnKeeps
<1>2. CASE OpenSub \/ EnterSub \/ OpenStream \/ CloseStream \/ LeaveSub
  <2>1. PICK k \in DOMAIN stack : stack[k].rc = 1
    BY <1>2 DEF Failing, OpenSub, EnterSub, OpenStream, CloseStream, LeaveSub
  <2>. QED
    BY <1>2, <2>1, DirectoryRc DEF Failing
<1>3. ASSUME NEW n \in AnyName, ReadEntry(n) PROVE Failing'
  <2>1. PICK k \in DOMAIN stack : stack[k].rc = 1
    BY <1>3 DEF Failing, ReadEntry
  <2>2. /\ stack \in Seq(Frames) /\ Len(stack) \in Nat /\ Len(stack) >= 1
        /\ Top = stack[Len(stack)] /\ Top \in Frames /\ DOMAIN stack = 1..Len(stack)
    BY <1>3, StackFacts DEF ReadEntry, Outside
  <2>. DEFINE f == [Top EXCEPT !.seen = @ \cup {n}]
  <2>3. f.rc = Top.rc /\ f \in Frames
    BY <2>2 DEF Frames
  <2>4. stack' = Append([stack EXCEPT ![Len(stack)] = f], Call(Top.sub, n))
    BY <1>3 DEF ReadEntry
  <2>. HIDE DEF f
  <2>. DEFINE r == [stack EXCEPT ![Len(stack)] = f]
  <2>5. r \in Seq(Frames) /\ DOMAIN r = DOMAIN stack /\ r[k].rc = 1
    BY <2>1, <2>2, <2>3
  <2>. HIDE DEF r
  <2>6. stack' = Append(r, Call(Top.sub, n))
    BY <2>4 DEF r
  <2>7. k \in DOMAIN stack' /\ stack'[k] = r[k]
    BY <2>1, <2>2, <2>5, <2>6
  <2>. QED
    BY <2>5, <2>7 DEF Failing
<1>4. CASE stack' = stack /\ (pc = "restore" => pc' = pc /\ oprc' = oprc)
  BY <1>4 DEF Failing
<1>5. CASE RefuseOperand \/ StartOperand \/ FinishOperand \/ Exit
  <2>1. stack = <<>>
    BY <1>5, OperandSteps
  <2>2. pc = "restore" /\ oprc = 1
    BY <2>1 DEF Failing
  <2>. QED
    BY <1>5, <2>2 DEF RefuseOperand, StartOperand, FinishOperand, Exit, AtOperand, BitOr
<1>. QED
  BY <1>1, <1>2, <1>3, <1>4, <1>5
  DEF Next, Step, Done, Other, OtherCreates, OtherUnlinks, OtherChmods, Elsewhere,
    LstatAndProceed, AnswerYes, vars

LEMMA NextStray == TypeInv /\ StrayInv /\ [Next]_vars => StrayInv'
<1>. SUFFICES ASSUME TypeInv, StrayInv, [Next]_vars PROVE StrayInv'
  OBVIOUS
<1>1. ASSUME strayed', err' = 0 PROVE Failing'
  <2>1. err = 0
    BY <1>1, ErrGrows
  <2>2. CASE strayed' = strayed
    BY <1>1, <2>1, <2>2, FailingStep DEF StrayInv
  <2>3. CASE strayed' # strayed
    BY <1>1, <2>3, Strays, DirectoryRc
  <2>. QED
    BY <2>2, <2>3
<1>2. ASSUME pc' = "lstat" PROVE Top'.rc = 0
  <2>1. CASE StartOperand
    BY <2>1, OperandSteps DEF Call
  <2>2. ASSUME NEW n \in AnyName, ReadEntry(n) PROVE Top'.rc = 0
    BY <2>2, ReadEntryStep DEF Call
  <2>3. CASE Other \/ UNCHANGED vars
    BY <1>2, <2>3 DEF Other, OtherCreates, OtherUnlinks, OtherChmods, vars, StrayInv, Top
  <2>4. ASSUME LstatAndReturn \/ AnswerNo \/ Unlink \/ Rmdir PROVE FALSE
    BY <1>2, <2>4, Returning, ReturnStep
  <2>. QED
    BY <1>2, <2>1, <2>2, <2>3, <2>4 DEF Next, Step, Done, RefuseOperand, FinishOperand, Exit,
      AtOperand, LstatAndProceed, AnswerYes, OpenSub, EnterSub, OpenStream, CloseStream, LeaveSub
<1>. QED
  BY <1>1, <1>2 DEF StrayInv

LEMMA StrayInvariant == Spec => []StrayInv
<1>1. Init => StrayInv
  BY DEF Init, StrayInv
<1>. QED
  BY <1>1, NextStray, TypeInvariant, PTL DEF Spec

LEMMA RecordsGrow == [Next]_vars => removed \subseteq removed' /\ declined' \in {declined, TRUE}
BY DEF Next, Step, Done, Other, vars, hist, Elsewhere,
       RefuseOperand, StartOperand, FinishOperand, Exit, LstatAndReturn,
       LstatAndProceed, AnswerYes, AnswerNo, Unlink, Rmdir, OpenSub, EnterSub,
       OpenStream, CloseStream, LeaveSub, ReadEntry, OtherCreates,
       OtherUnlinks, OtherChmods

(* An operand's rm() that returns 0 without a "no" has removed the operand.*)
LEMMA OperandGone ==
  ASSUME TypeInv, CwdInv, StrayInv, OperandFrame, err = 0, [Next]_vars,
         LstatAndReturn \/ AnswerNo \/ Unlink \/ Rmdir,
         pc' = "restore", oprc' = 0, ~declined'
  PROVE  idx \in DOMAIN args /\ <<Intended(idx), args[idx].base>> \in removed'
<1>1. PICK rc \in 0..1 : Return(rc) /\ (Top.rc = 1 => rc = 1)
  BY ReturnsFailure
<1>2. pc \notin Outside /\ Top.rc \in 0..1
  BY Returning
<1>3. Len(stack) = 1 /\ rc = 0 /\ stack # <<>>
  BY <1>1, <1>2, ReturnRc, ReturnStep, StackFacts
<1>4. Top = stack[1] /\ Top.rc = 0 /\ DOMAIN stack = {1}
  BY <1>1, <1>2, <1>3, StackFacts
<1>5. ~strayed
  BY <1>2, <1>4 DEF StrayInv, Failing, Outside
<1>6. /\ idx \in DOMAIN args /\ args[idx].base \in Names
      /\ Top.dirfd = Intended(idx) /\ Top.base = args[idx].base
  BY <1>3, <1>4 DEF OperandFrame
<1>7. ~LstatAndReturn
  <2>. SUFFICES ASSUME LstatAndReturn PROVE FALSE
    OBVIOUS
  <2>1. ~HaveDots(Top.base)
    BY <1>6, TreeAssumption DEF HaveDots
  <2>2. Return(1)
    BY <2>1 DEF LstatAndReturn
  <2>. QED
    BY <1>3, <2>2 DEF Return
<1>8. ~AnswerNo
  BY DEF AnswerNo
<1>9. cwd = Top.dirfd
  BY <1>5, <1>7, <1>8 DEF Unlink, Rmdir, CwdInv, CwdFollowsTraversal, Outside, InSub
<1>10. removed' = removed \cup {<<cwd, Top.base>>}
  BY <1>3, <1>7, <1>8 DEF Unlink, Rmdir, Return
<1>. QED
  BY <1>6, <1>9, <1>10

LEMMA NextStatus ==
  ASSUME TypeInv, TreeInv, CwdInv, StrayInv, StatusInv, [Next]_vars
  PROVE  StatusInv'
<1>. SUFFICES ASSUME err' = 0 PROVE StatusInv'
  BY DEF StatusInv
<1>1. /\ err = 0 /\ OperandFrame
      /\ ~declined => /\ \A i \in DOMAIN args : i < idx => Gone(i)
                      /\ pc = "restore" /\ oprc = 0 => idx \in DOMAIN args /\ Gone(idx)
      /\ pc = "done" => idx > Len(args)
  BY ErrGrows DEF StatusInv
<1>2. args' = args /\ (\A i : Intended(i)' = Intended(i)) /\ (\A i : Gone(i) => Gone(i)')
  BY CommandUnchanged, RecordsGrow DEF Intended, Gone
<1>3. OperandFrame'
  <2>1. StartOperand => ~strayed
    <3>1. StartOperand => stack = <<>> /\ pc = "operand"
      BY OperandSteps DEF StartOperand, AtOperand
    <3>. QED
      BY <1>1, <3>1 DEF StrayInv, Failing
  <2>. QED
    BY <1>1, <2>1, NextOperandFrame
<1>4. ASSUME ~declined', NEW i \in DOMAIN args', i < idx'
      PROVE  Gone(i)'
  <2>1. ~declined /\ i \in DOMAIN args /\ idx \in Nat /\ args \in Seq(Operands)
    <3>1. i \in DOMAIN args
      BY <1>2, <1>4
    <3>2. ~declined
      BY <1>4, RecordsGrow
    <3>. QED
      BY <3>1, <3>2, RmAssumption DEF TypeInv, TypeOK
  <2>2. CASE i < idx
    BY <1>1, <1>2, <2>1, <2>2
  <2>3. CASE ~(i < idx)
    <3>1. FinishOperand /\ idx' = idx + 1
      <4>1. idx' # idx
        BY <1>4, <2>3
      <4>2. pc \in Outside
        BY <4>1, WithinOperand
      <4>3. FinishOperand \/ RefuseOperand
        BY <4>1, <4>2, OutsideRests DEF StartOperand, Exit
      <4>. QED
        BY <4>3 DEF FinishOperand, RefuseOperand, BitOr
    <3>2. i = idx
      <4>1. i \in Nat
        BY <2>1
      <4>. QED
        BY <1>4, <2>1, <2>3, <3>1, <4>1
    <3>3. pc = "restore" /\ oprc = 0
      <4>1. oprc \in 0..1
        BY DEF TypeInv, TypeOK
      <4>. QED
        BY <1>1, <3>1, <4>1 DEF FinishOperand, BitOr
    <3>. QED
      BY <1>1, <1>2, <2>1, <3>2, <3>3
  <2>. QED
    BY <2>2, <2>3
<1>5. ASSUME ~declined', pc' = "restore", oprc' = 0
      PROVE  idx' \in DOMAIN args' /\ Gone(idx)'
  <2>1. ~declined
    BY <1>5, RecordsGrow
  <2>2. CASE pc = "restore"
    <3>1. idx' = idx /\ oprc = 0
      BY <1>5, <2>2, OutsideRests DEF Outside, RefuseOperand, StartOperand, FinishOperand,
        Exit, AtOperand
    <3>. QED
      BY <1>1, <1>2, <2>1, <2>2, <3>1, RecordsGrow DEF Gone, Intended
  <2>3. CASE LstatAndReturn \/ AnswerNo \/ Unlink \/ Rmdir
    <3>1. idx \in DOMAIN args /\ <<Intended(idx), args[idx].base>> \in removed'
      BY <1>1, <1>5, <2>3, OperandGone
    <3>2. idx' = idx
      BY <2>3, Returning, WithinOperand
    <3>. QED
      BY <1>2, <3>1, <3>2 DEF Gone, Intended
  <2>. QED
    BY <1>5, <2>2, <2>3 DEF Next, Step, Done, Other, OtherCreates, OtherUnlinks, OtherChmods,
      Elsewhere, RefuseOperand, StartOperand, FinishOperand, Exit, AtOperand, LstatAndProceed,
      AnswerYes, OpenSub, EnterSub, OpenStream, CloseStream, LeaveSub, ReadEntry, vars
<1>6. ASSUME pc' = "done" PROVE idx' > Len(args')
  <2>1. pc \in Outside
    <3>1. ASSUME LstatAndReturn \/ AnswerNo \/ Unlink \/ Rmdir PROVE FALSE
      BY <1>6, <3>1, Returning, ReturnStep
    <3>. QED
      BY <1>6, <3>1 DEF Next, Step, Done, Other, OtherCreates, OtherUnlinks, OtherChmods,
        Elsewhere, Outside, RefuseOperand, StartOperand, FinishOperand, Exit, AtOperand,
        LstatAndProceed, AnswerYes, OpenSub, EnterSub, OpenStream, CloseStream, LeaveSub,
        ReadEntry, vars
  <2>2. CASE Exit
    BY <2>2 DEF Exit, cmd
  <2>3. CASE ~Exit
    <3>1. pc = "done" /\ idx' = idx
      BY <1>6, <2>1, <2>3, OutsideRests DEF RefuseOperand, StartOperand, FinishOperand, AtOperand
    <3>. QED
      BY <1>1, <1>2, <3>1
  <2>. QED
    BY <2>2, <2>3
<1>. QED
  BY <1>3, <1>4, <1>5, <1>6 DEF StatusInv

LEMMA StatusInvariant == Spec => []StatusInv
<1>1. Init => StatusInv
  <2>. SUFFICES ASSUME Init PROVE StatusInv
    OBVIOUS
  <2>1. \A i \in DOMAIN args : ~(i < idx)
    <3>1. args \in Seq(Operands) /\ idx = 1
      BY RmAssumption DEF Init
    <3>. QED
      BY <3>1
  <2>. QED
    BY <2>1 DEF Init, StatusInv, OperandFrame
<1>. QED
  BY <1>1, NextStatus, TypeInvariant, BelowInvariant, CwdInvariant, StrayInvariant, PTL DEF Spec

(* Exit status 0 means that every operand's own entry was removed, unless  *)
(* the user kept something at a prompt, whatever failed on the way.        *)
THEOREM StatusZeroIsTrue == Spec => []StatusZeroMeansRemoved
<1>1. TypeInv /\ StatusInv => StatusZeroMeansRemoved
  <2>. SUFFICES ASSUME TypeInv, StatusInv, pc = "done", err = 0, ~declined, NEW i \in DOMAIN args
                PROVE  <<Intended(i), args[i].base>> \in removed
    BY DEF StatusZeroMeansRemoved
  <2>1. idx > Len(args) /\ idx \in Nat /\ args \in Seq(Operands)
    BY RmAssumption DEF StatusInv, TypeInv, TypeOK
  <2>2. i < idx
    BY <2>1
  <2>. QED
    BY <2>2 DEF StatusInv, Gone
<1>. QED
  BY <1>1, TypeInvariant, StatusInvariant, PTL

-----------------------------------------------------------------------------
(* The whole hierarchy.                                                    *)

(* Undisturbed, the tree is the one rm found less what it removed, and a   *)
(* directory it removed was empty and stays so.                            *)
AloneInv ==
  others = 0 =>
    /\ \A d \in Dirs, n \in Names :
         tree[d][n] = IF <<d, n>> \in removed THEN NONE ELSE StartTree[d][n]
    /\ \A d \in Dirs, n \in Names :
         <<d, n>> \in removed /\ StartTree[d][n] \in Dirs
           => EntriesOf(tree, StartTree[d][n]) = {}
    /\ mode = FullModes => ~strayed

LEMMA FullFacts ==
  ASSUME mode = FullModes, NEW d \in Dirs
  PROVE  CanEnter(mode, d)
BY DEF FullModes, CanEnter, Nodes, Permissions

LEMMA AloneSteps ==
  ASSUME TypeInv, [Next]_vars, others' = 0
  PROVE  /\ others = 0 /\ mode' = mode
         /\ \/ UNCHANGED <<tree, removed>>
            \/ /\ cwd \in Dirs /\ Top.base \in Names
               /\ removed' = removed \cup {<<cwd, Top.base>>}
               /\ tree' = RemoveEntry(tree, cwd, Top.base)
               /\ \/ tree[cwd][Top.base] \in Leaves
                  \/ /\ tree[cwd][Top.base] \in Dirs
                     /\ EntriesOf(tree, tree[cwd][Top.base]) = {}
<1>0. others \in Nat /\ cwd \in Dirs
  BY DEF TypeInv, TypeOK
<1>1. CASE Unlink \/ Rmdir
  <2>1. others = 0 /\ mode' = mode
    BY <1>1 DEF Unlink, Rmdir
  <2>2. CASE UNCHANGED <<tree, removed>>
    BY <2>1, <2>2
  <2>3. CASE ~UNCHANGED <<tree, removed>>
    <3>1. /\ Top.base \in Names
          /\ removed' = removed \cup {<<cwd, Top.base>>}
          /\ tree' = RemoveEntry(tree, cwd, Top.base)
          /\ \/ Here(Top.base) \in Leaves
             \/ Here(Top.base) \in Dirs /\ EntriesOf(tree, Here(Top.base)) = {}
      BY <1>1, <2>3 DEF Unlink, Rmdir, CanUnlink, CanRmdir
    <3>2. Here(Top.base) \in {NONE, tree[cwd][Top.base]}
      BY <3>1, TreeAssumption DEF Here, Lookup, Dots
    <3>3. Here(Top.base) = tree[cwd][Top.base]
      BY <3>1, <3>2, TreeAssumption DEF Nodes
    <3>. QED
      BY <1>0, <2>1, <3>1, <3>3
  <2>. QED
    BY <2>2, <2>3
<1>2. CASE Other
  BY <1>0, <1>2 DEF Other, OtherCreates, OtherUnlinks, OtherChmods, Elsewhere
<1>3. CASE CloseStream
  <2>1. others = 0
    BY <1>0, <1>3 DEF CloseStream
  <2>. QED
    BY <1>3, <2>1 DEF CloseStream, fs, hist
<1>4. CASE ~Unlink /\ ~Rmdir /\ ~Other /\ ~CloseStream
  BY <1>4 DEF Next, Step, Done, vars, fs, hist,
         RefuseOperand, StartOperand, FinishOperand, Exit, LstatAndReturn,
         LstatAndProceed, AnswerYes, AnswerNo, OpenSub, EnterSub,
         OpenStream, LeaveSub, ReadEntry
<1>. QED
  BY <1>1, <1>2, <1>3, <1>4

LEMMA NextAlone == TypeInv /\ AloneInv /\ [Next]_vars => AloneInv'
<1>. SUFFICES ASSUME TypeInv, AloneInv, [Next]_vars, others' = 0 PROVE AloneInv'
  BY DEF AloneInv
<1>1. others = 0 /\ mode' = mode /\ tree \in Trees
  BY AloneSteps DEF TypeInv, TypeOK
<1>2. /\ \A d \in Dirs, n \in Names :
           tree[d][n] = IF <<d, n>> \in removed THEN NONE ELSE StartTree[d][n]
      /\ \A d \in Dirs, n \in Names :
           <<d, n>> \in removed /\ StartTree[d][n] \in Dirs
             => EntriesOf(tree, StartTree[d][n]) = {}
  BY <1>1 DEF AloneInv
<1>3. mode' = FullModes => ~strayed'
  <2>. SUFFICES ASSUME mode' = FullModes, strayed' PROVE FALSE
    OBVIOUS
  <2>1. mode = FullModes /\ ~strayed
    BY <1>1 DEF AloneInv
  <2>2. LeaveSub \/ FinishOperand
    BY <2>1, Strays
  <2>3. CASE LeaveSub
    <3>1. Top.dirfd \in Dirs
      BY <2>3, StackFacts, FrameFields DEF LeaveSub, Outside
    <3>2. CanEnter(mode, Top.dirfd)
      BY <2>1, <3>1, FullFacts
    <3>. QED
      BY <2>1, <2>3, <3>2 DEF LeaveSub
  <2>4. CASE FinishOperand
    <3>1. olddir \in Dirs
      BY <2>4 DEF FinishOperand, TypeInv, TypeOK
    <3>2. CanEnter(mode, olddir)
      BY <2>1, <3>1, FullFacts
    <3>. QED
      BY <2>1, <2>4, <3>2 DEF FinishOperand
  <2>. QED
    BY <2>2, <2>3, <2>4
<1>4. CASE UNCHANGED <<tree, removed>>
  BY <1>2, <1>3, <1>4 DEF AloneInv, EntriesOf
<1>5. CASE /\ cwd \in Dirs /\ Top.base \in Names
           /\ removed' = removed \cup {<<cwd, Top.base>>}
           /\ tree' = RemoveEntry(tree, cwd, Top.base)
           /\ \/ tree[cwd][Top.base] \in Leaves
              \/ /\ tree[cwd][Top.base] \in Dirs
                 /\ EntriesOf(tree, tree[cwd][Top.base]) = {}
  <2>1. \A d \in Dirs, n \in Names :
          tree'[d][n] = IF d = cwd /\ n = Top.base THEN NONE ELSE tree[d][n]
    BY <1>1, <1>5 DEF RemoveEntry, Trees
  <2>2. \A d \in Dirs, n \in Names :
          <<d, n>> \in removed' <=> <<d, n>> \in removed \/ (d = cwd /\ n = Top.base)
    BY <1>5
  <2>3. ASSUME NEW d \in Dirs, NEW n \in Names
        PROVE  tree'[d][n] = IF <<d, n>> \in removed' THEN NONE ELSE StartTree[d][n]
    <3>1. CASE d = cwd /\ n = Top.base
      BY <2>1, <2>2, <3>1
    <3>2. CASE ~(d = cwd /\ n = Top.base)
      <4>1. tree'[d][n] = tree[d][n] /\ (<<d, n>> \in removed' <=> <<d, n>> \in removed)
        BY <2>1, <2>2, <3>2
      <4>. QED
        BY <1>2, <4>1
    <3>. QED
      BY <3>1, <3>2
  <2>4. \A e \in Dirs : EntriesOf(tree, e) = {} => EntriesOf(tree', e) = {}
    BY <2>1 DEF EntriesOf
  <2>5. StartTree[cwd][Top.base] = tree[cwd][Top.base]
    BY <1>2, <1>5, TreeAssumption DEF Nodes
  <2>6. ASSUME NEW d \in Dirs, NEW n \in Names, <<d, n>> \in removed', StartTree[d][n] \in Dirs
        PROVE  EntriesOf(tree', StartTree[d][n]) = {}
    <3>1. CASE <<d, n>> \in removed
      BY <1>2, <2>4, <2>6, <3>1
    <3>2. CASE d = cwd /\ n = Top.base
      BY <1>5, <2>4, <2>5, <2>6, <3>2, TreeAssumption
    <3>. QED
      BY <2>2, <2>6, <3>1, <3>2
  <2>. QED
    BY <1>3, <2>3, <2>6 DEF AloneInv
<1>. QED
  BY <1>1, <1>4, <1>5, AloneSteps

LEMMA AloneInvariant == Spec => []AloneInv
<1>1. Init => AloneInv
  BY DEF Init, AloneInv
<1>. QED
  BY <1>1, NextAlone, TypeInvariant, PTL DEF Spec

(* A hierarchy whose top entry is gone, each directory of it having been   *)
(* empty when its entry went, is gone to the last entry: SubtreeDirs is    *)
(* the least set of directories closed under StartTree's entries.          *)
LEMMA NothingLeft ==
  ASSUME AloneInv, others = 0, NEW d \in Dirs, NEW n \in Names,
         NEW i \in DOMAIN args, BelowOperand(i, d, n), args[i].base \in Names,
         <<Intended(i), args[i].base>> \in removed
  PROVE  tree[d][n] = NONE
<1>1. /\ \A e \in Dirs, m \in Names :
           tree[e][m] = IF <<e, m>> \in removed THEN NONE ELSE StartTree[e][m]
      /\ \A e \in Dirs, m \in Names :
           <<e, m>> \in removed /\ StartTree[e][m] \in Dirs
             => EntriesOf(tree, StartTree[e][m]) = {}
  BY DEF AloneInv
<1>2. CASE d = Intended(i) /\ n = args[i].base
  BY <1>1, <1>2
<1>3. CASE ~(d = Intended(i) /\ n = args[i].base)
  <2>. DEFINE t == StartTree[Intended(i)][args[i].base]
              Emptied == {e \in Dirs : EntriesOf(tree, e) = {}}
  <2>1. t \in Dirs /\ Intended(i) \in Dirs /\ d \in SubtreeDirs(StartTree, t)
    BY <1>3 DEF BelowOperand
  <2>2. t \in Emptied
    BY <1>1, <2>1
  <2>3. ClosedUnder(StartTree, Emptied)
    <3>. SUFFICES ASSUME NEW p \in Emptied, NEW m \in Names, StartTree[p][m] \in Dirs
                  PROVE  StartTree[p][m] \in Emptied
      BY DEF ClosedUnder
    <3>1. tree[p][m] = NONE
      BY DEF EntriesOf
    <3>2. <<p, m>> \in removed
      BY <1>1, <3>1, TreeAssumption DEF Nodes
    <3>. QED
      BY <1>1, <3>2
  <2>4. Emptied \in SUBSET Dirs
    OBVIOUS
  <2>5. d \in Emptied
    <3>. HIDE DEF Emptied
    <3>. QED
      BY <2>1, <2>2, <2>3, <2>4 DEF SubtreeDirs
  <2>. QED
    BY <2>5 DEF EntriesOf
<1>. QED
  BY <1>2, <1>3

(* When nothing gets in the way of rm -R and its status is 0, every entry  *)
(* at or below an operand is gone, however deep, and nothing else is.      *)
(* That the status is 0 depends on MaxFds being enough for the depth.      *)
THEOREM WholeHierarchyGone == Spec => [](err = 0 => RemovesEverything)
<1>1. /\ TypeInv /\ AloneInv /\ StatusInv /\ StatusZeroMeansRemoved /\ RemovesOnlyBelowOperands
      => (err = 0 => RemovesEverything)
  <2>. SUFFICES ASSUME TypeInv, AloneInv, StatusZeroMeansRemoved, RemovesOnlyBelowOperands,
                       err = 0, pc = "done", Undisturbed, \A i \in DOMAIN args : ProperOperand(i),
                       NEW d \in Dirs, NEW n \in Names
                PROVE  tree[d][n] = IF \E i \in DOMAIN args : BelowOperand(i, d, n)
                                    THEN NONE ELSE StartTree[d][n]
    BY DEF RemovesEverything
  <2>1. others = 0 /\ ~strayed /\ ~declined
    BY DEF Undisturbed, AloneInv
  <2>2. CASE \E i \in DOMAIN args : BelowOperand(i, d, n)
    <3>1. PICK i \in DOMAIN args : BelowOperand(i, d, n)
      BY <2>2
    <3>2. <<Intended(i), args[i].base>> \in removed /\ args[i].base \in Names
      BY <2>1 DEF StatusZeroMeansRemoved, ProperOperand
    <3>. QED
      BY <2>1, <2>2, <3>1, <3>2, NothingLeft
  <2>3. CASE ~\E i \in DOMAIN args : BelowOperand(i, d, n)
    <3>1. <<d, n>> \notin removed
      BY <2>1, <2>3 DEF RemovesOnlyBelowOperands
    <3>. QED
      BY <2>1, <2>3, <3>1 DEF AloneInv
  <2>. QED
    BY <2>2, <2>3
<1>. QED
  BY <1>1, TypeInvariant, AloneInvariant, StatusInvariant, StatusZeroIsTrue,
     RemovesBelowOperands, PTL

-----------------------------------------------------------------------------
(***************************************************************************)
(* The whole hierarchy is removed with status 0.                           *)
(***************************************************************************)
(* Every directory is higher than those in it, and there are descriptors   *)
(* for the operand and for each level of directories below it.             *)
Heights == {h \in [Dirs -> Nat] :
  \A d \in Dirs, n \in Names : StartTree[d][n] \in Dirs => h[StartTree[d][n]] < h[d]}
Room(h, d, k) == 2 * (k + h[d] + 1) <= MaxFds
DirectoryOf(o) ==
  IF o.dirn = "." THEN StartDir ELSE Follow(StartTree[StartDir][o.dirn])
RoomBelow(h) ==
  /\ MaxFds >= 2
  /\ \A a \in ArgLists : \A i \in DOMAIN a :
       LET o == DirectoryOf(a[i])
       IN /\ o \in Dirs /\ a[i].base \in Names
          /\ StartTree[o][a[i].base] \in Dirs
          => Room(h, StartTree[o][a[i].base], 1)

Smooth ==
  /\ Undisturbed /\ Given("R") /\ args # <<>>
  /\ \A i \in DOMAIN args : ProperOperand(i)

(* What is gone was below an operand that rm has come to.                  *)
RemovedSoFar ==
  \A e \in removed : \E j \in DOMAIN args :
    /\ j < idx \/ (j = idx /\ pc # "operand")
    /\ BelowOperand(j, e[1], e[2])

(* Of the entries that readdir() is to return, those are left that it has  *)
(* not returned, and the one that is being worked on.                      *)
ReadingInv(k) ==
  /\ EntriesOf(tree, stack[k].sub) \subseteq stack[k].must
  /\ \A n \in stack[k].must \cap Names :
       tree[stack[k].sub][n] # NONE <=>
         n \notin stack[k].seen \/ (k < Len(stack) /\ n = stack[k + 1].base)
  /\ k < Len(stack) => stack[k + 1].base \in stack[k].seen
FrameInv(h, k) ==
  /\ stack[k].rc = 0
  /\ stack[k].base \notin Names => pc = "lstat" /\ k = Len(stack)
  /\ stack[k].base \in Names =>
       /\ tree[stack[k].dirfd][stack[k].base] # NONE
       /\ tree[stack[k].dirfd][stack[k].base] \in Dirs
            => Room(h, tree[stack[k].dirfd][stack[k].base], k)
  /\ k < Len(stack) \/ pc = "readdir" => ReadingInv(k)
TopInv ==
  /\ pc \in {"ask", "unlink"} => tree[Top.dirfd][Top.base] \notin Dirs
  /\ pc \in Asking \cup {"unlink", "open", "enter", "opendir"} => Top.seen = {}
  /\ pc \in {"leave", "rmdir"} => Top.sub # NONE /\ EntriesOf(tree, Top.sub) = {}

Descending(h) ==
  \A j, k \in DOMAIN stack : j < k => h[stack[k].dirfd] < h[stack[j].dirfd]
SmoothInv(h) ==
  Smooth => /\ err = 0 /\ (pc = "restore" => oprc = 0)
            /\ RemovedSoFar /\ TopInv /\ Descending(h)
            /\ \A k \in DOMAIN stack : FrameInv(h, k)

Known == TypeInv /\ CwdInv /\ FdsBalanced /\ TreeInv /\ BelowInv /\ AloneInv

-----------------------------------------------------------------------------
LEMMA SmoothBefore ==
  ASSUME TypeInv, [Next]_vars, Smooth'
  PROVE  /\ Smooth /\ others = 0 /\ others' = 0 /\ ~Other
         /\ UNCHANGED <<args, flags, mode, declined>>
<1>1. others' = 0 /\ mode' = FullModes /\ ~declined'
  BY DEF Smooth, Undisturbed, FullModes
<1>2. others = 0 /\ mode' = mode
  BY <1>1, AloneSteps
<1>3. args' = args /\ flags' = flags
  BY CommandUnchanged
<1>4. ~declined /\ declined \in BOOLEAN
  BY <1>1, RecordsGrow DEF TypeInv, TypeOK
<1>5. \A i \in DOMAIN args : ProperOperand(i)
  <2>1. \A j, d, n : BelowOperand(j, d, n)' = BelowOperand(j, d, n) /\ Intended(j)' = Intended(j)
    BY <1>3 DEF BelowOperand, Intended
  <2>2. \A i \in DOMAIN args : ProperOperand(i)'
    BY <1>3 DEF Smooth
  <2>. QED
    BY <1>3, <2>1, <2>2 DEF ProperOperand
<1>6. Given("R") /\ args # <<>>
  BY <1>3 DEF Smooth, Given
<1>7. ~Other
  BY <1>1, <1>2 DEF Other, OtherCreates, OtherUnlinks, OtherChmods, Elsewhere
<1>8. declined' = declined
  BY <1>1, <1>4, RecordsGrow
<1>. QED
  BY <1>1, <1>2, <1>3, <1>4, <1>5, <1>6, <1>7, <1>8 DEF Smooth, Undisturbed

(* With all permissions a name leads to what the tree has for it.          *)
LEMMA SmoothTree ==
  ASSUME Known, Smooth
  PROVE  /\ \A d \in Dirs : CanEnter(mode, d) /\ CanModify(mode, d)
         /\ \A d \in Dirs : OpenDirectory(tree, mode, d, ".") = d
         /\ \A d \in Dirs, n \in Names :
              /\ Lookup(tree, mode, d, n) = tree[d][n]
              /\ Follow(tree[d][n]) \in Dirs =>
                   OpenDirectory(tree, mode, d, n) = Follow(tree[d][n])
              /\ tree[d][n] = IF <<d, n>> \in removed THEN NONE ELSE StartTree[d][n]
<1>1. mode = FullModes /\ others = 0
  BY DEF Smooth, Undisturbed
<1>2. \A d \in Dirs : mode[d] = Permissions
  BY <1>1 DEF FullModes, Nodes
<1>3. \A d \in Dirs : CanEnter(mode, d) /\ CanModify(mode, d)
  BY <1>2 DEF CanEnter, CanModify, Permissions
<1>4. ASSUME NEW d \in Dirs PROVE Lookup(tree, mode, d, ".") = d
  BY <1>2, TreeAssumption DEF Lookup, Permissions, Dots
<1>5. ASSUME NEW d \in Dirs, NEW n \in Names PROVE Lookup(tree, mode, d, n) = tree[d][n]
  BY <1>2, TreeAssumption DEF Lookup, Permissions, Dots
<1>6. \A d \in Dirs : Follow(d) = d
  BY TreeAssumption DEF Follow
<1>7. \A d \in Dirs : "r" \in mode[d]
  BY <1>2 DEF Permissions
<1>8. \A d \in Dirs : OpenDirectory(tree, mode, d, ".") = d
  BY <1>4, <1>6, <1>7 DEF OpenDirectory
<1>9. \A d \in Dirs, n \in Names : Follow(tree[d][n]) \in Dirs =>
                   OpenDirectory(tree, mode, d, n) = Follow(tree[d][n])
  BY <1>5, <1>7 DEF OpenDirectory
<1>10. \A d \in Dirs, n \in Names :
          tree[d][n] = IF <<d, n>> \in removed THEN NONE ELSE StartTree[d][n]
  BY <1>1 DEF Known, AloneInv
<1>. QED
  BY <1>3, <1>5, <1>8, <1>9, <1>10

LEMMA SmoothWalk ==
  ASSUME Known, Smooth
  PROVE  /\ ~strayed /\ OperandFrame /\ DownInv
         /\ pc = "operand" => cwd = StartDir
         /\ pc \notin Outside => cwd = IF pc \in InSub THEN Top.sub ELSE Top.dirfd
<1>1. ~strayed
  BY DEF Known, AloneInv, Smooth, Undisturbed
<1>. QED
  BY <1>1 DEF Known, BelowInv, CwdInv, CwdFollowsTraversal

(* The frames: each is in a directory that the frame below it opened.      *)
LEMMA SmoothFrames ==
  ASSUME Known, Smooth, NEW h \in Heights, SmoothInv(h), NEW k \in DOMAIN stack
  PROVE  /\ stack[k] \in Frames /\ k \in 1..Len(stack) /\ stack[k].dirfd \in Dirs
         /\ stack[k].base \in AnyName
         /\ BelowOperand(idx, stack[k].dirfd, stack[k].base)
         /\ k < Len(stack) => /\ stack[k].sub \in Dirs /\ stack[k + 1].dirfd = stack[k].sub
                              /\ k + 1 \in DOMAIN stack
         /\ stack[k].sub # NONE =>
              /\ stack[k].base \in Names /\ stack[k].sub \in Dirs
              /\ StartTree[stack[k].dirfd][stack[k].base] = stack[k].sub
              /\ tree[stack[k].dirfd][stack[k].base] = stack[k].sub
              /\ h[stack[k].sub] < h[stack[k].dirfd] /\ Room(h, stack[k].sub, k)
<1>1. stack \in Seq(Frames) /\ DOMAIN stack = 1..Len(stack) /\ Len(stack) \in Nat /\ k \in Nat
  BY DEF Known, TypeInv, TypeOK
<1>2. stack[k] \in Frames
  BY <1>1
<1>3. stack[k].dirfd \in Dirs /\ stack[k].base \in AnyName /\ stack[k].sub \in Dirs \cup {NONE}
  BY <1>2 DEF Frames
<1>4. k < Len(stack) => /\ stack[k].sub # NONE /\ stack[k + 1].dirfd = stack[k].sub
                        /\ k + 1 \in DOMAIN stack
  BY <1>1 DEF Known, TypeInv, Threaded
<1>5. DownInv
  BY SmoothWalk
<1>6. ASSUME stack[k].sub # NONE
      PROVE  /\ stack[k].base \in Names /\ stack[k].sub \in Dirs
             /\ StartTree[stack[k].dirfd][stack[k].base] = stack[k].sub
             /\ tree[stack[k].dirfd][stack[k].base] = stack[k].sub
             /\ h[stack[k].sub] < h[stack[k].dirfd] /\ Room(h, stack[k].sub, k)
  <2>1. /\ stack[k].base \in Names /\ stack[k].sub \in Dirs
        /\ StartTree[stack[k].dirfd][stack[k].base] = stack[k].sub
    BY <1>3, <1>5, <1>6 DEF DownInv
  <2>2. tree[stack[k].dirfd][stack[k].base] \in {NONE, stack[k].sub}
    BY <1>3, <2>1, SmoothTree
  <2>3. FrameInv(h, k)
    BY DEF SmoothInv
  <2>4. tree[stack[k].dirfd][stack[k].base] = stack[k].sub
    BY <2>1, <2>2, <2>3 DEF FrameInv
  <2>5. Room(h, stack[k].sub, k)
    BY <2>1, <2>3, <2>4 DEF FrameInv
  <2>6. h[stack[k].sub] < h[stack[k].dirfd]
    BY <1>3, <2>1 DEF Heights
  <2>. QED
    BY <2>1, <2>4, <2>5, <2>6
<1>. QED
  BY <1>1, <1>2, <1>3, <1>4, <1>5, <1>6 DEF DownInv

(* An rm() call that only moves on: the tree and the frames below are as   *)
(* they were, and the top frame is still for the same entry.               *)
LEMMA SmoothMovesOn ==
  ASSUME Known, Smooth, NEW h \in Heights, SmoothInv(h), [Next]_vars,
         pc \notin Outside, pc' \notin Outside, UNCHANGED <<tree, removed>>,
         DOMAIN stack' = DOMAIN stack, Len(stack') = Len(stack),
         \A k \in 1..(Len(stack) - 1) : stack'[k] = stack[k],
         SameCall(Top', Top), Top'.rc = 0, Top.base \in Names, TopInv',
         Top' = stack'[Len(stack)], pc' = "readdir" => ReadingInv(Len(stack))'
  PROVE  SmoothInv(h)'
<1>1. SUFFICES ASSUME Smooth' PROVE SmoothInv(h)'
  BY DEF SmoothInv
<1>2. PICK L \in Nat : L = Len(stack) /\ L >= 1 /\ DOMAIN stack = 1..L /\ Top = stack[L]
  <2>1. TypeInv
    BY DEF Known
  <2>2. DOMAIN stack = 1..Len(stack)
    BY <2>1 DEF TypeInv, TypeOK
  <2>. QED
    BY <2>1, <2>2, StackFacts
<1>3. UNCHANGED <<args, idx, err>>
  BY WithinOperand, SmoothBefore, <1>1 DEF Known
<1>4. /\ err = 0 /\ RemovedSoFar /\ Descending(h)
      /\ \A k \in DOMAIN stack : FrameInv(h, k)
  BY DEF SmoothInv
<1>5. \A k \in 1..L : stack'[k].dirfd = stack[k].dirfd /\ stack'[k].base = stack[k].base
  <2>1. \A k \in 1..L : k \in 1..(L - 1) \/ k = L
    OBVIOUS
  <2>3. \A k \in 1..(L - 1) : stack'[k] = stack[k]
    BY <1>2
  <2>2. stack'[L].dirfd = stack[L].dirfd /\ stack'[L].base = stack[L].base
    BY <1>2 DEF SameCall
  <2>. QED
    BY <2>1, <2>2, <2>3
<1>6. RemovedSoFar'
  <2>. SUFFICES ASSUME NEW e \in removed
                PROVE  \E j \in DOMAIN args :
                          /\ j < idx \/ (j = idx /\ pc' # "operand")
                          /\ BelowOperand(j, e[1], e[2])
    BY <1>3 DEF RemovedSoFar, BelowOperand, Intended
  <2>1. pc' # "operand"
    BY DEF Outside
  <2>. QED
    BY <1>4, <2>1 DEF RemovedSoFar
<1>7. Descending(h)'
  BY <1>2, <1>4, <1>5 DEF Descending
<1>8. ASSUME NEW k \in 1..L PROVE FrameInv(h, k)'
  <2>0. FrameInv(h, k)
    BY <1>2, <1>4
  <2>1. CASE k = L
    <3>1. stack'[k].rc = 0 /\ stack'[k].base = stack[k].base /\ stack'[k].dirfd = stack[k].dirfd
      BY <1>2, <1>5, <2>1
    <3>2. stack[k].base \in Names
      BY <1>2, <2>1
    <3>3. k < Len(stack') \/ pc' = "readdir" => ReadingInv(k)'
      BY <1>2, <2>1
    <3>. QED
      BY <2>0, <3>1, <3>2, <3>3 DEF FrameInv
  <2>2. CASE k < L
    <3>1. stack'[k] = stack[k] /\ stack'[k + 1].base = stack[k + 1].base
      BY <1>2, <1>5, <2>2
    <3>2. stack[k].base \in Names /\ ReadingInv(k)
      BY <1>2, <2>0, <2>2 DEF FrameInv
    <3>3. ReadingInv(k)'
      BY <1>2, <2>2, <3>1, <3>2 DEF ReadingInv
    <3>. QED
      BY <2>0, <3>1, <3>2, <3>3 DEF FrameInv
  <2>. QED
    BY <2>1, <2>2
<1>. QED
  BY <1>2, <1>3, <1>4, <1>6, <1>7, <1>8 DEF SmoothInv, Outside

(* A return with 0: the frames below are as they were.                     *)
LEMMA ReturnsClean ==
  ASSUME Known, Smooth, NEW h \in Heights, SmoothInv(h), pc \notin Outside, Return(0)
  PROVE  \/ Len(stack) = 1 /\ stack' = <<>> /\ oprc' = 0 /\ pc' = "restore"
         \/ /\ Len(stack) > 1 /\ pc' = "readdir" /\ Len(stack') = Len(stack) - 1
            /\ DOMAIN stack' = 1..(Len(stack) - 1)
            /\ \A k \in 1..(Len(stack) - 1) : stack'[k] = stack[k]
<1>1. /\ stack \in Seq(Frames) /\ Len(stack) \in Nat /\ Len(stack) >= 1
      /\ DOMAIN stack = 1..Len(stack)
  <2>1. TypeInv
    BY DEF Known
  <2>. QED
    BY <2>1, StackFacts
<1>2. CASE Len(stack) = 1
  BY <1>2 DEF Return
<1>3. CASE Len(stack) > 1
  <2>7. Len(stack) \in Nat
    BY <1>1
  <2>8. Len(stack) # 1
    BY <1>1, <1>3
  <2>. DEFINE caller == stack[Len(stack) - 1]
              g == [caller EXCEPT !.rc = BitOr(@, 0)]
  <2>0. Len(stack) - 1 \in DOMAIN stack
    BY <1>1, <1>3
  <2>1. caller \in Frames /\ caller.rc = 0
    BY <1>1, <2>0 DEF SmoothInv, FrameInv
  <2>2. g = caller
    <3>1. BitOr(caller.rc, 0) = caller.rc
      BY <2>1 DEF BitOr
    <3>. QED
      BY <2>1, <3>1 DEF Frames
  <2>3. stack' = [Front(stack) EXCEPT ![Len(stack) - 1] = g] /\ pc' = "readdir"
    BY <2>8 DEF Return
  <2>4. /\ stack' \in Seq(Frames) /\ Len(stack') = Len(stack) - 1 /\ Last(stack') = g
        /\ \A k \in 1..(Len(stack) - 2) : stack'[k] = stack[k]
    <3>1. g \in Frames
      BY <2>1, <2>2
    <3>. HIDE DEF g
    <3>. QED
      BY <1>1, <1>3, <2>3, <3>1, PopFacts
  <2>5. stack'[Len(stack) - 1] = stack[Len(stack) - 1]
    BY <2>2, <2>4 DEF Last
  <2>. HIDE DEF g, caller
  <2>6. DOMAIN stack' = 1..(Len(stack) - 1)
    BY <2>4
  <2>9. ASSUME NEW k \in 1..(Len(stack) - 1) PROVE stack'[k] = stack[k]
    <3>1. Len(stack) \in Nat
      BY <1>1
    <3>2. k = Len(stack) - 1 \/ k \in 1..(Len(stack) - 2)
      BY <3>1
    <3>. QED
      BY <2>4, <2>5, <3>2
  <2>. QED
    BY <1>3, <2>3, <2>4, <2>6, <2>9
<1>4. Len(stack) = 1 \/ Len(stack) > 1
  <2>1. Len(stack) \in Nat /\ Len(stack) >= 1
    BY <1>1
  <2>. QED
    BY <2>1
<1>. QED
  BY <1>2, <1>3, <1>4

(* A return with 0, of a call whose entry is gone if it had one.           *)
LEMMA SmoothReturns ==
  ASSUME Known, Smooth, NEW h \in Heights, SmoothInv(h), [Next]_vars,
         pc \notin Outside, Return(0),
         \A d \in Dirs, n \in Names :
           tree'[d][n] = IF d = Top.dirfd /\ n = Top.base THEN NONE ELSE tree[d][n],
         removed' \subseteq removed \cup {<<Top.dirfd, Top.base>>}
  PROVE  SmoothInv(h)'
<1>1. SUFFICES ASSUME Smooth' PROVE SmoothInv(h)'
  BY DEF SmoothInv
<1>2. PICK L \in Nat : L = Len(stack) /\ L >= 1 /\ DOMAIN stack = 1..L /\ Top = stack[L]
  <2>1. TypeInv
    BY DEF Known
  <2>2. DOMAIN stack = 1..Len(stack)
    BY <2>1 DEF TypeInv, TypeOK
  <2>. QED
    BY <2>1, <2>2, StackFacts
<1>3. UNCHANGED <<args, idx, err>>
  BY WithinOperand, SmoothBefore, <1>1 DEF Known
<1>4. /\ err = 0 /\ RemovedSoFar /\ Descending(h)
      /\ \A k \in DOMAIN stack : FrameInv(h, k)
  BY DEF SmoothInv
<1>5. PICK d0, n0 : d0 = Top.dirfd /\ n0 = Top.base /\ d0 \in Dirs /\ n0 \in AnyName
                    /\ BelowOperand(idx, d0, n0)
  BY <1>2, SmoothFrames
<1>6. /\ \A d \in Dirs, n \in Names :
           tree'[d][n] = IF d = d0 /\ n = n0 THEN NONE ELSE tree[d][n]
      /\ removed' \subseteq removed \cup {<<d0, n0>>}
  BY <1>5
<1>7. idx \in DOMAIN args /\ pc' # "operand"
  <2>1. OperandFrame /\ stack # <<>>
    BY <1>2, SmoothWalk
  <2>. QED
    BY <2>1, ReturnsClean DEF OperandFrame
<1>8. RemovedSoFar'
  <2>. SUFFICES ASSUME NEW e \in removed'
                PROVE  \E j \in DOMAIN args :
                          /\ j < idx \/ (j = idx /\ pc' # "operand")
                          /\ BelowOperand(j, e[1], e[2])
    BY <1>3 DEF RemovedSoFar, BelowOperand, Intended
  <2>1. CASE e \in removed
    BY <1>4, <1>7, <2>1 DEF RemovedSoFar
  <2>2. CASE e = <<d0, n0>>
    BY <1>5, <1>7, <2>2
  <2>. QED
    BY <1>6, <2>1, <2>2
<1>9. CASE L = 1
  <2>1. stack' = <<>> /\ oprc' = 0 /\ pc' = "restore"
    BY <1>2, <1>9, ReturnsClean
  <2>. QED
    BY <1>3, <1>4, <1>8, <2>1 DEF SmoothInv, TopInv, Descending, Asking
<1>10. CASE L > 1
  <2>1. /\ pc' = "readdir" /\ Len(stack') = L - 1 /\ DOMAIN stack' = 1..(L - 1)
        /\ \A k \in 1..(L - 1) : stack'[k] = stack[k]
    BY <1>2, <1>10, ReturnsClean
  <2>2. TopInv'
    BY <2>1 DEF TopInv, Asking
  <2>3. Descending(h)'
    <3>1. \A k \in 1..(L - 1) : k \in DOMAIN stack
      BY <1>2
    <3>. QED
      BY <1>4, <2>1, <3>1 DEF Descending
  <2>4. ASSUME NEW k \in 1..(L - 1) PROVE FrameInv(h, k)'
    <3>1. k \in DOMAIN stack /\ L \in DOMAIN stack /\ k < L /\ k \in Nat /\ stack'[k] = stack[k]
      BY <1>2, <2>1
    <3>2. FrameInv(h, k)
      BY <1>4, <3>1
    <3>3. h[d0] < h[stack[k].dirfd] /\ h[d0] \in Nat
      BY <1>2, <1>4, <1>5, <3>1 DEF Descending, Heights
    <3>4. /\ stack[k].dirfd \in Dirs /\ stack[k].base \in Names /\ stack[k].sub \in Dirs
          /\ stack[k + 1].dirfd = stack[k].sub
      <4>1. k < Len(stack)
        BY <1>2, <3>1
      <4>2. stack[k].sub # NONE
        BY <3>1, <4>1, SmoothFrames, TreeAssumption DEF Nodes
      <4>. QED
        BY <3>1, <4>1, <4>2, SmoothFrames
    <3>5. stack[k].dirfd # d0
      BY <3>3
    <3>6. tree'[stack[k].dirfd][stack[k].base] = tree[stack[k].dirfd][stack[k].base]
      BY <1>6, <3>4, <3>5
    <3>7. ReadingInv(k)
      BY <1>2, <3>1, <3>2 DEF FrameInv
    <3>8. EntriesOf(tree', stack[k].sub) \subseteq EntriesOf(tree, stack[k].sub)
      BY <1>6, <3>4, TreeAssumption DEF EntriesOf
    <3>9. CASE k = L - 1
      <4>1. stack[k].sub = d0 /\ stack[k + 1].base = n0
        BY <1>2, <1>5, <3>4, <3>9
      <4>2. ASSUME NEW n \in stack[k].must \cap Names
            PROVE  tree'[d0][n] # NONE <=> n \notin stack[k].seen
        <5>1. tree[d0][n] # NONE <=> n \notin stack[k].seen \/ n = n0
          BY <1>2, <3>1, <3>7, <4>1 DEF ReadingInv
        <5>2. n0 \in stack[k].seen
          BY <1>2, <3>1, <3>7, <4>1 DEF ReadingInv
        <5>. QED
          BY <1>5, <1>6, <5>1, <5>2
      <4>3. EntriesOf(tree', stack[k].sub) \subseteq stack[k].must
        BY <3>7, <3>8 DEF ReadingInv
      <4>4. ~(k < Len(stack'))
        BY <2>1, <3>9
      <4>5. ReadingInv(k)'
        BY <3>1, <4>1, <4>2, <4>3, <4>4 DEF ReadingInv
      <4>. QED
        BY <3>1, <3>2, <3>4, <3>6, <4>5 DEF FrameInv
    <3>10. CASE k < L - 1
      <4>1. stack[k].sub # d0
        <5>1. k + 1 \in DOMAIN stack /\ k + 1 < L
          BY <1>2, <3>10
        <5>2. h[d0] < h[stack[k + 1].dirfd]
          BY <1>2, <1>4, <1>5, <3>1, <5>1 DEF Descending
        <5>. QED
          BY <3>3, <3>4, <5>2
      <4>2. \A n \in Names : tree'[stack[k].sub][n] = tree[stack[k].sub][n]
        BY <1>6, <3>4, <4>1
      <4>3. stack'[k + 1] = stack[k + 1] /\ k < Len(stack') /\ k < Len(stack)
        BY <1>2, <2>1, <3>10
      <4>4. EntriesOf(tree', stack[k].sub) \subseteq stack[k].must
        BY <3>7, <3>8 DEF ReadingInv
      <4>5. ReadingInv(k)'
        BY <3>1, <3>7, <4>2, <4>3, <4>4 DEF ReadingInv
      <4>. QED
        BY <3>1, <3>2, <3>4, <3>6, <4>5 DEF FrameInv
    <3>. QED
      BY <1>2, <3>9, <3>10
  <2>. QED
    BY <1>3, <1>4, <1>8, <2>1, <2>2, <2>3, <2>4 DEF SmoothInv
<1>. QED
  BY <1>2, <1>9, <1>10

(* The operand loop: no operand is refused, and each is started.           *)
LEMMA SmoothOperand ==
  ASSUME Known, Smooth, NEW h \in Heights, RoomBelow(h), SmoothInv(h), AtOperand
  PROVE  /\ idx \in DOMAIN args /\ args[idx].base \in Names /\ Intended(idx) \in Dirs
         /\ ~HaveDots(args[idx].base) /\ CanReachOperand /\ OpDir = Intended(idx)
         /\ tree[Intended(idx)][args[idx].base] # NONE
         /\ tree[Intended(idx)][args[idx].base] \in Dirs
              => Room(h, tree[Intended(idx)][args[idx].base], 1)
<1>1. /\ args \in ArgLists /\ args \in Seq(Operands) /\ idx \in Nat /\ idx >= 1
      /\ idx <= Len(args) /\ pc = "operand"
  BY RmAssumption DEF AtOperand, Known, TypeInv, TypeOK
<1>2. idx \in DOMAIN args
  BY <1>1
<1>3. args[idx] \in Operands
  BY <1>1, <1>2
<1>4. PICK o, b, c : /\ o = Intended(idx) /\ b = args[idx].base /\ c = args[idx].dirn
                     /\ o \in Dirs /\ b \in Names /\ c \in Names \cup {"."}
                     /\ StartTree[o][b] # NONE
                     /\ \A j \in 1..(idx - 1) : ~BelowOperand(j, o, b) /\ ~BelowOperand(j, StartDir, c)
  BY <1>2, <1>3 DEF Smooth, ProperOperand, Operands
<1>5. ASSUME NEW e \in removed PROVE e # <<o, b>> /\ e # <<StartDir, c>>
  <2>1. PICK j \in DOMAIN args : j < idx /\ BelowOperand(j, e[1], e[2])
    BY <1>1 DEF SmoothInv, RemovedSoFar
  <2>2. j \in 1..(idx - 1)
    BY <1>1, <2>1
  <2>. QED
    BY <1>4, <2>1, <2>2
<1>6. tree[o][b] = StartTree[o][b]
  BY <1>4, <1>5, SmoothTree
<1>7. cwd = StartDir /\ StartDir \in Dirs /\ nfd = 0
  BY <1>1, SmoothWalk, RmAssumption DEF Known, FdsBalanced
<1>8. o = IF c = "." THEN StartDir ELSE Follow(StartTree[StartDir][c])
  BY <1>4 DEF Intended
<1>9. OpDir = o
  <2>1. OpDir = OpenDirectory(tree, mode, StartDir, c)
    BY <1>4, <1>7 DEF OpDir
  <2>2. CASE c = "."
    BY <1>7, <1>8, <2>1, <2>2, SmoothTree
  <2>3. CASE c # "."
    <3>1. tree[StartDir][c] = StartTree[StartDir][c]
      BY <1>4, <1>5, <1>7, <2>3, SmoothTree
    <3>2. Follow(tree[StartDir][c]) = o /\ c \in Names
      BY <1>4, <1>8, <2>3, <3>1
    <3>. QED
      BY <1>4, <1>7, <2>1, <3>2, SmoothTree
  <2>. QED
    BY <2>2, <2>3
<1>10. CanReachOperand
  <2>1. nfd + 1 < MaxFds
    BY <1>7, RmAssumption DEF RoomBelow
  <2>2. OpenDirectory(tree, mode, cwd, ".") # NONE
    BY <1>7, SmoothTree, TreeAssumption DEF Nodes
  <2>3. OpDir # NONE /\ CanEnter(mode, OpDir)
    BY <1>4, <1>9, SmoothTree, TreeAssumption DEF Nodes
  <2>. QED
    BY <2>1, <2>2, <2>3 DEF CanReachOperand
<1>11. tree[o][b] \in Dirs => Room(h, tree[o][b], 1)
  <2>. SUFFICES ASSUME tree[o][b] \in Dirs PROVE Room(h, tree[o][b], 1)
    OBVIOUS
  <2>1. DirectoryOf(args[idx]) = o
    BY <1>4, <1>8 DEF DirectoryOf
  <2>. QED
    BY <1>1, <1>2, <1>4, <1>6, <2>1 DEF RoomBelow
<1>12. ~HaveDots(b)
  BY <1>4, TreeAssumption DEF HaveDots
<1>. QED
  BY <1>2, <1>4, <1>6, <1>9, <1>10, <1>11, <1>12

LEMMA SmoothOperandSteps ==
  ASSUME Known, NEW h \in Heights, RoomBelow(h), SmoothInv(h), [Next]_vars,
         RefuseOperand \/ StartOperand \/ FinishOperand \/ Exit
  PROVE  SmoothInv(h)'
<1>. SUFFICES ASSUME Smooth' PROVE SmoothInv(h)'
  BY DEF SmoothInv
<1>1. TypeInv /\ Smooth /\ args' = args
  BY SmoothBefore DEF Known
<1>2. err = 0 /\ (pc = "restore" => oprc = 0) /\ RemovedSoFar
  BY <1>1 DEF SmoothInv
<1>3. stack = <<>> /\ idx \in Nat
  BY <1>1, OperandSteps DEF TypeInv, TypeOK
<1>4. CASE RefuseOperand
  BY <1>1, <1>4, SmoothOperand DEF RefuseOperand
<1>5. ASSUME idx' = idx \/ idx' = idx + 1, pc' = "operand" => idx' = idx + 1 \/ pc = "operand",
             removed' = removed
      PROVE  RemovedSoFar'
  <2>. SUFFICES ASSUME NEW e \in removed
                PROVE  \E j \in DOMAIN args :
                          /\ j < idx' \/ (j = idx' /\ pc' # "operand")
                          /\ BelowOperand(j, e[1], e[2])
    BY <1>1, <1>5 DEF RemovedSoFar, BelowOperand, Intended
  <2>1. PICK j \in DOMAIN args : /\ j < idx \/ (j = idx /\ pc # "operand")
                                 /\ BelowOperand(j, e[1], e[2])
    BY <1>2 DEF RemovedSoFar
  <2>2. j \in Nat
    <3>1. args \in Seq(Operands)
      BY <1>1, RmAssumption DEF TypeInv, TypeOK
    <3>. QED
      BY <3>1
  <2>3. j < idx' \/ (j = idx' /\ pc' # "operand")
    BY <1>3, <1>5, <2>1, <2>2
  <2>. QED
    BY <2>1, <2>3
<1>6. CASE StartOperand
  <2>1. AtOperand /\ UNCHANGED <<tree, removed, idx, err>> /\ pc' = "lstat"
    BY <1>6 DEF StartOperand, fs, hist
  <2>2. PICK f : f = Call(OpDir, args[idx].base)
    OBVIOUS
  <2>3. /\ f.dirfd = Intended(idx) /\ f.base = args[idx].base /\ f.base \in Names
        /\ f.rc = 0 /\ f.seen = {}
        /\ tree[f.dirfd][f.base] # NONE
        /\ tree[f.dirfd][f.base] \in Dirs => Room(h, tree[f.dirfd][f.base], 1)
    BY <1>1, <2>1, <2>2, SmoothOperand DEF Call
  <2>4. stack' = <<f>> /\ DOMAIN stack' = {1} /\ Len(stack') = 1 /\ Top' = f /\ stack'[1] = f
    BY <1>1, <1>6, <2>2, OperandSteps
  <2>5. RemovedSoFar'
    BY <1>5, <2>1
  <2>6. FrameInv(h, 1)'
    BY <2>1, <2>3, <2>4 DEF FrameInv
  <2>7. TopInv' /\ Descending(h)'
    BY <2>1, <2>3, <2>4 DEF TopInv, Descending
  <2>. QED
    BY <1>2, <2>1, <2>4, <2>5, <2>6, <2>7 DEF SmoothInv
<1>7. CASE FinishOperand
  <2>1. /\ pc = "restore" /\ olddir \in Dirs /\ idx' = idx + 1 /\ pc' = "operand"
        /\ stack' = stack /\ removed' = removed
    BY <1>1, <1>7 DEF FinishOperand, TypeInv, TypeOK
  <2>2. CanEnter(mode, olddir)
    BY <1>1, <2>1, SmoothTree
  <2>3. err' = 0
    BY <1>2, <1>7, <2>1, <2>2 DEF FinishOperand, BitOr
  <2>4. RemovedSoFar'
    BY <1>5, <2>1
  <2>. QED
    BY <1>3, <2>1, <2>3, <2>4 DEF SmoothInv, TopInv, Asking, Descending
<1>8. CASE Exit
  <2>1. pc' = "done" /\ stack' = stack /\ removed' = removed /\ idx' = idx /\ err' = 0
    BY <1>1, <1>2, <1>8 DEF Exit, Smooth, hist
  <2>2. RemovedSoFar'
    BY <1>5, <2>1
  <2>. QED
    BY <1>3, <2>1, <2>2 DEF SmoothInv, TopInv, Asking, Descending
<1>. QED
  BY <1>4, <1>6, <1>7, <1>8

LEMMA SmoothTop ==
  ASSUME Known, Smooth, NEW h \in Heights, SmoothInv(h), pc \notin Outside
  PROVE  /\ Len(stack) \in Nat /\ Len(stack) >= 1 /\ Len(stack) \in DOMAIN stack
         /\ DOMAIN stack = 1..Len(stack) /\ stack \in Seq(Frames)
         /\ Top = stack[Len(stack)] /\ Top \in Frames
         /\ Top.dirfd \in Dirs /\ Top.base \in AnyName /\ Top.rc = 0
         /\ Top.sub \in Dirs \cup {NONE}
         /\ pc # "lstat" => Top.base \in Names
         /\ cwd = IF pc \in InSub THEN Top.sub ELSE Top.dirfd
         /\ FrameInv(h, Len(stack)) /\ TopInv
<1>1. /\ stack \in Seq(Frames) /\ Len(stack) \in Nat /\ Len(stack) >= 1
      /\ Top \in Frames /\ Top = stack[Len(stack)]
  BY StackFacts DEF Known
<1>2. DOMAIN stack = 1..Len(stack) /\ Len(stack) \in DOMAIN stack
  BY <1>1
<1>3. FrameInv(h, Len(stack)) /\ TopInv
  BY <1>2 DEF SmoothInv
<1>4. Top.dirfd \in Dirs /\ Top.base \in AnyName /\ Top.sub \in Dirs \cup {NONE}
  BY <1>1 DEF Frames
<1>5. Top.rc = 0 /\ (pc # "lstat" => Top.base \in Names)
  BY <1>1, <1>3 DEF FrameInv
<1>. QED
  BY <1>1, <1>2, <1>3, <1>4, <1>5, SmoothWalk

(* The entry at hand is there, and lstat() tells what it is.               *)
LEMMA SmoothHere ==
  ASSUME Known, Smooth, NEW h \in Heights, SmoothInv(h), pc \notin Outside \cup InSub,
         Top.base \in Names
  PROVE  /\ Here(Top.base) = tree[Top.dirfd][Top.base]
         /\ tree[Top.dirfd][Top.base] \in Nodes
<1>1. Top.dirfd \in Dirs /\ cwd = Top.dirfd /\ tree[Top.dirfd][Top.base] # NONE
  BY SmoothTop DEF FrameInv
<1>2. tree \in Trees
  BY DEF Known, TypeInv, TypeOK
<1>3. Here(Top.base) = tree[Top.dirfd][Top.base]
  BY <1>1, SmoothTree DEF Here
<1>4. tree[Top.dirfd][Top.base] \in Nodes \cup {NONE}
  BY <1>1, <1>2 DEF Trees
<1>. QED
  BY <1>1, <1>3, <1>4

LEMMA SmoothLooks ==
  ASSUME Known, Smooth, NEW h \in Heights, SmoothInv(h), [Next]_vars, Smooth',
         LstatAndReturn \/ LstatAndProceed \/ AnswerYes \/ AnswerNo
  PROVE  SmoothInv(h)'
<1>1. pc \notin Outside \cup InSub /\ UNCHANGED <<tree, removed>>
  BY DEF LstatAndReturn, LstatAndProceed, AnswerYes, AnswerNo, Outside, InSub, fs, hist
<1>2. Given("R")
  BY DEF Smooth
<1>3. CASE LstatAndReturn
  <2>1. HaveDots(Top.base)
    <3>. SUFFICES ASSUME Top.base \in Names PROVE HaveDots(Top.base)
      BY <1>1, SmoothTop DEF HaveDots, AnyName
    <3>. QED
      BY <1>1, <1>2, <1>3, SmoothHere, TreeAssumption DEF LstatAndReturn, LstatRefuses
  <2>2. Return(0)
    BY <1>3, <2>1 DEF LstatAndReturn
  <2>3. Top.base \notin Names
    BY <2>1, TreeAssumption DEF HaveDots
  <2>. QED
    BY <1>1, <2>2, <2>3, SmoothReturns
<1>4. CASE AnswerNo
  BY <1>4, SmoothBefore DEF AnswerNo, Known, Smooth, Undisturbed
<1>5. CASE LstatAndProceed \/ AnswerYes
  <2>1. stack' = stack /\ pc \in Asking /\ pc' \in {"ask", "askdir", "unlink", "open"}
    BY <1>5 DEF LstatAndProceed, AnswerYes, Asking
  <2>2. Top.base \in Names
    <3>1. CASE LstatAndProceed
      BY <1>1, <3>1, SmoothTop DEF LstatAndProceed, LstatRefuses, HaveDots, AnyName
    <3>2. CASE AnswerYes
      BY <1>1, <3>2, SmoothTop DEF AnswerYes
    <3>. QED
      BY <1>5, <3>1, <3>2
  <2>3. pc' \in {"ask", "unlink"} => tree[Top.dirfd][Top.base] \notin Dirs
    <3>1. CASE LstatAndProceed
      BY <1>1, <2>2, <3>1, SmoothHere DEF LstatAndProceed
    <3>2. CASE AnswerYes
      BY <1>1, <3>2, SmoothTop DEF AnswerYes, TopInv
    <3>. QED
      BY <1>5, <3>1, <3>2
  <2>4. Top' = Top /\ SameCall(Top', Top) /\ TopInv'
    <3>1. Top' = Top
      BY <2>1 DEF Top
    <3>2. Top.seen = {}
      BY <1>1, <2>1, SmoothTop DEF TopInv
    <3>. QED
      BY <1>1, <2>1, <2>3, <3>1, <3>2 DEF TopInv, SameCall
  <2>5. pc' \notin Outside /\ pc' # "readdir"
    BY <2>1 DEF Outside
  <2>. QED
    BY <1>1, <2>1, <2>2, <2>4, <2>5, SmoothTop, SmoothMovesOn
<1>. QED
  BY <1>3, <1>4, <1>5

LEMMA SmoothRemoves ==
  ASSUME Known, Smooth, NEW h \in Heights, SmoothInv(h), [Next]_vars, Smooth',
         Unlink \/ Rmdir
  PROVE  SmoothInv(h)'
<1>1. pc \notin Outside \cup InSub /\ pc # "lstat"
  BY DEF Unlink, Rmdir, Outside, InSub
<1>2. /\ Top.base \in Names /\ Top.dirfd \in Dirs /\ Top.rc = 0 /\ cwd = Top.dirfd
      /\ Here(Top.base) = tree[Top.dirfd][Top.base] /\ Here(Top.base) \in Nodes
      /\ CanModify(mode, cwd)
  BY <1>1, SmoothTop, SmoothHere, SmoothTree
<1>3. /\ tree' = RemoveEntry(tree, cwd, Top.base)
      /\ removed' = removed \cup {<<cwd, Top.base>>} /\ Return(0)
  <2>1. CASE Unlink
    <3>1. CanUnlink(Top.base)
      BY <1>1, <1>2, <2>1, SmoothTop DEF Unlink, TopInv, CanUnlink, Nodes
    <3>. QED
      BY <1>2, <2>1, <3>1 DEF Unlink
  <2>2. CASE Rmdir
    <3>1. Top.sub # NONE /\ EntriesOf(tree, Top.sub) = {}
      BY <1>1, <2>2, SmoothTop DEF Rmdir, TopInv
    <3>2. Top = stack[Len(stack)] /\ Len(stack) \in DOMAIN stack
      BY <1>1, SmoothTop
    <3>3. tree[Top.dirfd][Top.base] = Top.sub /\ Top.sub \in Dirs
      BY <3>1, <3>2, SmoothFrames
    <3>4. CanRmdir(Top.base)
      BY <1>2, <3>1, <3>3 DEF CanRmdir
    <3>. QED
      BY <1>2, <2>2, <3>4 DEF Rmdir
  <2>. QED
    BY <2>1, <2>2
<1>4. tree \in Trees
  BY DEF Known, TypeInv, TypeOK
<1>5. \A d \in Dirs, n \in Names :
        tree'[d][n] = IF d = Top.dirfd /\ n = Top.base THEN NONE ELSE tree[d][n]
  BY <1>2, <1>3, <1>4 DEF RemoveEntry, Trees
<1>. QED
  BY <1>1, <1>2, <1>3, <1>5, SmoothReturns

-----------------------------------------------------------------------------
(* iterate_directory(): there are descriptors for it, and all is entered.  *)
LEMMA SmoothOpens ==
  ASSUME Known, Smooth, NEW h \in Heights, RoomBelow(h), SmoothInv(h), [Next]_vars,
         OpenSub \/ EnterSub \/ OpenStream
  PROVE  SmoothInv(h)'
<1>1. pc \notin Outside /\ pc # "lstat" /\ pc' \notin Outside /\ UNCHANGED <<tree, removed>>
  BY DEF OpenSub, EnterSub, OpenStream, Outside, fs, hist
<1>2. PICK L \in Nat : /\ L = Len(stack) /\ L >= 1 /\ Top = stack[L] /\ L \in DOMAIN stack
                       /\ stack \in Seq(Frames) /\ stack # <<>>
  BY <1>1, SmoothTop
<1>3. /\ Top \in Frames /\ Top.dirfd \in Dirs /\ Top.base \in Names /\ Top.rc = 0
      /\ Top.seen = {} /\ FrameInv(h, L)
  BY <1>1, <1>2, SmoothTop DEF OpenSub, EnterSub, OpenStream, TopInv
<1>4. ASSUME NEW d \in Dirs, tree[Top.dirfd][Top.base] = d PROVE 2 * L + 2 <= MaxFds
  <2>1. h[d] \in Nat /\ Room(h, d, L)
    BY <1>2, <1>3, <1>4 DEF Heights, FrameInv
  <2>. QED
    BY <2>1, RmAssumption DEF Room
<1>5. ASSUME Top.sub # NONE
      PROVE  Top.sub \in Dirs /\ tree[Top.dirfd][Top.base] = Top.sub
  BY <1>2, <1>5, SmoothFrames
<1>6. ASSUME NEW f \in Frames, SetTop(f), SameCall(f, Top), f.rc = 0
      PROVE  /\ DOMAIN stack' = DOMAIN stack /\ Len(stack') = Len(stack)
             /\ \A k \in 1..(Len(stack) - 1) : stack'[k] = stack[k]
             /\ Top' = f /\ Top' = stack'[Len(stack)]
             /\ SameCall(Top', Top) /\ Top'.rc = 0
  <2>1. /\ stack' \in Seq(Frames) /\ Len(stack') = Len(stack) /\ Last(stack') = f
        /\ \A k \in 1..(Len(stack) - 1) : stack'[k] = stack[k]
    <3>1. PICK s : s = stack
      OBVIOUS
    <3>2. s \in Seq(Frames) /\ s # <<>> /\ stack' = [s EXCEPT ![Len(s)] = f]
      BY <1>2, <1>6, <3>1 DEF SetTop
    <3>3. /\ stack' \in Seq(Frames) /\ Len(stack') = Len(s) /\ Last(stack') = f
          /\ \A k \in 1..(Len(s) - 1) : stack'[k] = s[k]
      BY <1>6, <3>2, SetTopFacts
    <3>. QED
      BY <3>1, <3>3
  <2>2. DOMAIN stack' = DOMAIN stack
    BY <1>2, <2>1
  <2>3. Top' = f /\ Top' = stack'[Len(stack)]
    BY <2>1 DEF Top, Last
  <2>. QED
    BY <1>6, <2>1, <2>2, <2>3
<1>7. CASE OpenSub
  <2>1. PICK d \in Dirs : d = tree[Top.dirfd][Top.base]
    BY <1>7, SmoothWalk DEF OpenSub, DownInv
  <2>2. Follow(d) = d
    BY TreeAssumption DEF Follow
  <2>3. cwd = Top.dirfd
    BY <1>1, <1>7, SmoothTop DEF OpenSub, InSub
  <2>4. OpenDirectory(tree, mode, cwd, Top.base) = d
    BY <1>3, <2>1, <2>2, <2>3, SmoothTree
  <2>5. nfd < MaxFds
    <3>1. nfd = 2 * L
      BY <1>2, <1>7 DEF OpenSub, Known, FdsBalanced, HeldByTop
    <3>2. 2 * L + 2 <= MaxFds
      BY <1>4, <2>1
    <3>. QED
      BY <3>1, <3>2, RmAssumption
  <2>6. d # NONE
    BY TreeAssumption DEF Nodes
  <2>. DEFINE f == [Top EXCEPT !.sub = d]
  <2>7. SetTop(f) /\ pc' = "enter"
    BY <1>7, <2>4, <2>5, <2>6 DEF OpenSub
  <2>8. f \in Frames /\ SameCall(f, Top) /\ f.rc = 0 /\ f.seen = {}
    BY <1>3 DEF Frames, SameCall
  <2>. HIDE DEF f
  <2>9. TopInv'
    BY <1>6, <2>7, <2>8 DEF TopInv
  <2>. QED
    BY <1>1, <1>3, <1>6, <2>7, <2>8, <2>9, SmoothMovesOn
<1>8. CASE EnterSub
  <2>1. Top.sub \in Dirs
    BY <1>5, <1>8 DEF EnterSub, Known, TypeInv, TypeOK
  <2>2. pc' = "opendir" /\ stack' = stack
    BY <1>8, <2>1, SmoothTree DEF EnterSub
  <2>3. Top' = Top /\ SameCall(Top', Top)
    BY <2>2 DEF Top, SameCall
  <2>4. TopInv'
    BY <1>3, <2>2, <2>3 DEF TopInv
  <2>. QED
    BY <1>1, <1>2, <1>3, <2>2, <2>3, <2>4, SmoothMovesOn
<1>9. CASE OpenStream
  <2>1. Top.sub \in Dirs /\ tree[Top.dirfd][Top.base] = Top.sub
    BY <1>5, <1>9 DEF OpenStream, Known, TypeInv, TypeOK, InSub
  <2>2. cwd = Top.sub
    BY <1>1, <1>9, SmoothTop DEF OpenStream, InSub
  <2>3. OpenDirectory(tree, mode, cwd, ".") # NONE
    BY <2>1, <2>2, SmoothTree, TreeAssumption DEF Nodes
  <2>4. nfd < MaxFds
    <3>1. nfd = 2 * L + 1
      BY <1>2, <1>9 DEF OpenStream, Known, FdsBalanced, HeldByTop
    <3>2. 2 * L + 2 <= MaxFds
      BY <1>4, <2>1
    <3>. QED
      BY <3>1, <3>2, RmAssumption
  <2>. DEFINE f == [Top EXCEPT !.must = EntriesOf(tree, Top.sub) \cup Dots]
  <2>5. SetTop(f) /\ pc' = "readdir"
    BY <1>9, <2>3, <2>4 DEF OpenStream
  <2>6. EntriesOf(tree, Top.sub) \cup Dots \in SUBSET AnyName
    BY DEF EntriesOf, AnyName
  <2>7. /\ f \in Frames /\ SameCall(f, Top) /\ f.rc = 0 /\ f.seen = {} /\ f.sub = Top.sub
        /\ f.must = EntriesOf(tree, Top.sub) \cup Dots
    BY <1>3, <2>6 DEF Frames, SameCall
  <2>. HIDE DEF f
  <2>8. stack'[L] = f /\ Len(stack') = L /\ Top' = f
    BY <1>2, <1>6, <2>5, <2>7
  <2>9. ReadingInv(L)'
    BY <1>1, <1>2, <2>7, <2>8, TreeAssumption DEF ReadingInv, EntriesOf
  <2>10. TopInv'
    BY <2>5 DEF TopInv, Asking
  <2>. QED
    BY <1>1, <1>2, <1>3, <1>6, <2>5, <2>7, <2>9, <2>10, SmoothMovesOn
<1>. QED
  BY <1>7, <1>8, <1>9

(* The stream ends when all its entries are gone.                          *)
LEMMA SmoothCloses ==
  ASSUME Known, Smooth, NEW h \in Heights, SmoothInv(h), [Next]_vars, Smooth',
         CloseStream \/ LeaveSub
  PROVE  SmoothInv(h)'
<1>1. pc \notin Outside /\ pc \in InSub /\ pc' \in {"leave", "rmdir"} /\ UNCHANGED <<tree, removed>>
  BY DEF CloseStream, LeaveSub, Outside, InSub, fs, hist
<1>2. PICK L \in Nat : L = Len(stack) /\ Top = stack[L] /\ L \in DOMAIN stack
  BY <1>1, SmoothTop
<1>3. /\ Top.dirfd \in Dirs /\ Top.base \in Names /\ Top.rc = 0 /\ FrameInv(h, L) /\ TopInv
      /\ Top.sub # NONE
  BY <1>1, <1>2, SmoothTop DEF InSub, Known, TypeInv, TypeOK
<1>4. EntriesOf(tree, Top.sub) = {} /\ stack' = stack
  <2>1. CASE CloseStream
    <3>1. others' = others /\ others \in Nat
      BY SmoothBefore DEF Known, TypeInv, TypeOK
    <3>2. Unread = {} /\ stack' = stack /\ pc = "readdir"
      BY <2>1, <3>1 DEF CloseStream
    <3>3. ReadingInv(L)
      BY <1>3, <3>2 DEF FrameInv
    <3>4. ASSUME NEW n \in EntriesOf(tree, Top.sub) PROVE FALSE
      <4>1. n \in Names /\ tree[Top.sub][n] # NONE /\ n \in Top.must
        BY <1>2, <3>3, <3>4 DEF ReadingInv, EntriesOf
      <4>2. n \notin Top.seen
        BY <1>2, <3>3, <4>1 DEF ReadingInv
      <4>. QED
        BY <3>2, <4>1, <4>2 DEF Unread, IsEntry
    <3>. QED
      BY <3>2, <3>4
  <2>2. CASE LeaveSub
    BY <1>3, <2>2, SmoothTree DEF LeaveSub, TopInv
  <2>. QED
    BY <2>1, <2>2
<1>5. Top' = Top /\ SameCall(Top', Top)
  BY <1>4 DEF Top, SameCall
<1>6. TopInv'
  BY <1>1, <1>3, <1>4, <1>5 DEF TopInv, Asking
<1>7. pc' \notin Outside /\ pc' # "readdir"
  BY <1>1 DEF Outside
<1>. QED
  BY <1>1, <1>2, <1>3, <1>4, <1>5, <1>6, <1>7, SmoothMovesOn

(* The call for an entry that readdir() returns: the entry is still there. *)
LEMMA SmoothReads ==
  ASSUME Known, Smooth, NEW h \in Heights, SmoothInv(h), [Next]_vars, Smooth',
         NEW n \in AnyName, ReadEntry(n)
  PROVE  SmoothInv(h)'
<1>1. /\ pc = "readdir" /\ pc' = "lstat" /\ n \in MayRead /\ pc \notin Outside
      /\ UNCHANGED <<tree, removed, idx, err>>
  BY DEF ReadEntry, Outside, fs, hist
<1>2. PICK L \in Nat : /\ L = Len(stack) /\ L >= 1 /\ Top = stack[L] /\ L \in DOMAIN stack
                       /\ DOMAIN stack = 1..L /\ stack \in Seq(Frames) /\ stack # <<>>
  BY <1>1, SmoothTop
<1>3. PICK s \in Dirs : s = Top.sub
  BY <1>1, SmoothTop DEF InSub, Known, TypeInv, TypeOK
<1>4. /\ Top \in Frames /\ Top.base \in Names /\ Top.rc = 0 /\ FrameInv(h, L)
      /\ tree[Top.dirfd][Top.base] = s /\ h[s] < h[Top.dirfd] /\ Room(h, s, L)
      /\ Top.seen \subseteq AnyName
  <2>1. Top.sub # NONE
    BY <1>3, TreeAssumption DEF Nodes
  <2>2. Top \in Frames /\ Top.base \in Names /\ Top.rc = 0 /\ FrameInv(h, L)
    BY <1>1, <1>2, SmoothTop
  <2>3. Top.seen \subseteq AnyName
    BY <2>2 DEF Frames
  <2>. QED
    BY <1>2, <1>3, <2>1, <2>2, <2>3, SmoothFrames
<1>5. ReadingInv(L)
  BY <1>1, <1>4 DEF FrameInv
<1>6. n \in Top.must /\ n \notin Top.seen
  BY <1>1, <1>2, <1>5 DEF MayRead, ReadingInv
<1>7. n \in Names => tree[s][n] # NONE
  BY <1>2, <1>3, <1>5, <1>6 DEF ReadingInv
<1>. DEFINE f == [Top EXCEPT !.seen = @ \cup {n}]
            g == Call(s, n)
<1>8. f \in Frames /\ g \in Frames
  <2>1. Top.seen \cup {n} \in SUBSET AnyName
    BY <1>4
  <2>2. f \in Frames
    BY <1>4, <2>1 DEF Frames
  <2>. QED
    BY <2>2 DEF Frames, Call
<1>9. /\ f.dirfd = Top.dirfd /\ f.base = Top.base /\ f.rc = 0 /\ f.sub = s
      /\ f.must = Top.must /\ f.seen = Top.seen \cup {n}
  BY <1>3, <1>4 DEF Frames
<1>10. g.dirfd = s /\ g.base = n /\ g.rc = 0 /\ g.seen = {}
  BY DEF Call
<1>11. stack' = Append([stack EXCEPT ![Len(stack)] = f], g)
  BY <1>3 DEF ReadEntry
<1>. HIDE DEF f, g
<1>12. /\ stack' \in Seq(Frames) /\ Len(stack') = L + 1 /\ Last(stack') = g /\ stack'[L] = f
       /\ \A k \in 1..(L - 1) : stack'[k] = stack[k]
  <2>1. PICK s0, f0, g0, t : s0 = stack /\ f0 = f /\ g0 = g /\ t = stack'
    OBVIOUS
  <2>2. s0 \in Seq(Frames) /\ s0 # <<>> /\ f0 \in Frames /\ g0 \in Frames /\ Len(s0) = L
    BY <1>2, <1>8, <2>1
  <2>3. PICK r : r = [s0 EXCEPT ![Len(s0)] = f0] /\ t = Append(r, g0)
    BY <1>2, <1>11, <2>1
  <2>4. r \in Seq(Frames) /\ Len(r) = L /\ Last(r) = f0 /\ \A k \in 1..(L - 1) : r[k] = s0[k]
    BY <2>2, <2>3, SetTopFacts
  <2>5. t \in Seq(Frames) /\ Len(t) = L + 1 /\ Last(t) = g0 /\ \A k \in 1..L : t[k] = r[k]
    <3>1. r \in Seq(Frames) /\ g0 \in Frames /\ t = Append(r, g0)
      BY <2>2, <2>3, <2>4
    <3>2. /\ t \in Seq(Frames) /\ Len(t) = Len(r) + 1 /\ Last(t) = g0
          /\ \A k \in 1..Len(r) : t[k] = r[k]
      BY <3>1, AppendFacts, Zenon
    <3>. QED
      BY <2>4, <3>2
  <2>6. L \in 1..L /\ \A k \in 1..(L - 1) : k \in 1..L
    BY <1>2
  <2>. QED
    BY <2>1, <2>4, <2>5, <2>6 DEF Last
<1>13. DOMAIN stack' = 1..(L + 1) /\ stack'[L + 1] = g /\ Top' = g
  BY <1>12 DEF Last, Top
<1>14. \A k \in 1..L : /\ stack'[k].dirfd = stack[k].dirfd /\ stack'[k].base = stack[k].base
                       /\ stack'[k].rc = stack[k].rc
  <2>1. \A k \in 1..L : k \in 1..(L - 1) \/ k = L
    OBVIOUS
  <2>. QED
    BY <1>2, <1>4, <1>9, <1>12, <2>1
<1>15. args' = args
  BY SmoothBefore DEF Known
<1>16. RemovedSoFar'
  <2>. SUFFICES ASSUME NEW e \in removed
                PROVE  \E j \in DOMAIN args :
                          /\ j < idx \/ (j = idx /\ pc' # "operand")
                          /\ BelowOperand(j, e[1], e[2])
    BY <1>1, <1>15 DEF RemovedSoFar, BelowOperand, Intended
  <2>. QED
    BY <1>1 DEF SmoothInv, RemovedSoFar
<1>17. Descending(h)'
  <2>. SUFFICES ASSUME NEW j \in 1..(L + 1), NEW k \in 1..(L + 1), j < k
                PROVE  h[stack'[k].dirfd] < h[stack'[j].dirfd]
    BY <1>13 DEF Descending
  <2>1. j \in 1..L /\ stack'[j].dirfd = stack[j].dirfd /\ stack[j].dirfd \in Dirs
    <3>1. j \in 1..L
      OBVIOUS
    <3>. QED
      BY <1>2, <1>14, <3>1, SmoothFrames
  <2>2. Descending(h) /\ h \in [Dirs -> Nat]
    BY DEF SmoothInv, Heights
  <2>3. CASE k = L + 1
    <3>1. stack'[k].dirfd = s
      BY <1>10, <1>13, <2>3
    <3>2. h[stack[L].dirfd] <= h[stack[j].dirfd]
      <4>1. CASE j = L
        BY <2>1, <2>2, <4>1
      <4>2. CASE j # L
        <5>1. j < L
          BY <2>1, <4>2
        <5>2. h[stack[L].dirfd] < h[stack[j].dirfd]
          BY <1>2, <2>1, <2>2, <5>1 DEF Descending
        <5>3. stack[L].dirfd \in Dirs
          BY <1>2, SmoothFrames
        <5>. QED
          BY <2>1, <2>2, <5>2, <5>3
      <4>. QED
        BY <4>1, <4>2
    <3>3. stack[L].dirfd \in Dirs
      BY <1>2, SmoothFrames
    <3>. QED
      BY <1>2, <1>4, <2>1, <2>2, <3>1, <3>2, <3>3
  <2>4. CASE k # L + 1
    <3>1. k \in 1..L
      BY <2>4
    <3>. QED
      BY <1>2, <1>14, <2>1, <2>2, <3>1 DEF Descending
  <2>. QED
    BY <2>3, <2>4
<1>18. FrameInv(h, L + 1)'
  <2>1. tree[s][n] \in Dirs /\ n \in Names => Room(h, tree[s][n], L + 1)
    <3>. SUFFICES ASSUME tree[s][n] \in Dirs, n \in Names PROVE Room(h, tree[s][n], L + 1)
      OBVIOUS
    <3>1. StartTree[s][n] = tree[s][n]
      BY <1>7, SmoothTree
    <3>2. PICK d \in Dirs : d = tree[s][n]
      OBVIOUS
    <3>3. h[d] < h[s] /\ h[d] \in Nat /\ h[s] \in Nat
      BY <3>1, <3>2 DEF Heights
    <3>4. Room(h, d, L + 1)
      BY <1>4, <3>3, RmAssumption DEF Room
    <3>. QED
      BY <3>2, <3>4
  <2>2. ~(L + 1 < Len(stack')) /\ L + 1 = Len(stack')
    BY <1>12
  <2>. QED
    BY <1>1, <1>7, <1>10, <1>13, <2>1, <2>2 DEF FrameInv
<1>19. ReadingInv(L)'
  <2>1. L < Len(stack') /\ stack'[L + 1].base = n
    BY <1>10, <1>12, <1>13
  <2>2. EntriesOf(tree', s) \subseteq f.must
    BY <1>1, <1>2, <1>3, <1>5, <1>9 DEF ReadingInv
  <2>3. ASSUME NEW m \in f.must \cap Names
        PROVE  tree[s][m] # NONE <=> m \notin f.seen \/ m = n
    <3>1. tree[s][m] # NONE <=> m \notin Top.seen
      BY <1>2, <1>3, <1>5, <1>9 DEF ReadingInv
    <3>. QED
      BY <1>6, <1>9, <3>1
  <2>. QED
    BY <1>1, <1>9, <1>12, <2>1, <2>2, <2>3 DEF ReadingInv
<1>20. ASSUME NEW k \in 1..(L - 1) PROVE ReadingInv(k)'
  <2>1. k \in DOMAIN stack /\ k < L /\ k \in Nat /\ k + 1 \in 1..L
    BY <1>2
  <2>2. ReadingInv(k)
    BY <1>2, <2>1 DEF SmoothInv, FrameInv
  <2>3. stack'[k] = stack[k] /\ stack'[k + 1].base = stack[k + 1].base
    BY <1>12, <1>14, <2>1
  <2>4. k < Len(stack') /\ k < Len(stack)
    BY <1>2, <1>12, <2>1
  <2>. QED
    BY <1>1, <2>2, <2>3, <2>4 DEF ReadingInv
<1>21. ASSUME NEW k \in 1..L PROVE FrameInv(h, k)'
  <2>1. k \in DOMAIN stack /\ stack[k].base \in Names
    <3>1. FrameInv(h, k) /\ pc # "lstat"
      BY <1>1, <1>2 DEF SmoothInv
    <3>. QED
      BY <1>2, <3>1 DEF FrameInv
  <2>2. FrameInv(h, k)
    BY <2>1 DEF SmoothInv
  <2>3. ReadingInv(k)'
    <3>1. k = L \/ k \in 1..(L - 1)
      OBVIOUS
    <3>. QED
      BY <1>19, <1>20, <3>1
  <2>. QED
    BY <1>1, <1>14, <2>1, <2>2, <2>3 DEF FrameInv
<1>22. TopInv'
  BY <1>1, <1>10, <1>13 DEF TopInv
<1>23. \A k \in DOMAIN stack' : FrameInv(h, k)'
  <2>1. \A k \in 1..(L + 1) : k = L + 1 \/ k \in 1..L
    OBVIOUS
  <2>. QED
    BY <1>13, <1>18, <1>21, <2>1
<1>. QED
  BY <1>1, <1>16, <1>17, <1>22, <1>23 DEF SmoothInv

LEMMA NextSmooth ==
  ASSUME Known, NEW h \in Heights, RoomBelow(h), SmoothInv(h), [Next]_vars
  PROVE  SmoothInv(h)'
<1>. SUFFICES ASSUME Smooth' PROVE SmoothInv(h)'
  BY DEF SmoothInv
<1>1. Smooth /\ ~Other
  BY SmoothBefore DEF Known
<1>2. CASE UNCHANGED vars
  BY <1>1, <1>2 DEF vars, SmoothInv, RemovedSoFar, BelowOperand, Intended, TopInv, Top,
    Descending, FrameInv, ReadingInv
<1>3. CASE Step
  BY <1>1, <1>3, SmoothOperandSteps, SmoothLooks, SmoothRemoves, SmoothOpens, SmoothCloses,
     SmoothReads DEF Step
<1>. QED
  BY <1>1, <1>2, <1>3 DEF Next, Done

(* rm -R of any hierarchy, with nothing in the way and two descriptors for *)
(* each level of it, removes every entry of it, nothing else, and exits 0: *)
(* no entry is looked for that rm itself has removed, and every directory  *)
(* is empty when it comes to be removed (rm, iterate_directory).           *)
THEOREM HierarchyIsRemoved ==
  ASSUME \E h \in Heights : RoomBelow(h) PROVE Spec => []RemovesEverything
<1>1. PICK h \in Heights : RoomBelow(h)
  OBVIOUS
<1>2. Init => SmoothInv(h)
  BY DEF Init, SmoothInv, RemovedSoFar, TopInv, Asking, Descending
<1>3. Known /\ SmoothInv(h) /\ [Next]_vars => SmoothInv(h)'
  BY <1>1, NextSmooth
<1>4. SmoothInv(h) /\ (err = 0 => RemovesEverything) => RemovesEverything
  BY DEF SmoothInv, Smooth, RemovesEverything
<1>5. TypeInv /\ CwdInv /\ FdsBalanced /\ TreeInv /\ BelowInv /\ AloneInv => Known
  BY DEF Known
<1>. QED
  BY <1>2, <1>3, <1>4, <1>5, TypeInvariant, CwdInvariant, FdsAlwaysBalanced, BelowInvariant,
     AloneInvariant, WholeHierarchyGone, PTL DEF Spec
=============================================================================
