------------------------------ MODULE ChownProofs ------------------------------
(***************************************************************************)
(* Theorems about Chown, for every tree, operand list, option list and     *)
(* descriptor limit, and any number of steps of other processes.           *)
(***************************************************************************)
EXTENDS Chown, TLAPS

(* chown is at an operand from its stat to the end of its walk.            *)
InPlace ==
  /\ pc \notin {"operand", "done"} => idx \in DOMAIN args
  /\ pc = "done" => idx > Len(args)
TypeInv == TypeOK /\ InPlace

(* The strengthening of EntriesLookedUpInPlace: a directory that has been  *)
(* entered once can be gone back to.                                       *)
CwdInv ==
  /\ EntriesLookedUpInPlace
  /\ \A k \in DOMAIN stack : CanEnter(mode, stack[k].dir)

-----------------------------------------------------------------------------
(* What other processes have made of the tree: an entry is as it was or as *)
(* one of them has made it, and the directories are where they were.       *)
TreeInv ==
  \A d \in Dirs, n \in Names :
    /\ \/ tree[d][n] = Tree[d][n]
       \/ \E r \in replaced : r[1] = d /\ r[2] = n /\ r[3] = tree[d][n]
    /\ \A e \in Dirs : tree[d][n] = e <=> Tree[d][n] = e

(* The strengthening of OperandsIndependent: without -R chown stays where  *)
(* it is, what stat() said of an operand nobody replaces holds until the   *)
(* operand is changed, and what is promised of all operands is true of     *)
(* those it has dealt with.                                                *)
Flat == ~opts.R /\ \A i \in DOMAIN args : PlainOperand(i)
FlatInv ==
  ~opts.R => stack = <<>> /\ cwd = StartDir /\ pc \notin {"iterate", "readdir"}
OnlyMeant ==
  \A node \in Nodes : owner[node] = "new" =>
    node \notin locked /\ \E i \in DOMAIN args : node \in Meant(i)
DealtWith(i) ==
  IF StartNode(i) \in locked THEN exit_status = 1 ELSE owner[StartNode(i)] = "new"
FailureMeant ==
  exit_status = 1 => \E i \in DOMAIN args : ~Steady(i) \/ StartNode(i) \in locked
StatTrue ==
  pc = "callback" /\ Steady(idx) =>
    st = [kind |-> KindOf(StartNode(idx)), own |-> owner[StartNode(idx)]]
OperandsInv ==
  Flat =>
    /\ OnlyMeant /\ FailureMeant /\ StatTrue
    /\ \A i \in DOMAIN args : i < idx /\ Steady(i) => DealtWith(i)

IInv == TypeInv /\ FdsBalanced /\ CwdInv /\ TreeInv /\ FlatInv /\ OperandsInv

-----------------------------------------------------------------------------
(* Operators of the model.                                                 *)

LEMMA NodeFacts ==
  /\ \A node \in Nodes : LeadsTo(node) \in Nodes /\ node # NONE
  /\ \A node \in Nodes : KindOf(node) \in {"dir", "link", "file"}
  /\ \A node \in Nodes : KindOf(node) = "link" <=> IsLink(node)
  /\ LeadsTo(NONE) = NONE
<1>1. LinkTo \in [Leaves -> Dirs \cup {NONE}] /\ NONE \notin Nodes
      /\ Dirs \cap Leaves = {} /\ Nodes = Dirs \cup Leaves
  BY TreeAssumption DEF Nodes
<1>2. ASSUME NEW node \in Nodes
      PROVE  /\ LeadsTo(node) \in Nodes /\ node # NONE
             /\ KindOf(node) \in {"dir", "link", "file"}
             /\ KindOf(node) = "link" <=> IsLink(node)
  BY <1>1 DEF LeadsTo, IsLink, KindOf
<1>3. LeadsTo(NONE) = NONE
  BY <1>1 DEF LeadsTo, IsLink
<1>. QED
  BY <1>2, <1>3

LEMMA LookupType ==
  ASSUME NEW t \in Trees, NEW m \in Modes, NEW d \in Dirs, NEW n \in AnyName
  PROVE  Lookup(t, m, d, n) \in Nodes \cup {NONE}
BY TreeAssumption DEF Lookup, Parent, Above, Trees, Nodes, AnyName, Dots

LEMMA OpenType ==
  ASSUME NEW t \in Trees, NEW m \in Modes, NEW d \in Dirs, NEW n \in AnyName
  PROVE  OpenDirectory(t, m, d, n) \in Dirs \cup {NONE}
BY DEF OpenDirectory

(* The command line, and the name chown is at.                             *)
LEMMA CommandFacts ==
  ASSUME TypeInv
  PROVE  /\ args \in Seq(AnyName) /\ Len(args) \in Nat /\ DOMAIN args = 1..Len(args)
         /\ opts.R \in BOOLEAN /\ opts.h \in BOOLEAN
         /\ mode \in Modes /\ tree \in Trees /\ Tree \in Trees /\ StartDir \in Dirs
         /\ \A i \in DOMAIN args : args[i] \in AnyName
<1>1. args \in ArgLists /\ opts \in OptionSets /\ mode \in StartModes /\ tree \in Trees
  BY DEF TypeInv, TypeOK
<1>2. args \in Seq(AnyName) /\ opts \in [R : BOOLEAN, h : BOOLEAN, links : LinkOptions]
  BY <1>1, ChownAssumption
<1>3. mode \in Modes /\ Tree \in Trees /\ StartDir \in Dirs
  BY <1>1, ChownAssumption
<1>. QED
  BY <1>1, <1>2, <1>3

LEMMA NameFacts ==
  ASSUME TypeInv, stack # <<>> \/ idx \in DOMAIN args
  PROVE  Name \in AnyName /\ Here(Name) \in Nodes \cup {NONE}
<1>1. Name \in AnyName
  <2>1. CASE stack = <<>>
    BY <2>1, CommandFacts DEF Name
  <2>2. CASE stack # <<>>
    <3>1. stack \in Seq(Frames) /\ Len(stack) \in Nat /\ Len(stack) > 0
      BY <2>2 DEF TypeInv, TypeOK
    <3>2. Top \in Frames
      BY <3>1 DEF Top, Last
    <3>. QED
      BY <2>2, <3>2 DEF Name, Frames
  <2>. QED
    BY <2>1, <2>2
<1>2. cwd \in Dirs
  BY DEF TypeInv, TypeOK
<1>. QED
  BY <1>1, <1>2, CommandFacts, LookupType DEF Here

-----------------------------------------------------------------------------
(* The stack.                                                              *)
LEMMA StackFacts ==
  ASSUME TypeInv
  PROVE  /\ stack \in Seq(Frames) /\ Len(stack) \in Nat /\ DOMAIN stack = 1..Len(stack)
         /\ stack = <<>> <=> Len(stack) = 0
         /\ stack # <<>> => /\ Len(stack) >= 1 /\ Top \in Frames /\ Top = stack[Len(stack)]
                            /\ Top.dir \in Dirs /\ Top.name \in AnyName
<1>1. stack \in Seq(Frames)
  BY DEF TypeInv, TypeOK
<1>2. stack # <<>> => stack[Len(stack)] \in Frames
  BY <1>1
<1>. QED
  BY <1>1, <1>2 DEF Top, Last, Frames

LEMMA LastFacts ==
  ASSUME NEW s \in Seq(Frames), s # <<>>
  PROVE  /\ Last(s) = s[Len(s)] /\ Len(s) \in DOMAIN s /\ Len(s) >= 1
         /\ Last(s) \in Frames /\ Last(s).dir \in Dirs /\ Last(s).dir # NONE
<1>1. Len(s) \in DOMAIN s /\ Len(s) >= 1 /\ s[Len(s)] \in Frames
  OBVIOUS
<1>2. NONE \notin Dirs
  BY TreeAssumption DEF Nodes
<1>. QED
  BY <1>1, <1>2 DEF Last, Frames

(* Reading an entry notes it in the top frame.                             *)
LEMMA SetTopFacts ==
  ASSUME NEW s \in Seq(Frames), s # <<>>, NEW f \in Frames
  PROVE  LET t == [s EXCEPT ![Len(s)] = f]
         IN /\ t \in Seq(Frames) /\ t # <<>> /\ Len(t) = Len(s)
            /\ Last(t) = f /\ \A k \in 1..(Len(s) - 1) : t[k] = s[k]
<1>. DEFINE t == [s EXCEPT ![Len(s)] = f]
<1>1. Len(s) \in Nat /\ Len(s) > 0
  OBVIOUS
<1>2. t \in Seq(Frames) /\ Len(t) = Len(s) /\ t[Len(s)] = f
  BY <1>1
<1>3. t # <<>>
  BY <1>1, <1>2
<1>4. ASSUME NEW k \in 1..(Len(s) - 1) PROVE t[k] = s[k]
  <2>1. k \in 1..Len(s) /\ k # Len(s)
    OBVIOUS
  <2>. QED
    BY <2>1
<1>5. Last(t) = f
  BY <1>2 DEF Last
<1>. QED
  BY <1>2, <1>3, <1>4, <1>5

LEMMA PushFacts ==
  ASSUME NEW s \in Seq(Frames), NEW f \in Frames
  PROVE  LET t == Append(s, f)
         IN /\ t \in Seq(Frames) /\ t # <<>> /\ Len(t) = Len(s) + 1
            /\ Last(t) = f /\ \A k \in 1..Len(s) : t[k] = s[k]
<1>1. /\ Append(s, f) \in Seq(Frames) /\ Len(Append(s, f)) = Len(s) + 1
      /\ Append(s, f)[Len(s) + 1] = f /\ \A k \in 1..Len(s) : Append(s, f)[k] = s[k]
  OBVIOUS
<1>2. Append(s, f) # <<>> /\ Last(Append(s, f)) = f
  BY <1>1 DEF Last
<1>. QED
  BY <1>1, <1>2

LEMMA PopFacts ==
  ASSUME NEW s \in Seq(Frames), s # <<>>
  PROVE  LET t == Front(s)
         IN /\ t \in Seq(Frames) /\ Len(t) = Len(s) - 1
            /\ \A k \in 1..(Len(s) - 1) : t[k] = s[k]
            /\ t # <<>> => Len(s) > 1 /\ Last(t) = s[Len(s) - 1]
<1>1. Len(s) \in Nat /\ Len(s) > 0
  OBVIOUS
<1>2. /\ Front(s) \in Seq(Frames) /\ Len(Front(s)) = Len(s) - 1
      /\ \A k \in 1..(Len(s) - 1) : Front(s)[k] = s[k]
  <2>. DEFINE n == Len(s) - 1
  <2>1. n \in Nat /\ \A k \in 1..n : s[k] \in Frames
    BY <1>1
  <2>. HIDE DEF n
  <2>2. SubSeq(s, 1, n) \in Seq(Frames) /\ Len(SubSeq(s, 1, n)) = n
        /\ \A k \in 1..n : SubSeq(s, 1, n)[k] = s[k]
    BY <2>1
  <2>. QED
    BY <2>2 DEF Front, n
<1>3. Front(s) # <<>> => Len(s) > 1 /\ Last(Front(s)) = s[Len(s) - 1]
  <2>. SUFFICES ASSUME Front(s) # <<>>
                PROVE  Len(s) > 1 /\ Last(Front(s)) = s[Len(s) - 1]
    OBVIOUS
  <2>1. Len(Front(s)) > 0
    BY <1>2
  <2>. QED
    BY <1>1, <1>2, <2>1 DEF Last
<1>. QED
  BY <1>2, <1>3

-----------------------------------------------------------------------------
(* Type correctness.                                                       *)
LEMMA InitType == Init => TypeInv
<1>. SUFFICES ASSUME Init PROVE TypeInv
  OBVIOUS
<1>1. tree \in Trees /\ cwd \in Dirs
  BY ChownAssumption DEF Init
<1>. QED
  BY <1>1 DEF Init, TypeInv, TypeOK, InPlace, Stats, Frames

LEMMA StatType ==
  ASSUME TypeInv, NEW node \in Nodes \cup {NONE}, NEW follow, Stat(node, follow)
  PROVE  st' \in Stats
<1>1. CASE node = NONE
  BY <1>1 DEF Stat
<1>2. CASE node # NONE
  <2>. DEFINE found == IF follow THEN LeadsTo(node) ELSE node
  <2>1. found \in Nodes
    BY <1>2, NodeFacts
  <2>. HIDE DEF found
  <2>2. KindOf(found) \in {"dir", "link", "file"} /\ owner[found] \in {"new", "old"}
    BY <2>1, NodeFacts DEF TypeInv, TypeOK
  <2>3. st' = [kind |-> KindOf(found), own |-> owner[found]]
    BY <1>2 DEF Stat, found
  <2>. QED
    BY <2>2, <2>3 DEF Stats
<1>. QED
  BY <1>1, <1>2

(* What the steps of an operand's callback have in common.                 *)
Callback == ChownRefused \/ ChangeOwner \/ ChangeLink \/ FollowOperand \/ FollowEntry
LEMMA CallbackFacts ==
  ASSUME TypeInv, Callback
  PROVE  /\ pc = "callback" /\ UNCHANGED <<given, cwd, nfd, stack, st>>
         /\ \/ exit_status' = 1 /\ UNCHANGED owner
            \/ UNCHANGED <<exit_status, owner>>
            \/ /\ UNCHANGED exit_status
               /\ \E node \in {Target, Here(Name)} : ~Refused(node) /\ Give(node)
         /\ \/ Resume(stack)
            \/ pc' = "iterate" /\ UNCHANGED idx /\ opts.R
            \/ pc' = "iterate" /\ UNCHANGED idx /\ (FollowArg \/ FollowAll)
<1>. USE DEF Callback
<1>1. CASE ChownRefused
  BY <1>1 DEF ChownRefused, Fail
<1>2. CASE ChangeOwner
  BY <1>2 DEF ChangeOwner, GoOn
<1>3. CASE ChangeLink
  BY <1>3 DEF ChangeLink, IsOperandLink, Fail, GoOn
<1>4. CASE FollowOperand
  BY <1>4 DEF FollowOperand, IsOperandLink, FollowLink, Fail, GoOn
<1>5. CASE FollowEntry
  BY <1>5 DEF FollowEntry, FollowLink, Fail, GoOn
<1>. QED
  BY <1>1, <1>2, <1>3, <1>4, <1>5

LEMMA NextType == TypeInv /\ [Next]_vars => TypeInv'
<1>. SUFFICES ASSUME TypeInv, [Next]_vars PROVE TypeInv'
  OBVIOUS
<1>. USE DEF given, fs
<1>0. /\ idx \in Nat \ {0} /\ exit_status \in 0..1 /\ nfd \in Int /\ cwd \in Dirs
      /\ owner \in [Nodes -> {"new", "old"}]
      /\ pc \notin {"operand", "done"} => idx \in DOMAIN args
  BY DEF TypeInv, TypeOK, InPlace
<1>1. CASE StatOperand /\ UNCHANGED fs
  <2>1. Here(args[idx]) \in Nodes \cup {NONE} /\ idx \in DOMAIN args
    BY <1>0, <1>1, CommandFacts, LookupType DEF StatOperand, Here
  <2>2. st' \in Stats
    BY <1>1, <2>1, StatType DEF StatOperand
  <2>. QED
    BY <1>1, <2>1, <2>2 DEF StatOperand, TypeInv, TypeOK, InPlace
<1>2. ASSUME NEW n \in AnyName, StatEntry(n), UNCHANGED fs PROVE TypeInv'
  <2>1. stack # <<>> /\ Here(n) \in Nodes \cup {NONE}
    BY <1>0, <1>2, CommandFacts, LookupType DEF StatEntry, TypeInv, TypeOK, Here
  <2>2. st' \in Stats
    BY <1>2, <2>1, StatType DEF StatEntry
  <2>. DEFINE f == [Top EXCEPT !.name = n, !.seen = @ \cup {n}]
  <2>3. f \in Frames
    BY <2>1, StackFacts DEF Frames
  <2>4. stack' \in Seq(Frames) /\ stack' # <<>>
    <3>1. stack \in Seq(Frames) /\ stack' = [stack EXCEPT ![Len(stack)] = f]
      BY <1>2 DEF StatEntry, TypeInv, TypeOK
    <3>. HIDE DEF f
    <3>. QED
      BY <2>1, <2>3, <3>1, SetTopFacts
  <2>5. idx \in DOMAIN args /\ pc' = "callback" /\ UNCHANGED <<idx, args>>
    BY <1>0, <1>2 DEF StatEntry
  <2>. QED
    BY <1>2, <2>2, <2>4, <2>5 DEF StatEntry, TypeInv, TypeOK, InPlace
<1>3. CASE Callback /\ UNCHANGED fs
  <2>1. owner' \in [Nodes -> {"new", "old"}] /\ exit_status' \in 0..1
    BY <1>0, <1>3, CallbackFacts DEF Give
  <2>2. /\ idx' \in Nat \ {0} /\ pc' \in {"operand", "iterate", "readdir"}
        /\ pc' = "readdir" => stack' # <<>>
        /\ pc' = "operand" => stack' = <<>>
        /\ pc' # "operand" => idx' \in DOMAIN args
    BY <1>0, <1>3, CallbackFacts DEF Resume
  <2>. QED
    BY <1>3, <2>1, <2>2, CallbackFacts DEF TypeInv, TypeOK, InPlace
<1>4. CASE (IterateRefused \/ IterateHalfway) /\ UNCHANGED fs
  <2>1. pc = "iterate" /\ Resume(stack)
    BY <1>4 DEF IterateRefused, IterateHalfway
  <2>2. Opened \in Dirs \cup {NONE}
    BY <1>0, <2>1, NameFacts, CommandFacts, OpenType DEF Opened
  <2>3. Back(stack) \in Dirs \cup {NONE}
    BY StackFacts DEF Back, curdir_fd, Top
  <2>4. cwd' \in Dirs
    BY <1>0, <1>4, <2>2, <2>3 DEF IterateRefused, IterateHalfway, CanStart
  <2>. QED
    BY <1>0, <1>4, <2>1, <2>4
    DEF IterateRefused, IterateHalfway, Resume, TypeInv, TypeOK, InPlace
<1>5. CASE Iterate /\ UNCHANGED fs
  <2>1. Opened \in Dirs
    <3>1. Opened \in Dirs \cup {NONE}
      BY <1>0, <1>5, NameFacts, CommandFacts, OpenType DEF Iterate, Opened
    <3>. QED
      BY <1>5, <3>1 DEF Iterate, CanStart
  <2>. DEFINE f == [dir |-> Opened, name |-> ".", seen |-> {}]
  <2>2. f \in Frames
    BY <2>1 DEF Frames, AnyName, Dots
  <2>3. stack' = Append(stack, f) /\ stack \in Seq(Frames)
    BY <1>5 DEF Iterate, TypeInv, TypeOK
  <2>. HIDE DEF f
  <2>4. stack' \in Seq(Frames) /\ stack' # <<>>
    BY <2>2, <2>3, PushFacts
  <2>. QED
    BY <1>0, <1>5, <2>1, <2>4 DEF Iterate, TypeInv, TypeOK, InPlace
<1>6. CASE IterateEnd /\ UNCHANGED fs
  <2>1. stack # <<>> /\ pc = "readdir" /\ stack' = Front(stack) /\ stack' \in Seq(Frames)
    BY <1>6, PopFacts DEF IterateEnd, TypeInv, TypeOK
  <2>2. cwd' \in Dirs
    <3>1. Back(Front(stack)) \in Dirs \cup {NONE}
      <4>1. CASE Front(stack) = <<>>
        BY <4>1 DEF Back, curdir_fd
      <4>2. CASE Front(stack) # <<>>
        <5>1. Last(Front(stack)) = stack[Len(stack) - 1] /\ Len(stack) > 1
          BY <2>1, <4>2, StackFacts, PopFacts
        <5>2. stack[Len(stack) - 1] \in Frames
          BY <5>1, StackFacts
        <5>. QED
          BY <4>2, <5>1, <5>2 DEF Back, Frames
      <4>. QED
        BY <4>1, <4>2
    <3>. QED
      BY <1>0, <1>6, <3>1 DEF IterateEnd, GoBack
  <2>3. idx \in DOMAIN args /\ Resume(stack')
    BY <1>0, <1>6, <2>1 DEF IterateEnd
  <2>. QED
    BY <1>0, <1>6, <2>1, <2>2, <2>3 DEF IterateEnd, Resume, TypeInv, TypeOK, InPlace
<1>7. CASE Exit /\ UNCHANGED fs
  BY <1>7 DEF Exit, TypeInv, TypeOK, InPlace
<1>8. CASE OtherReplaces
  <2>1. tree' \in Trees /\ replaced' \subseteq Replacements
    <3>1. PICK r \in Replacements : tree' = [tree EXCEPT ![r[1]][r[2]] = r[3]]
                                    /\ replaced' = replaced \cup {r}
      BY <1>8 DEF OtherReplaces
    <3>2. r[1] \in Dirs /\ r[2] \in Names /\ r[3] \in Nodes \cup {NONE}
      BY <3>1, ChownAssumption DEF Nodes
    <3>. QED
      BY <3>1, <3>2 DEF TypeInv, TypeOK, Trees
  <2>. QED
    BY <1>8, <2>1 DEF OtherReplaces, TypeInv, TypeOK, InPlace
<1>9. CASE UNCHANGED vars
  BY <1>9 DEF vars, TypeInv, TypeOK, InPlace
<1>. QED
  BY <1>1, <1>2, <1>3, <1>4, <1>5, <1>6, <1>7, <1>8, <1>9 DEF Next, Step, Callback, Done

LEMMA TypeInvariant == Spec => []TypeInv
BY InitType, NextType, PTL DEF Spec

(* Type correctness for every tree, command line and descriptor limit, and *)
(* chown_dirent() is called inside a walk_iterate() only.                  *)
THEOREM TypeCorrect == Spec => []TypeOK
<1>1. TypeInv => TypeOK
  BY DEF TypeInv
<1>. QED
  BY <1>1, TypeInvariant, PTL

-----------------------------------------------------------------------------
(* Descriptors.                                                            *)
LEMMA NextFds == TypeInv /\ FdsBalanced /\ [Next]_vars => FdsBalanced'
<1>. SUFFICES ASSUME TypeInv, FdsBalanced, [Next]_vars PROVE FdsBalanced'
  OBVIOUS
<1>0. nfd = 2 * Len(stack) /\ Len(stack) \in Nat /\ stack \in Seq(Frames)
  BY StackFacts DEF FdsBalanced
<1>1. ASSUME NEW n \in AnyName, StatEntry(n) PROVE FdsBalanced'
  <2>1. Len(stack') = Len(stack) /\ UNCHANGED nfd
    BY <1>0, <1>1 DEF StatEntry
  <2>. QED
    BY <1>0, <2>1 DEF FdsBalanced
<1>2. CASE Iterate
  <2>1. Len(stack') = Len(stack) + 1 /\ nfd' = nfd + 2
    BY <1>0, <1>2 DEF Iterate
  <2>. QED
    BY <1>0, <2>1 DEF FdsBalanced
<1>3. CASE IterateEnd
  <2>1. stack # <<>> /\ stack' = Front(stack) /\ nfd' = nfd - 2
    BY <1>3 DEF IterateEnd, TypeInv, TypeOK
  <2>2. Len(stack') = Len(stack) - 1
    BY <1>0, <2>1, PopFacts
  <2>. QED
    BY <1>0, <2>1, <2>2 DEF FdsBalanced
<1>4. CASE Callback
  BY <1>4, CallbackFacts DEF FdsBalanced
<1>5. CASE StatOperand \/ IterateRefused \/ IterateHalfway \/ Exit \/ OtherReplaces
  BY <1>5 DEF StatOperand, IterateRefused, IterateHalfway, Exit, OtherReplaces, FdsBalanced
<1>6. CASE UNCHANGED vars
  BY <1>6 DEF vars, FdsBalanced
<1>. QED
  BY <1>1, <1>2, <1>3, <1>4, <1>5, <1>6 DEF Next, Step, Callback, Done

(* walk_iterate() gives back the two descriptors of each directory level   *)
(* on every one of its error paths, at any depth.                          *)
THEOREM FdsAlwaysBalanced == Spec => []FdsBalanced
<1>1. Init => FdsBalanced
  BY DEF Init, FdsBalanced
<1>. QED
  BY <1>1, NextFds, TypeInvariant, PTL DEF Spec

-----------------------------------------------------------------------------
(* The working directory.                                                  *)
LEMMA NextCwd == TypeInv /\ TypeInv' /\ CwdInv /\ [Next]_vars => CwdInv'
<1>. SUFFICES ASSUME TypeInv, TypeInv', CwdInv, [Next]_vars PROVE CwdInv'
  OBVIOUS
<1>. USE DEF CwdInv, EntriesLookedUpInPlace
<1>0. /\ stack \in Seq(Frames) /\ Len(stack) \in Nat /\ DOMAIN stack = 1..Len(stack)
      /\ stack # <<>> => Top = stack[Len(stack)] /\ Len(stack) >= 1
      /\ stack' \in Seq(Frames) /\ DOMAIN stack' = 1..Len(stack')
      /\ stack' # <<>> => Top' = stack'[Len(stack')] /\ Len(stack') >= 1
  <2>1. stack \in Seq(Frames) /\ stack' \in Seq(Frames)
    BY DEF TypeInv, TypeOK
  <2>. QED
    BY <2>1, LastFacts DEF Top
<1>1. ASSUME NEW n \in AnyName, StatEntry(n) PROVE CwdInv'
  <2>. DEFINE f == [Top EXCEPT !.name = n, !.seen = @ \cup {n}]
  <2>1. stack # <<>> /\ f \in Frames /\ f.dir = Top.dir /\ UNCHANGED <<cwd, mode>>
    BY <1>1, StackFacts DEF StatEntry, TypeInv, TypeOK, Frames, given
  <2>2. stack' = [stack EXCEPT ![Len(stack)] = f]
    BY <1>1 DEF StatEntry
  <2>. HIDE DEF f
  <2>3. /\ Len(stack') = Len(stack) /\ stack'[Len(stack)] = f
        /\ \A k \in 1..(Len(stack) - 1) : stack'[k] = stack[k]
    <3>1. Len(stack') = Len(stack) /\ Last(stack') = f
          /\ \A k \in 1..(Len(stack) - 1) : stack'[k] = stack[k]
      <4>1. stack \in Seq(Frames) /\ stack # <<>> /\ f \in Frames
        BY <1>0, <2>1
      <4>. QED
        BY <2>2, <4>1, SetTopFacts
    <3>. QED
      BY <3>1 DEF Last
  <2>4. ASSUME NEW k \in DOMAIN stack' PROVE CanEnter(mode, stack'[k].dir)
    <3>1. k = Len(stack) \/ k \in 1..(Len(stack) - 1)
      BY <1>0, <2>3
    <3>. QED
      BY <1>0, <2>1, <2>3, <3>1
  <2>. QED
    BY <1>0, <2>1, <2>3, <2>4
<1>2. CASE Iterate
  <2>. DEFINE f == [dir |-> Opened, name |-> ".", seen |-> {}]
  <2>1. /\ stack' = Append(stack, f) /\ cwd' = f.dir /\ CanEnter(mode, f.dir)
        /\ UNCHANGED mode
    BY <1>2 DEF Iterate, CanStart, given
  <2>. HIDE DEF f
  <2>2. /\ Len(stack') = Len(stack) + 1 /\ stack'[Len(stack) + 1] = f
        /\ \A k \in 1..Len(stack) : stack'[k] = stack[k]
    BY <1>0, <2>1
  <2>3. ASSUME NEW k \in DOMAIN stack' PROVE CanEnter(mode, stack'[k].dir)
    <3>1. k = Len(stack) + 1 \/ k \in 1..Len(stack)
      BY <1>0, <2>2
    <3>. QED
      BY <1>0, <2>1, <2>2, <3>1
  <2>. QED
    BY <1>0, <2>1, <2>2, <2>3
<1>3. CASE IterateEnd
  <2>1. /\ stack # <<>> /\ stack' = Front(stack) /\ UNCHANGED mode
        /\ GoBack(Back(Front(stack)))
    BY <1>3 DEF IterateEnd, TypeInv, TypeOK, given
  <2>2. /\ Len(stack') = Len(stack) - 1 /\ \A k \in 1..(Len(stack) - 1) : stack'[k] = stack[k]
    BY <1>0, <2>1, PopFacts
  <2>3. ASSUME NEW k \in DOMAIN stack' PROVE CanEnter(mode, stack'[k].dir)
    BY <1>0, <2>2
  <2>4. stack' # <<>> => cwd' = Top'.dir
    <3>. SUFFICES ASSUME stack' # <<>> PROVE cwd' = Top'.dir
      OBVIOUS
    <3>1. Back(stack') = Top'.dir /\ Top' = stack'[Len(stack')] /\ Len(stack') \in DOMAIN stack'
      BY <1>0 DEF Back, Top
    <3>2. Top'.dir # NONE
      BY <1>0, LastFacts DEF Top
    <3>3. CanEnter(mode, Top'.dir)
      BY <2>3, <3>1
    <3>. QED
      BY <2>1, <3>1, <3>2, <3>3 DEF GoBack
  <2>. QED
    BY <2>1, <2>3, <2>4
<1>4. CASE IterateHalfway
  <2>1. /\ UNCHANGED <<stack, mode>>
        /\ cwd' = IF Back(stack) # NONE /\ CanEnter(mode, Back(stack)) THEN Back(stack) ELSE Opened
    BY <1>4 DEF IterateHalfway, given
  <2>2. stack # <<>> => Back(stack) = Top.dir /\ Top.dir # NONE /\ CanEnter(mode, Top.dir)
    <3>. SUFFICES ASSUME stack # <<>>
                  PROVE  Back(stack) = Top.dir /\ Top.dir # NONE /\ CanEnter(mode, Top.dir)
      OBVIOUS
    <3>1. Top.dir \in Dirs /\ NONE \notin Dirs
      BY StackFacts, TreeAssumption DEF Nodes
    <3>. QED
      BY <1>0, <3>1 DEF Back, Top
  <2>. QED
    BY <2>1, <2>2 DEF Top
<1>5. CASE StatOperand \/ Callback \/ IterateRefused \/ Exit \/ OtherReplaces \/ UNCHANGED vars
  <2>1. UNCHANGED <<stack, cwd, mode>>
    BY <1>5, CallbackFacts
    DEF StatOperand, IterateRefused, Exit, OtherReplaces, vars, given
  <2>. QED
    BY <2>1 DEF Top
<1>. QED
  BY <1>1, <1>2, <1>3, <1>4, <1>5 DEF Next, Step, Callback, Done

(* Every entry is looked up in the directory readdir() found it in: the    *)
(* fchdir() back from a subdirectory cannot fail inside the recursion.     *)
THEOREM EntriesAlwaysInPlace == Spec => []EntriesLookedUpInPlace
<1>1. Init => CwdInv
  BY DEF Init, CwdInv, EntriesLookedUpInPlace
<1>2. CwdInv => EntriesLookedUpInPlace
  BY DEF CwdInv
<1>. QED
  BY <1>1, <1>2, NextCwd, TypeInvariant, PTL DEF Spec

-----------------------------------------------------------------------------
(* Operands without -R.                                                    *)
LEMMA NextTree == TypeInv /\ TreeInv /\ [Next]_vars => TreeInv'
<1>. SUFFICES ASSUME TypeInv, TreeInv, [Next]_vars PROVE TreeInv'
  OBVIOUS
<1>1. CASE OtherReplaces
  <2>1. PICK r \in Replacements :
          /\ tree[r[1]][r[2]] \notin Dirs \cup {r[3]}
          /\ tree' = [tree EXCEPT ![r[1]][r[2]] = r[3]]
          /\ replaced' = replaced \cup {r}
    BY <1>1 DEF OtherReplaces
  <2>2. r[1] \in Dirs /\ r[2] \in Names /\ r[3] \notin Dirs
    BY <2>1, ChownAssumption, TreeAssumption DEF Nodes
  <2>3. tree \in [Dirs -> [Names -> Nodes \cup {NONE}]]
    BY DEF TypeInv, TypeOK, Trees
  <2>. SUFFICES ASSUME NEW d \in Dirs, NEW n \in Names
                PROVE  /\ \/ tree'[d][n] = Tree[d][n]
                          \/ \E q \in replaced' : q[1] = d /\ q[2] = n /\ q[3] = tree'[d][n]
                       /\ \A e \in Dirs : tree'[d][n] = e <=> Tree[d][n] = e
    BY DEF TreeInv
  <2>4. CASE d = r[1] /\ n = r[2]
    <3>1. tree'[d][n] = r[3] /\ r \in replaced'
      BY <2>1, <2>2, <2>3, <2>4
    <3>2. tree[d][n] \notin Dirs
      BY <2>1, <2>4
    <3>. QED
      BY <2>2, <2>4, <3>1, <3>2 DEF TreeInv
  <2>5. CASE ~(d = r[1] /\ n = r[2])
    <3>1. tree'[d][n] = tree[d][n]
      BY <2>1, <2>2, <2>3, <2>5
    <3>. QED
      BY <2>1, <3>1 DEF TreeInv
  <2>. QED
    BY <2>4, <2>5
<1>2. CASE UNCHANGED fs
  BY <1>2 DEF TreeInv, fs
<1>. QED
  BY <1>1, <1>2 DEF Next, Done, vars

LEMMA NextFlat == TypeInv /\ FlatInv /\ [Next]_vars => FlatInv'
<1>. SUFFICES ASSUME TypeInv, FlatInv, [Next]_vars, ~opts'.R PROVE FlatInv'
  BY DEF FlatInv
<1>1. ~opts.R
  BY CallbackFacts
  DEF Next, Step, Done, StatOperand, StatEntry, Callback, IterateRefused, IterateHalfway,
    Iterate, IterateEnd, Exit, OtherReplaces, given, vars
<1>2. stack = <<>> /\ cwd = StartDir /\ pc \notin {"iterate", "readdir"}
  BY <1>1 DEF FlatInv
<1>3. CASE Callback
  <2>1. Resume(stack) /\ UNCHANGED <<stack, cwd>>
    BY <1>1, <1>3, CallbackFacts DEF FollowArg, FollowAll
  <2>. QED
    BY <1>2, <2>1 DEF FlatInv, Resume
<1>4. CASE StatOperand \/ Exit \/ OtherReplaces \/ UNCHANGED vars
  BY <1>2, <1>4 DEF StatOperand, Exit, OtherReplaces, vars, FlatInv
<1>. QED
  BY <1>2, <1>3, <1>4
  DEF Next, Step, Done, Callback, StatEntry, IterateRefused, IterateHalfway, Iterate, IterateEnd

(* The directories are where they were, and so is what is above them.      *)
LEMMA SameParent ==
  ASSUME TreeInv, NEW d \in Dirs
  PROVE  Parent(tree, d) = Parent(Tree, d)
<1>1. Above(tree, d) = Above(Tree, d)
  BY DEF TreeInv, Above
<1>. QED
  BY <1>1 DEF Parent

(* What an operand names is what it named at first, or what others have    *)
(* put there.                                                              *)
LEMMA HereFacts ==
  ASSUME TypeInv, TreeInv, FlatInv, Flat, NEW i \in DOMAIN args
  PROVE  /\ Here(args[i]) \in {StartNode(i)} \cup PutAt(i)
         /\ StartNode(i) \in Nodes /\ LeadsTo(StartNode(i)) = StartNode(i)
         /\ KindOf(StartNode(i)) # "link"
<1>. DEFINE n == args[i]
<1>1. n \in AnyName /\ mode \in Modes /\ Tree \in Trees /\ StartDir \in Dirs /\ cwd = StartDir
  BY CommandFacts DEF Flat, FlatInv
<1>2. StartNode(i) \in Nodes /\ ~IsLink(StartNode(i)) /\ StartNode(i) # NONE
  BY <1>1, LookupType DEF Flat, PlainOperand, StartNode
<1>3. Names \cap Dots = {} /\ "." \in Dots /\ ".." \in Dots
  BY TreeAssumption DEF Dots
<1>4. "x" \in mode[StartDir]
  <2>. SUFFICES ASSUME "x" \notin mode[StartDir] PROVE FALSE
    OBVIOUS
  <2>1. StartNode(i) = NONE
    BY <1>1, <1>3 DEF StartNode, Lookup, AnyName, Dots
  <2>. QED
    BY <1>2, <2>1
<1>5. Here(n) \in {StartNode(i)} \cup PutAt(i)
  <2>1. CASE n = "."
    BY <1>1, <1>3, <1>4, <2>1 DEF Here, StartNode, Lookup
  <2>2. CASE n = ".."
    BY <1>1, <1>3, <1>4, <2>2, SameParent DEF Here, StartNode, Lookup
  <2>3. CASE n \in Names
    <3>1. Here(n) = tree[StartDir][n] /\ StartNode(i) = Tree[StartDir][n]
      BY <1>1, <1>3, <1>4, <2>3 DEF Here, StartNode, Lookup
    <3>2. CASE tree[StartDir][n] = Tree[StartDir][n]
      BY <3>1, <3>2
    <3>3. ASSUME NEW r \in replaced, r[1] = StartDir, r[2] = n, r[3] = tree[StartDir][n]
          PROVE  Here(n) \in PutAt(i)
      BY <3>1, <3>3 DEF PutAt
    <3>. QED
      BY <1>1, <2>3, <3>2, <3>3 DEF TreeInv
  <2>. QED
    BY <1>1, <2>1, <2>2, <2>3 DEF AnyName, Dots
<1>6. LeadsTo(StartNode(i)) = StartNode(i) /\ KindOf(StartNode(i)) # "link"
  BY <1>2, NodeFacts DEF LeadsTo
<1>. QED
  BY <1>2, <1>5, <1>6

(* What others put somewhere is noted for good.                            *)
LEMMA SameCmd ==
  ASSUME UNCHANGED given, replaced \subseteq replaced'
  PROVE  /\ args' = args /\ opts' = opts /\ mode' = mode /\ locked' = locked
         /\ Flat' = Flat
         /\ \A i : StartNode(i)' = StartNode(i)
         /\ \A i : Steady(i)' => Steady(i)
         /\ \A i : Meant(i) \subseteq Meant(i)'
<1>1. args' = args /\ opts' = opts /\ mode' = mode /\ locked' = locked
  BY DEF given
<1>2. \A i : StartNode(i)' = StartNode(i)
  BY <1>1 DEF StartNode
<1>3. \A i : PutAt(i) \subseteq PutAt(i)'
  BY <1>1 DEF PutAt
<1>4. Flat' = Flat
  BY <1>1, <1>2 DEF Flat, PlainOperand
<1>5. \A i : Steady(i)' => Steady(i)
  BY <1>3 DEF Steady
<1>6. \A i : Meant(i) \subseteq Meant(i)'
  BY <1>2, <1>3 DEF Meant
<1>. QED
  BY <1>1, <1>2, <1>4, <1>5, <1>6

(* One callback: its operand is dealt with, and nothing else happens.      *)
LEMMA CallbackDeals ==
  ASSUME TypeInv, TreeInv, FlatInv, Flat, OnlyMeant, StatTrue, Callback
  PROVE  /\ idx \in DOMAIN args /\ idx' = idx + 1 /\ pc' = "operand"
         /\ \A node \in Nodes : owner[node] = "new" => owner'[node] = "new"
         /\ \A node \in Nodes : owner'[node] = "new" =>
              owner[node] = "new" \/ (node \notin locked /\ node \in Meant(idx))
         /\ exit_status = 1 => exit_status' = 1
         /\ Steady(idx) =>
              IF StartNode(idx) \in locked THEN exit_status' = 1
              ELSE owner'[StartNode(idx)] = "new" /\ exit_status' = exit_status
<1>0. /\ idx \in DOMAIN args /\ pc = "callback" /\ stack = <<>> /\ ~FollowArg /\ ~FollowAll
      /\ owner \in [Nodes -> {"new", "old"}] /\ exit_status \in 0..1 /\ Name = args[idx]
  BY CallbackFacts
  DEF TypeInv, TypeOK, InPlace, Flat, FlatInv, FollowArg, FollowAll, Name
<1>. DEFINE s == StartNode(idx)
<1>1. /\ Here(Name) \in {s} \cup PutAt(idx) /\ s \in Nodes /\ LeadsTo(s) = s
      /\ KindOf(s) # "link" /\ Here(Name) \in Nodes \cup {NONE}
  BY <1>0, HereFacts, NameFacts
<1>2. idx' = idx + 1 /\ pc' = "operand"
  BY <1>0, CallbackFacts DEF Resume, Flat
<1>3. ASSUME NEW node \in {Target, Here(Name)}, ~Refused(node)
      PROVE  node \in Nodes /\ node \notin locked /\ node \in Meant(idx)
  <2>1. node # NONE /\ node \notin locked
    BY <1>3 DEF Refused
  <2>2. Here(Name) # NONE
    BY <1>3, <2>1, NodeFacts DEF Target
  <2>3. node \in Nodes
    BY <1>1, <1>3, <2>2, NodeFacts DEF Target
  <2>4. Here(Name) \in Meant(idx) /\ Target \in Meant(idx)
    BY <1>1 DEF Meant, Target
  <2>. QED
    BY <1>3, <2>1, <2>3, <2>4
<1>4. /\ exit_status = 1 => exit_status' = 1
      /\ \A node \in Nodes : owner[node] = "new" => owner'[node] = "new"
      /\ \A node \in Nodes : owner'[node] = "new" =>
           owner[node] = "new" \/ (node \notin locked /\ node \in Meant(idx))
  BY <1>0, <1>3, CallbackFacts DEF Give
<1>5. ASSUME Steady(idx)
      PROVE  IF s \in locked THEN exit_status' = 1
             ELSE owner'[s] = "new" /\ exit_status' = exit_status
  <2>1. Here(Name) = s /\ Target = s
    BY <1>1, <1>5 DEF Steady, Target
  <2>2. st.kind = KindOf(s) /\ st.own = owner[s]
    BY <1>0, <1>5 DEF StatTrue
  <2>3. ChownRefused \/ ChangeOwner
    BY <1>1, <2>2 DEF Callback, ChangeLink, FollowOperand, FollowEntry, IsOperandLink
  <2>4. owner[s] = "new" => s \notin locked
    BY <1>1 DEF OnlyMeant
  <2>5. s # NONE
    BY <1>1, TreeAssumption
  <2>6. CASE ChownRefused
    BY <2>1, <2>5, <2>6 DEF ChownRefused, Refused, Fail
  <2>7. CASE ChangeOwner /\ WantsChown
    BY <1>0, <1>1, <2>1, <2>7 DEF ChangeOwner, Refused, Give, GoOn
  <2>8. CASE ChangeOwner /\ ~WantsChown
    BY <1>0, <1>1, <2>2, <2>4, <2>8 DEF ChangeOwner, WantsChown, GoOn
  <2>. QED
    BY <2>3, <2>6, <2>7, <2>8
<1>. QED
  BY <1>0, <1>2, <1>4, <1>5

LEMMA NextOperands ==
  TypeInv /\ TreeInv /\ FlatInv /\ OperandsInv /\ [Next]_vars => OperandsInv'
<1>. SUFFICES ASSUME TypeInv, TreeInv, FlatInv, OperandsInv, [Next]_vars, Flat'
              PROVE  /\ OnlyMeant' /\ FailureMeant' /\ StatTrue'
                     /\ \A i \in DOMAIN args' : i < idx' /\ Steady(i)' => DealtWith(i)'
  BY DEF OperandsInv
<1>1. UNCHANGED given /\ replaced \subseteq replaced'
  BY CallbackFacts
  DEF Next, Step, Done, StatOperand, StatEntry, Callback, IterateRefused, IterateHalfway,
    Iterate, IterateEnd, Exit, OtherReplaces, vars, fs, given
<1>2. /\ args' = args /\ locked' = locked /\ Flat
      /\ \A i : StartNode(i)' = StartNode(i)
      /\ \A i : Steady(i)' => Steady(i)
      /\ \A i : Meant(i) \subseteq Meant(i)'
  BY <1>1, SameCmd
<1>3. /\ OnlyMeant /\ FailureMeant /\ StatTrue
      /\ \A i \in DOMAIN args : i < idx /\ Steady(i) => DealtWith(i)
      /\ stack = <<>> /\ pc \notin {"iterate", "readdir"} /\ idx \in Nat
      /\ \A i \in DOMAIN args : StartNode(i) \in Nodes
  BY <1>2, HereFacts DEF OperandsInv, FlatInv, Flat, TypeInv, TypeOK
<1>. HIDE DEF Flat
<1>4. CASE UNCHANGED <<owner, exit_status, idx>>
           /\ (pc' = "callback" => pc = "callback" /\ UNCHANGED st)
  <2>1. OnlyMeant' /\ FailureMeant'
    BY <1>2, <1>3, <1>4 DEF OnlyMeant, FailureMeant
  <2>2. StatTrue'
    BY <1>2, <1>3, <1>4 DEF StatTrue
  <2>3. \A i \in DOMAIN args' : i < idx' /\ Steady(i)' => DealtWith(i)'
    BY <1>2, <1>3, <1>4 DEF DealtWith
  <2>. QED
    BY <2>1, <2>2, <2>3
<1>5. CASE Callback
  <2>1. /\ idx \in DOMAIN args /\ idx' = idx + 1 /\ pc' = "operand"
        /\ \A node \in Nodes : owner[node] = "new" => owner'[node] = "new"
        /\ \A node \in Nodes : owner'[node] = "new" =>
             owner[node] = "new" \/ (node \notin locked /\ node \in Meant(idx))
        /\ exit_status = 1 => exit_status' = 1
        /\ Steady(idx) =>
             IF StartNode(idx) \in locked THEN exit_status' = 1
             ELSE owner'[StartNode(idx)] = "new" /\ exit_status' = exit_status
    BY <1>2, <1>3, <1>5, CallbackDeals
  <2>2. OnlyMeant'
    BY <1>2, <1>3, <2>1 DEF OnlyMeant
  <2>3. FailureMeant'
    <3>. SUFFICES ASSUME exit_status' = 1
                  PROVE  \E i \in DOMAIN args : ~Steady(i)' \/ StartNode(i) \in locked
      BY <1>2 DEF FailureMeant
    <3>1. CASE exit_status = 1
      BY <1>2, <1>3, <3>1 DEF FailureMeant
    <3>2. CASE exit_status # 1
      BY <1>2, <2>1, <3>2
    <3>. QED
      BY <3>1, <3>2
  <2>4. ASSUME NEW i \in DOMAIN args', i < idx', Steady(i)' PROVE DealtWith(i)'
    <3>1. i \in DOMAIN args /\ Steady(i) /\ (i < idx \/ i = idx)
      BY <1>2, <1>3, <2>1, <2>4, CommandFacts
    <3>2. CASE i < idx
      BY <1>2, <1>3, <2>1, <3>1, <3>2 DEF DealtWith
    <3>3. CASE i = idx
      BY <1>2, <2>1, <3>1, <3>3 DEF DealtWith
    <3>. QED
      BY <3>1, <3>2, <3>3
  <2>5. StatTrue'
    BY <2>1 DEF StatTrue
  <2>. QED
    BY <2>2, <2>3, <2>4, <2>5
<1>6. CASE StatOperand
  <2>0. idx \in Nat \ {0} /\ idx <= Len(args)
    BY <1>6 DEF StatOperand, TypeInv, TypeOK
  <2>1. UNCHANGED <<owner, exit_status, idx>> /\ Stat(Here(args[idx]), FollowArg)
        /\ idx \in DOMAIN args
    <3>1. UNCHANGED <<owner, exit_status, idx>> /\ Stat(Here(args[idx]), FollowArg)
      BY <1>6 DEF StatOperand
    <3>2. idx \in DOMAIN args
      BY <2>0, CommandFacts
    <3>. QED
      BY <3>1, <3>2
  <2>2. OnlyMeant' /\ FailureMeant' /\ \A i \in DOMAIN args' : i < idx' /\ Steady(i)' => DealtWith(i)'
    BY <1>2, <1>3, <2>1 DEF OnlyMeant, FailureMeant, DealtWith
  <2>3. ASSUME Steady(idx) PROVE st' = [kind |-> KindOf(StartNode(idx)), own |-> owner[StartNode(idx)]]
    <3>1. Here(args[idx]) = StartNode(idx) /\ StartNode(idx) # NONE
      BY <1>2, <2>1, <2>3, HereFacts, TreeAssumption DEF Steady
    <3>2. ~FollowArg
      BY <1>2 DEF Flat, FollowArg
    <3>. QED
      BY <2>1, <3>1, <3>2 DEF Stat
  <2>4. StatTrue'
    BY <1>2, <2>1, <2>3 DEF StatTrue
  <2>. QED
    BY <2>2, <2>4
<1>7. CASE Exit \/ OtherReplaces \/ UNCHANGED vars
  BY <1>4, <1>7 DEF Exit, OtherReplaces, vars
<1>. QED
  BY <1>3, <1>5, <1>6, <1>7
  DEF Next, Step, Done, Callback, StatEntry, IterateRefused, IterateHalfway, Iterate, IterateEnd

LEMMA Invariant == Spec => []IInv
<1>1. Init => IInv
  <2>. SUFFICES ASSUME Init PROVE IInv
    OBVIOUS
  <2>1. TypeInv
    BY InitType
  <2>2. FdsBalanced /\ CwdInv /\ TreeInv /\ FlatInv
    BY DEF Init, FdsBalanced, CwdInv, EntriesLookedUpInPlace, TreeInv, FlatInv
  <2>3. OnlyMeant /\ FailureMeant /\ StatTrue
    BY DEF Init, OnlyMeant, FailureMeant, StatTrue
  <2>4. \A i \in DOMAIN args : ~(i < idx)
    BY <2>1, CommandFacts DEF Init
  <2>. QED
    BY <2>1, <2>2, <2>3, <2>4 DEF IInv, OperandsInv
<1>2. IInv /\ [Next]_vars => IInv'
  BY NextType, NextFds, NextCwd, NextTree, NextFlat, NextOperands DEF IInv
<1>. QED
  BY <1>1, <1>2, PTL DEF Spec

(* Without -R the operands are independent: each one that another process  *)
(* leaves alone gets its owner whatever happens to the others, no other    *)
(* file does, and the status is 1 exactly if one could not be changed.     *)
THEOREM OperandsAreIndependent == Spec => []OperandsIndependent
<1>1. IInv => OperandsIndependent
  <2>. SUFFICES ASSUME IInv, pc = "done", Flat
                PROVE  /\ OnlyMeant /\ FailureMeant
                       /\ \A i \in DOMAIN args : Steady(i) => DealtWith(i)
    BY DEF OperandsIndependent, Flat, OnlyMeant, FailureMeant, DealtWith
  <2>1. TypeInv /\ idx > Len(args)
    BY DEF IInv, TypeInv, InPlace
  <2>2. \A i \in DOMAIN args : i < idx
    BY <2>1, CommandFacts DEF TypeInv, TypeOK
  <2>. QED
    BY <2>2 DEF IInv, OperandsInv
<1>. QED
  BY <1>1, Invariant, PTL

-----------------------------------------------------------------------------
(***************************************************************************)
(* How far a recursive walk reaches.                                       *)
(***************************************************************************)
Whole ==
  /\ opts.R /\ Len(args) = 1 /\ PlainOperand(1)
  /\ \A node \in BelowNodes(StartNode(1)) : Accessible(node)

(* Every directory is higher than those in it, and there are descriptors   *)
(* for each level below an operand.                                        *)
Heights == {h \in [Dirs -> Nat] :
  \A d \in Dirs, n \in Names : Tree[d][n] \in Dirs => h[Tree[d][n]] < h[d]}
Room(h, d, k) == 2 * (k + h[d]) <= MaxFds
RoomBelow(h) == \A a \in ArgLists, m \in StartModes :
  Len(a) = 1 /\ Lookup(Tree, m, StartDir, a[1]) \in Dirs
    => Room(h, Lookup(Tree, m, StartDir, a[1]), 1)

(* What is said of a node when chown is through with it, and with what is  *)
(* below it.                                                               *)
Settled(node) == IsLink(node) \/ node \in locked \/ Displaced(node) \/ owner[node] = "new"
SettledBelow(node) == \A x \in BelowNodes(node) : Settled(x)

(* What was, at first, the entry that the k-th walk_iterate() is at.       *)
Entry(k) ==
  IF k = 0 THEN StartNode(1)
  ELSE IF stack[k].name \in Names THEN Tree[stack[k].dir][stack[k].name] ELSE NONE

(* A level from which everything below can be reached.                     *)
Tracked(h, k) ==
  k > 0 => /\ \A node \in BelowNodes(stack[k].dir) : Accessible(node)
           /\ Room(h, stack[k].dir, k)

SeenSettled(k) ==
  \A n \in stack[k].seen \cap Names :
    /\ n # stack[k].name \/ (k = Len(stack) /\ pc = "readdir")
    /\ Tree[stack[k].dir][n] # NONE
    => SettledBelow(Tree[stack[k].dir][n])
Descends(k) ==
  /\ k < Len(stack) \/ pc = "iterate"
  /\ Entry(k) # NONE
  => /\ Settled(Entry(k))
     /\ k < Len(stack) /\ Entry(k) \in Dirs => stack[k + 1].dir = Entry(k)
Described(k) ==
  /\ k = Len(stack) /\ pc = "callback"
  /\ Entry(k) # NONE /\ ~IsLink(Entry(k)) /\ (Entry(k) \in Dirs \/ ~Displaced(Entry(k)))
  => st = [kind |-> KindOf(Entry(k)), own |-> owner[Entry(k)]]
LevelInv(k) == (k > 0 => SeenSettled(k)) /\ Descends(k) /\ Described(k)

ReachInv(h) ==
  Whole =>
    /\ idx = 1 /\ stack = <<>> => cwd = StartDir
    /\ idx > 1 => SettledBelow(StartNode(1))
    /\ \A k \in 0..Len(stack) : Tracked(h, k) => LevelInv(k)

-----------------------------------------------------------------------------
LEMMA SubtreeFacts ==
  ASSUME NEW d \in Dirs
  PROVE  /\ d \in SubtreeDirs(Tree, d)
         /\ \A p \in SubtreeDirs(Tree, d), n \in Names :
              Tree[p][n] \in Dirs => Tree[p][n] \in SubtreeDirs(Tree, d)
BY DEF SubtreeDirs, ClosedUnder

(* What is in a directory below another is below that.                     *)
LEMMA SubtreeOfEntry ==
  ASSUME NEW d \in Dirs, NEW n \in Names, Tree[d][n] \in Dirs
  PROVE  SubtreeDirs(Tree, Tree[d][n]) \subseteq SubtreeDirs(Tree, d)
<1>1. SubtreeDirs(Tree, d) \in SUBSET Dirs /\ ClosedUnder(Tree, SubtreeDirs(Tree, d))
      /\ Tree[d][n] \in SubtreeDirs(Tree, d)
  BY SubtreeFacts DEF SubtreeDirs, ClosedUnder
<1>. QED
  BY <1>1 DEF SubtreeDirs

(* A directory and what is below its entries is all that is below it.      *)
LEMMA SubtreeIs ==
  ASSUME NEW d \in Dirs, NEW p \in SubtreeDirs(Tree, d), p # d
  PROVE  \E n \in Names : Tree[d][n] \in Dirs /\ p \in SubtreeDirs(Tree, Tree[d][n])
<1>. DEFINE S == {d} \cup UNION {SubtreeDirs(Tree, Tree[d][n]) : n \in {m \in Names : Tree[d][m] \in Dirs}}
<1>1. S \in SUBSET Dirs
  BY DEF SubtreeDirs
<1>2. ASSUME NEW q \in S, NEW m \in Names, Tree[q][m] \in Dirs PROVE Tree[q][m] \in S
  <2>1. CASE q = d
    BY <1>2, <2>1, SubtreeFacts
  <2>2. CASE q # d
    <3>1. PICK n \in Names : Tree[d][n] \in Dirs /\ q \in SubtreeDirs(Tree, Tree[d][n])
      BY <2>2
    <3>2. Tree[q][m] \in SubtreeDirs(Tree, Tree[d][n])
      BY <1>2, <3>1, SubtreeFacts
    <3>. QED
      BY <3>1, <3>2
  <2>. QED
    BY <2>1, <2>2
<1>3. ClosedUnder(Tree, S) /\ d \in S
  BY <1>2 DEF ClosedUnder
<1>. HIDE DEF S
<1>4. p \in S
  BY <1>1, <1>3 DEF SubtreeDirs
<1>. QED
  BY <1>4 DEF S

LEMMA LeafBelow ==
  ASSUME NEW node, node \notin Dirs PROVE BelowNodes(node) = {node}
BY DEF BelowNodes

LEMMA BelowEntry ==
  ASSUME NEW d \in Dirs, NEW n \in Names, Tree[d][n] # NONE
  PROVE  /\ d \in BelowNodes(d) /\ BelowNodes(Tree[d][n]) \subseteq BelowNodes(d)
         /\ Tree[d][n] \in BelowNodes(d)
<1>1. d \in SubtreeDirs(Tree, d) /\ d # NONE
  BY SubtreeFacts, TreeAssumption DEF Nodes
<1>2. CASE Tree[d][n] \in Dirs
  <2>1. SubtreeDirs(Tree, Tree[d][n]) \subseteq SubtreeDirs(Tree, d)
    BY <1>2, SubtreeOfEntry
  <2>2. BelowNodes(Tree[d][n]) \subseteq BelowNodes(d)
    BY <1>2, <2>1 DEF BelowNodes
  <2>. QED
    BY <1>1, <1>2, <2>2 DEF BelowNodes
<1>3. CASE Tree[d][n] \notin Dirs
  BY <1>1, <1>3 DEF BelowNodes
<1>. QED
  BY <1>2, <1>3

LEMMA BelowIs ==
  ASSUME NEW d \in Dirs, NEW x \in BelowNodes(d)
  PROVE  x = d \/ \E n \in Names : Tree[d][n] # NONE /\ x \in BelowNodes(Tree[d][n])
<1>0. NONE \notin Dirs
  BY TreeAssumption DEF Nodes
<1>1. CASE x \in SubtreeDirs(Tree, d)
  <2>1. CASE x # d
    <3>1. PICK n \in Names : Tree[d][n] \in Dirs /\ x \in SubtreeDirs(Tree, Tree[d][n])
      BY <1>1, <2>1, SubtreeIs
    <3>2. x \in BelowNodes(Tree[d][n])
      <4>1. x # NONE
        BY <1>0, <3>1 DEF SubtreeDirs
      <4>. QED
        BY <3>1, <4>1 DEF BelowNodes
    <3>. QED
      BY <1>0, <3>1, <3>2
  <2>. QED
    BY <2>1
<1>2. CASE x \notin SubtreeDirs(Tree, d)
  <2>1. PICK p \in SubtreeDirs(Tree, d), m \in Names : x = Tree[p][m] /\ x # NONE
    BY <1>2 DEF BelowNodes
  <2>2. CASE p = d
    <3>1. x \notin Dirs
      BY <1>2, <2>1, <2>2, SubtreeFacts
    <3>. QED
      BY <2>1, <2>2, <3>1, LeafBelow
  <2>3. CASE p # d
    <3>1. PICK n \in Names : Tree[d][n] \in Dirs /\ p \in SubtreeDirs(Tree, Tree[d][n])
      BY <2>3, SubtreeIs
    <3>2. x \in BelowNodes(Tree[d][n])
      BY <2>1, <3>1 DEF BelowNodes
    <3>. QED
      BY <1>0, <3>1, <3>2
  <2>. QED
    BY <2>2, <2>3
<1>. QED
  BY <1>1, <1>2

(* What is settled stays settled, and what was asked for stays.            *)
LEMMA SettledStays ==
  ASSUME TypeInv, [Next]_vars
  PROVE  /\ UNCHANGED given /\ replaced \subseteq replaced'
         /\ \A node : Settled(node) => Settled(node)'
         /\ \A node : SettledBelow(node) => SettledBelow(node)'
         /\ \A node : Displaced(node) => Displaced(node)'
<1>1. UNCHANGED given
  BY CallbackFacts
  DEF Next, Step, Done, StatOperand, StatEntry, Callback, IterateRefused, IterateHalfway,
    Iterate, IterateEnd, Exit, OtherReplaces, vars
<1>2. replaced \subseteq replaced'
  BY DEF Next, OtherReplaces, fs, Done, vars
<1>3. \A node : owner[node] = "new" => owner'[node] = "new"
  <2>1. UNCHANGED owner \/ \E node : Give(node)
    <3>1. CASE Callback
      BY <3>1, CallbackFacts
    <3>. QED
      BY <3>1
      DEF Next, Step, Done, StatOperand, StatEntry, Callback, IterateRefused, IterateHalfway,
        Iterate, IterateEnd, Exit, OtherReplaces, vars
  <2>2. ASSUME NEW x, Give(x), NEW node, owner[node] = "new" PROVE owner'[node] = "new"
    <3>1. owner' = [owner EXCEPT ![x] = "new"] /\ DOMAIN owner = Nodes
      BY <2>2 DEF Give, TypeInv, TypeOK
    <3>2. CASE node \in Nodes
      BY <2>2, <3>1, <3>2
    <3>3. CASE node \notin Nodes
      BY <2>2, <3>1, <3>3
    <3>. QED
      BY <3>2, <3>3
  <2>. QED
    BY <2>1, <2>2
<1>4. \A node : Displaced(node) => Displaced(node)'
  BY <1>2 DEF Displaced
<1>5. \A node : Settled(node) => Settled(node)'
  BY <1>1, <1>3, <1>4 DEF Settled, given
<1>. QED
  BY <1>1, <1>2, <1>4, <1>5 DEF SettledBelow

-----------------------------------------------------------------------------
(* A directory that a tracked level is at has room, and is open, below it. *)
LEMMA EntryFacts ==
  ASSUME TypeInv, Whole, NEW h \in Heights, RoomBelow(h), NEW k \in 0..Len(stack), Tracked(h, k), Entry(k) # NONE
  PROVE  /\ Entry(k) \in Nodes
         /\ Entry(k) \in Dirs => /\ Room(h, Entry(k), k + 1) /\ Accessible(Entry(k))
                                 /\ \A node \in BelowNodes(Entry(k)) : Accessible(node)
<1>0. StartNode(1) \in Nodes /\ args \in ArgLists /\ mode \in StartModes /\ Len(args) = 1
  <2>1. 1 \in DOMAIN args /\ mode \in Modes /\ Tree \in Trees /\ StartDir \in Dirs /\ args[1] \in AnyName
    BY CommandFacts DEF Whole
  <2>2. StartNode(1) \in Nodes
    BY <2>1, LookupType DEF Whole, PlainOperand, StartNode
  <2>. QED
    BY <2>2 DEF Whole, TypeInv, TypeOK
<1>1. CASE k = 0
  <2>1. Entry(k) = StartNode(1)
    BY <1>1 DEF Entry
  <2>2. StartNode(1) \in Dirs => Room(h, StartNode(1), 1)
    BY <1>0 DEF RoomBelow, StartNode
  <2>3. StartNode(1) \in BelowNodes(StartNode(1))
    <3>1. CASE StartNode(1) \in Dirs
      BY <1>0, <3>1, SubtreeFacts, TreeAssumption DEF BelowNodes, Nodes
    <3>. QED
      BY <3>1, LeafBelow
  <2>. QED
    BY <1>0, <1>1, <2>1, <2>2, <2>3 DEF Whole
<1>2. CASE k # 0
  <2>. DEFINE d == stack[k].dir
             n == stack[k].name
  <2>1. k \in DOMAIN stack /\ d \in Dirs /\ k > 0 /\ k \in Nat
    <3>1. k \in DOMAIN stack /\ k > 0 /\ k \in Nat
      BY <1>2, StackFacts
    <3>2. stack[k] \in Frames
      BY <3>1, StackFacts
    <3>. QED
      BY <3>1, <3>2 DEF Frames
  <2>2. n \in Names /\ Entry(k) = Tree[d][n]
    BY <1>2 DEF Entry
  <2>3. Entry(k) \in Nodes
    BY <2>1, <2>2, CommandFacts DEF Trees
  <2>4. \A node \in BelowNodes(d) : Accessible(node)
    BY <2>1 DEF Tracked
  <2>5. Room(h, d, k)
    BY <2>1 DEF Tracked
  <2>. HIDE DEF d, n
  <2>6. Entry(k) \in BelowNodes(d) /\ BelowNodes(Entry(k)) \subseteq BelowNodes(d)
    BY <2>1, <2>2, BelowEntry
  <2>7. ASSUME Entry(k) \in Dirs PROVE Room(h, Entry(k), k + 1)
    <3>1. h[Entry(k)] < h[d] /\ h[Entry(k)] \in Nat /\ h[d] \in Nat
      BY <2>1, <2>2, <2>7 DEF Heights
    <3>. QED
      BY <2>1, <2>5, <3>1, ChownAssumption DEF Room
  <2>. QED
    BY <2>3, <2>4, <2>6, <2>7
<1>. QED
  BY <1>1, <1>2

(* Where a level is, nothing but what others have displaced is found other *)
(* than it was.                                                            *)
LEMMA HereIs ==
  ASSUME TypeInv, TreeInv, CwdInv, Whole, stack = <<>> => idx = 1 /\ cwd = StartDir,
         NEW e, e = Entry(Len(stack)), e # NONE, e \in Dirs \/ ~Displaced(e)
  PROVE  Here(Name) = e
<1>0. Names \cap Dots = {} /\ "." \in Dots /\ ".." \in Dots
  BY TreeAssumption DEF Dots
<1>1. ASSUME NEW d \in Dirs, NEW n \in Names, Tree[d][n] = e PROVE tree[d][n] = e
  BY <1>1 DEF TreeInv, Displaced
<1>2. CASE stack = <<>>
  <2>. DEFINE n == args[1]
  <2>1. /\ Name = n /\ n \in AnyName /\ cwd = StartDir /\ StartDir \in Dirs
        /\ e = Lookup(Tree, mode, StartDir, n)
    <3>1. Len(stack) = 0 /\ 1 \in DOMAIN args
      BY <1>2, CommandFacts DEF Whole
    <3>. QED
      BY <1>2, <3>1, CommandFacts DEF Name, Entry, StartNode
  <2>. HIDE DEF n
  <2>2. "x" \in mode[StartDir]
    <3>1. "x" \notin mode[StartDir] => e = NONE
      BY <1>0, <2>1 DEF Lookup, AnyName, Dots
    <3>. QED
      BY <3>1
  <2>3. CASE n = "."
    BY <1>0, <2>1, <2>2, <2>3 DEF Here, Lookup
  <2>4. CASE n = ".."
    BY <1>0, <2>1, <2>2, <2>4, SameParent DEF Here, Lookup
  <2>5. CASE n \in Names
    <3>1. e = Tree[StartDir][n] /\ Here(n) = tree[StartDir][n]
      BY <1>0, <2>1, <2>2, <2>5 DEF Here, Lookup
    <3>. QED
      BY <1>1, <2>1, <2>5, <3>1
  <2>. QED
    BY <2>1, <2>3, <2>4, <2>5 DEF AnyName, Dots
<1>3. CASE stack # <<>>
  <2>1. /\ Len(stack) \in DOMAIN stack /\ Top = stack[Len(stack)] /\ Top.dir \in Dirs /\ Len(stack) > 0
        /\ cwd = Top.dir /\ Name = Top.name
    BY <1>3, StackFacts DEF CwdInv, EntriesLookedUpInPlace, Name
  <2>2. Top.name \in Names /\ e = Tree[Top.dir][Top.name]
    BY <2>1 DEF Entry
  <2>3. "x" \in mode[cwd]
    BY <2>1 DEF CwdInv, CanEnter
  <2>4. Here(Name) = tree[Top.dir][Top.name]
    BY <1>0, <2>1, <2>2, <2>3 DEF Here, Lookup
  <2>. QED
    BY <1>1, <2>1, <2>2, <2>4
<1>. QED
  BY <1>2, <1>3

(* A callback settles what it is called for, and goes into a directory.    *)
LEMMA CallbackSettles ==
  ASSUME TypeInv, TreeInv, CwdInv, Whole, stack = <<>> => idx = 1 /\ cwd = StartDir, Callback,
         NEW e \in Nodes, e = Entry(Len(stack)), e \in Dirs => Accessible(e), Described(Len(stack))
  PROVE  (owner'[e] = "new" \/ IsLink(e) \/ e \in locked \/ Displaced(e)) /\ (e \in Dirs => pc' = "iterate" /\ UNCHANGED idx)
<1>0. e # NONE /\ (e \in Dirs => e \notin locked /\ ~IsLink(e)) /\ e \in DOMAIN owner
  BY TreeAssumption DEF Nodes, IsLink, Accessible, TypeInv, TypeOK
<1>1. CASE e \notin Dirs /\ (IsLink(e) \/ e \in locked \/ Displaced(e))
  BY <1>1
<1>2. CASE ~IsLink(e) /\ (e \in Dirs \/ (~Displaced(e) /\ e \notin locked))
  <2>1. /\ pc = "callback" /\ st = [kind |-> KindOf(e), own |-> owner[e]] /\ KindOf(e) # "link"
        /\ e \in Dirs <=> KindOf(e) = "dir"
    BY <1>0, <1>2, CallbackFacts, NodeFacts DEF Described, KindOf
  <2>2. st.kind = KindOf(e) /\ st.own = owner[e]
    BY <2>1
  <2>3. Here(Name) = e /\ Target = e
    <3>1. Here(Name) = e
      BY <1>0, <1>2, HereIs
    <3>. QED
      BY <1>2, <3>1 DEF Target, LeadsTo
  <2>4. ~ChownRefused
    BY <1>0, <1>2, <2>3 DEF ChownRefused, Refused
  <2>5. ChangeOwner
    BY <2>1, <2>2, <2>4 DEF Callback, ChangeLink, FollowOperand, FollowEntry, IsOperandLink
  <2>6. owner'[e] = "new"
    <3>1. CASE WantsChown
      BY <1>0, <2>3, <2>5, <3>1 DEF ChangeOwner, Give
    <3>2. CASE ~WantsChown
      BY <2>1, <2>2, <2>5, <3>2 DEF ChangeOwner, WantsChown
    <3>. QED
      BY <3>1, <3>2
  <2>7. e \in Dirs => pc' = "iterate" /\ UNCHANGED idx
    BY <2>1, <2>2, <2>5 DEF ChangeOwner, GoOn, Whole
  <2>. QED
    BY <2>6, <2>7
<1>. QED
  BY <1>0, <1>1, <1>2

-----------------------------------------------------------------------------
(* The node a name is for in a directory that may be searched.             *)
LEMMA EntryIsFound ==
  ASSUME TreeInv, NEW d \in Dirs, NEW n \in Names, "x" \in mode[d],
         Tree[d][n] \in Dirs \/ ~Displaced(Tree[d][n])
  PROVE  Lookup(tree, mode, d, n) = Tree[d][n]
<1>1. Names \cap Dots = {} /\ "." \in Dots /\ ".." \in Dots
  BY TreeAssumption DEF Dots
<1>2. Lookup(tree, mode, d, n) = tree[d][n]
  BY <1>1 DEF Lookup
<1>3. tree[d][n] = Tree[d][n]
  BY DEF TreeInv, Displaced
<1>. QED
  BY <1>2, <1>3

LEMMA StatIs ==
  ASSUME TypeInv, NEW e \in Nodes, ~IsLink(e), NEW follow, Stat(e, follow)
  PROVE  st' = [kind |-> KindOf(e), own |-> owner[e]]
BY NodeFacts DEF Stat, LeadsTo

(* What was given on the command line does not change.                     *)
LEMMA WholeStays ==
  ASSUME UNCHANGED given
  PROVE  /\ Whole' = Whole /\ StartNode(1)' = StartNode(1)
         /\ \A node : Accessible(node)' = Accessible(node)
         /\ args' = args /\ opts' = opts /\ mode' = mode /\ locked' = locked
<1>1. args' = args /\ opts' = opts /\ mode' = mode /\ locked' = locked
  BY DEF given
<1>2. StartNode(1)' = StartNode(1)
  BY <1>1 DEF StartNode
<1>3. \A node : Accessible(node)' = Accessible(node)
  BY <1>1 DEF Accessible
<1>4. Whole' = Whole
  BY <1>1, <1>2, <1>3 DEF Whole, PlainOperand
<1>. QED
  BY <1>1, <1>2, <1>3, <1>4

LEMMA TrackedStays ==
  ASSUME UNCHANGED given, NEW h, NEW k \in Nat, k > 0 => stack'[k].dir = stack[k].dir
  PROVE  Tracked(h, k)' = Tracked(h, k)
BY WholeStays DEF Tracked, Room

LEMMA EntryStays ==
  ASSUME UNCHANGED given, NEW k \in Nat, k > 0 => stack'[k] = stack[k]
  PROVE  Entry(k)' = Entry(k)
BY WholeStays DEF Entry

(* A level below the top is where it was.                                  *)
LEMMA LowerStays ==
  ASSUME TypeInv, [Next]_vars, NEW k \in Nat, k > 0 => stack'[k] = stack[k],
         k < Len(stack), k < Len(stack'), stack'[k + 1].dir = stack[k + 1].dir, LevelInv(k)
  PROVE  LevelInv(k)'
<1>1. UNCHANGED given /\ \A node : (Settled(node) => Settled(node)') /\ (SettledBelow(node) => SettledBelow(node)')
  BY SettledStays
<1>2. Entry(k)' = Entry(k)
  BY <1>1, EntryStays
<1>3. k # Len(stack) /\ k # Len(stack')
  <2>1. stack \in Seq(Frames) /\ stack' \in Seq(Frames)
    BY NextType DEF TypeInv, TypeOK
  <2>. QED
    BY <2>1
<1>4. k > 0 => SeenSettled(k)'
  BY <1>1, <1>3 DEF LevelInv, SeenSettled
<1>5. Descends(k)'
  BY <1>1, <1>2 DEF LevelInv, Descends
<1>6. Described(k)'
  BY <1>3 DEF Described
<1>. QED
  BY <1>4, <1>5, <1>6 DEF LevelInv

(* A tracked level whose entry is settled goes on to its next entry.       *)
LEMMA LevelResumes ==
  ASSUME TypeInv, [Next]_vars, NEW k \in Nat, k > 0 => stack'[k] = stack[k], LevelInv(k), k = Len(stack'),
         pc' = "readdir" \/ k = 0, pc' \notin {"iterate", "callback"},
         Entry(k) # NONE => SettledBelow(Entry(k))'
  PROVE  LevelInv(k)'
<1>1. UNCHANGED given /\ \A node : (Settled(node) => Settled(node)') /\ (SettledBelow(node) => SettledBelow(node)')
  BY SettledStays
<1>2. Descends(k)' /\ Described(k)'
  BY DEF Descends, Described
<1>3. k > 0 => SeenSettled(k)'
  <2>. SUFFICES ASSUME k > 0, NEW n \in stack[k].seen \cap Names, Tree[stack[k].dir][n] # NONE
                PROVE  SettledBelow(Tree[stack[k].dir][n])'
    BY DEF SeenSettled
  <2>1. CASE n = stack[k].name
    BY <2>1 DEF Entry
  <2>2. CASE n # stack[k].name
    BY <1>1, <2>2 DEF LevelInv, SeenSettled
  <2>. QED
    BY <2>1, <2>2
<1>. QED
  BY <1>2, <1>3 DEF LevelInv

(* A directory all of whose entries have been read, and settled.           *)
LEMMA FrameDone ==
  ASSUME TypeInv, TreeInv, stack # <<>>, pc = "readdir", Unread = {}, SeenSettled(Len(stack)), Settled(Top.dir)
  PROVE  SettledBelow(Top.dir)
<1>. DEFINE d == Top.dir
<1>1. d \in Dirs /\ Top = stack[Len(stack)]
  BY StackFacts
<1>2. SUFFICES ASSUME NEW x \in BelowNodes(d), x # d PROVE Settled(x)
  BY DEF SettledBelow
<1>3. PICK n \in Names : Tree[d][n] # NONE /\ x \in BelowNodes(Tree[d][n])
  BY <1>1, <1>2, BelowIs
<1>4. CASE n \in Top.seen
  BY <1>1, <1>3, <1>4 DEF SeenSettled, SettledBelow
<1>5. CASE n \notin Top.seen
  <2>1. tree[d][n] = NONE
    BY <1>5 DEF Unread, EntriesOf
  <2>2. Tree[d][n] \notin Dirs /\ Displaced(Tree[d][n])
    BY <1>1, <1>3, <2>1, TreeAssumption DEF TreeInv, Displaced, Nodes
  <2>3. x = Tree[d][n]
    BY <1>3, <2>2, LeafBelow
  <2>. QED
    BY <2>2, <2>3 DEF Settled
<1>. QED
  BY <1>4, <1>5

(* Before the operand has been dealt with: what holds at every step.       *)
LEMMA AtOperand ==
  ASSUME TypeInv, Whole, pc \notin {"operand", "done"} PROVE idx = 1 /\ Len(args) = 1
BY CommandFacts DEF TypeInv, InPlace, Whole

LEMMA ReachStat ==
  ASSUME TypeInv, TreeInv, CwdInv, NEW h \in Heights, ReachInv(h), [Next]_vars,
         StatOperand, UNCHANGED fs
  PROVE  ReachInv(h)'
<1>. SUFFICES ASSUME Whole' PROVE ReachInv(h)'
  BY DEF ReachInv
<1>1. UNCHANGED given /\ Whole /\ UNCHANGED <<owner, cwd, idx, stack>> /\ pc' = "callback" /\ pc = "operand"
  BY WholeStays DEF StatOperand
<1>2. stack = <<>> /\ idx = 1 /\ Len(stack) = 0 /\ cwd = StartDir
  <2>1. stack = <<>> /\ idx \in Nat \ {0}
    BY <1>1 DEF TypeInv, TypeOK
  <2>2. idx <= 1
    BY <1>1 DEF StatOperand, Whole
  <2>. QED
    BY <1>1, <2>1, <2>2 DEF ReachInv
<1>3. Entry(0)' = Entry(0) /\ Entry(0) = StartNode(1)
  BY <1>1, EntryStays DEF Entry
<1>4. Described(0)'
  <2>. SUFFICES ASSUME Entry(0) # NONE, ~IsLink(Entry(0)), Entry(0) \in Dirs \/ ~Displaced(Entry(0))'
                PROVE  st' = [kind |-> KindOf(Entry(0)), own |-> owner[Entry(0)]]
    BY <1>1, <1>3 DEF Described
  <2>1. Entry(0) \in Dirs \/ ~Displaced(Entry(0))
    BY <1>3, SettledStays
  <2>2. Here(Name) = Entry(0) /\ Name = args[idx]
    BY <1>1, <1>2, <2>1, HereIs DEF Name
  <2>3. Entry(0) \in Nodes
    <3>1. args[1] \in AnyName /\ mode \in Modes /\ Tree \in Trees /\ StartDir \in Dirs
      BY <1>1, CommandFacts DEF Whole
    <3>. QED
      BY <1>3, <3>1, LookupType DEF StartNode
  <2>. QED
    BY <2>2, <2>3, StatIs DEF StatOperand
<1>5. LevelInv(0)'
  BY <1>1, <1>2, <1>4 DEF LevelInv, Descends
<1>. QED
  BY <1>1, <1>2, <1>5 DEF ReachInv

LEMMA ReachEntry ==
  ASSUME TypeInv, TreeInv, CwdInv, NEW h \in Heights, RoomBelow(h), ReachInv(h), [Next]_vars,
         NEW n \in AnyName, StatEntry(n), UNCHANGED fs
  PROVE  ReachInv(h)'
<1>. SUFFICES ASSUME Whole' PROVE ReachInv(h)'
  BY DEF ReachInv
<1>1. UNCHANGED given /\ Whole /\ UNCHANGED <<owner, cwd, idx>> /\ pc' = "callback" /\ pc = "readdir"
  BY WholeStays DEF StatEntry
<1>2. PICK L \in Nat, d \in Dirs, seen \in SUBSET AnyName, f \in Frames :
        /\ stack # <<>> /\ f = [Top EXCEPT !.name = n, !.seen = @ \cup {n}] /\ seen = Top.seen
        /\ f.dir = d /\ f.name = n /\ f.seen = seen \cup {n}
        /\ L = Len(stack) /\ L >= 1 /\ Top = stack[L] /\ d = Top.dir
  <2>. DEFINE g == [Top EXCEPT !.name = n, !.seen = @ \cup {n}]
  <2>1. stack # <<>> /\ Top \in Frames /\ Len(stack) \in Nat /\ Len(stack) >= 1 /\ Top = stack[Len(stack)]
    BY <1>1, StackFacts DEF TypeInv, TypeOK
  <2>2. g \in Frames /\ g.dir = Top.dir /\ g.name = n /\ g.seen = Top.seen \cup {n}
    BY <2>1 DEF Frames
  <2>3. Top.dir \in Dirs /\ Top.seen \in SUBSET AnyName
    BY <2>1 DEF Frames
  <2>. HIDE DEF g
  <2>. QED
    BY <2>1, <2>2, <2>3 DEF g
<1>3. stack' = [stack EXCEPT ![L] = f]
  BY <1>2 DEF StatEntry
<1>4. /\ Len(stack') = L /\ stack'[L] = f /\ stack' # <<>>
      /\ \A k \in 1..(L - 1) : stack'[k] = stack[k]
  <2>1. stack \in Seq(Frames)
    BY StackFacts
  <2>2. Len(stack') = L /\ Last(stack') = f /\ stack' # <<>> /\ \A k \in 1..(L - 1) : stack'[k] = stack[k]
    <3>1. stack # <<>> /\ stack' = [stack EXCEPT ![Len(stack)] = f] /\ L = Len(stack)
      BY <1>2, <1>3
    <3>. QED
      BY <2>1, <3>1, SetTopFacts
  <2>. QED
    BY <2>2 DEF Last
<1>5. idx = 1
  BY <1>1, AtOperand
<1>6. ASSUME NEW k \in 0..(L - 1), Tracked(h, k)' PROVE LevelInv(k)'
  <2>1. k > 0 => stack'[k] = stack[k]
    BY <1>2, <1>4
  <2>2. Tracked(h, k)
    BY <1>1, <1>6, <2>1, TrackedStays
  <2>3. LevelInv(k)
    BY <1>1, <1>2, <2>2 DEF ReachInv
  <2>4. stack'[k + 1].dir = stack[k + 1].dir
    <3>1. k + 1 = L \/ k + 1 \in 1..(L - 1)
      BY <1>2
    <3>. QED
      BY <1>2, <1>4, <3>1
  <2>. QED
    BY <1>2, <1>4, <2>1, <2>3, <2>4, LowerStays
<1>7. ASSUME Tracked(h, L)' PROVE LevelInv(L)'
  <2>1. Tracked(h, L)
    BY <1>1, <1>2, <1>4, <1>7, TrackedStays
  <2>2. LevelInv(L)
    BY <1>1, <1>2, <2>1 DEF ReachInv
  <2>3. SeenSettled(L)'
    <3>. SUFFICES ASSUME NEW m \in seen \cap Names, m # n, Tree[d][m] # NONE
                  PROVE  SettledBelow(Tree[d][m])'
      BY <1>1, <1>2, <1>4 DEF SeenSettled
    <3>1. stack[L].seen = seen /\ stack[L].dir = d
      BY <1>2
    <3>2. SettledBelow(Tree[d][m])
      BY <1>1, <1>2, <2>2, <3>1 DEF LevelInv, SeenSettled
    <3>. QED
      BY <1>2, <3>2, SettledStays
  <2>4. Descends(L)'
    BY <1>1, <1>4 DEF Descends
  <2>5. Described(L)'
    <3>. DEFINE e == IF n \in Names THEN Tree[d][n] ELSE NONE
    <3>1. Entry(L)' = e
      BY <1>2, <1>4 DEF Entry
    <3>. SUFFICES ASSUME e # NONE, ~IsLink(e), e \in Dirs \/ ~Displaced(e)'
                  PROVE  st' = [kind |-> KindOf(e), own |-> owner[e]]
      BY <1>1, <1>4, <3>1 DEF Described
    <3>2. e \in Dirs \/ ~Displaced(e)
      BY SettledStays
    <3>3. n \in Names /\ e = Tree[d][n] /\ e \in Nodes
      <4>1. n \in Names
        OBVIOUS
      <4>2. Tree[d][n] \in Nodes \cup {NONE}
        BY <1>2, <4>1, CommandFacts DEF Trees
      <4>. QED
        BY <4>1, <4>2
    <3>. HIDE DEF e
    <3>4. cwd = d /\ "x" \in mode[d]
      BY <1>2, StackFacts DEF CwdInv, EntriesLookedUpInPlace, CanEnter
    <3>5. Here(n) = e
      BY <1>2, <3>2, <3>3, <3>4, EntryIsFound DEF Here
    <3>. QED
      BY <3>3, <3>5, StatIs DEF StatEntry
  <2>. QED
    BY <2>3, <2>4, <2>5 DEF LevelInv
<1>8. \A k \in 0..Len(stack') : Tracked(h, k)' => LevelInv(k)'
  <2>. SUFFICES ASSUME NEW k \in 0..L, Tracked(h, k)' PROVE LevelInv(k)'
    BY <1>4
  <2>1. k = L \/ k \in 0..(L - 1)
    BY <1>2
  <2>. QED
    BY <1>6, <1>7, <2>1
<1>. QED
  BY <1>1, <1>4, <1>5, <1>8 DEF ReachInv

(* The callback, or walk_iterate(), returns to its caller's loop.          *)
LEMMA ReachResume ==
  ASSUME TypeInv, TreeInv, CwdInv, NEW h \in Heights, RoomBelow(h), ReachInv(h), [Next]_vars,
         pc \in {"callback", "iterate"}, UNCHANGED stack, Resume(stack),
         Whole /\ Tracked(h, Len(stack)) /\ Entry(Len(stack)) # NONE => SettledBelow(Entry(Len(stack)))'
  PROVE  ReachInv(h)'
<1>. SUFFICES ASSUME Whole' PROVE ReachInv(h)'
  BY DEF ReachInv
<1>0. PICK L \in Nat : L = Len(stack) /\ L = Len(stack')
  BY StackFacts
<1>1. UNCHANGED given /\ Whole
  BY SettledStays, WholeStays
<1>2. idx = 1 /\ L \in Nat /\ (stack = <<>> <=> L = 0)
  BY <1>0, <1>1, AtOperand, StackFacts
<1>3. pc' = (IF stack = <<>> THEN "operand" ELSE "readdir") /\ idx' = (IF stack = <<>> THEN 2 ELSE 1)
  BY <1>2 DEF Resume
<1>4. ASSUME NEW k \in 0..L, Tracked(h, k)' PROVE LevelInv(k)'
  <2>1. Tracked(h, k)
    BY <1>0, <1>1, <1>4, TrackedStays
  <2>2. LevelInv(k)
    BY <1>0, <1>1, <2>1 DEF ReachInv
  <2>3. CASE k = L
    BY <1>0, <1>1, <1>2, <1>3, <2>1, <2>2, <2>3, LevelResumes
  <2>4. CASE k # L
    BY <1>0, <1>2, <2>2, <2>4, LowerStays
  <2>. QED
    BY <2>3, <2>4
<1>5. idx' > 1 => SettledBelow(StartNode(1))'
  <2>. SUFFICES ASSUME stack = <<>> PROVE SettledBelow(StartNode(1))'
    BY <1>3
  <2>1. Tracked(h, L) /\ Entry(L) = StartNode(1) /\ StartNode(1) # NONE
    BY <1>0, <1>1, <1>2 DEF Tracked, Entry, Whole, PlainOperand
  <2>2. StartNode(1)' = StartNode(1)
    BY <1>1, WholeStays
  <2>3. Entry(Len(stack))' = StartNode(1)'
    BY <1>0, <1>2 DEF Entry
  <2>. QED
    BY <1>0, <1>1, <2>1, <2>3
<1>. QED
  BY <1>0, <1>2, <1>3, <1>4, <1>5 DEF ReachInv

-----------------------------------------------------------------------------
(* What is known of the entry at the top when it is settled.               *)
LEMMA TopEntry ==
  ASSUME TypeInv, Whole, NEW h \in Heights, RoomBelow(h), ReachInv(h), Tracked(h, Len(stack)),
         Entry(Len(stack)) # NONE, pc \in {"callback", "iterate"}
  PROVE  /\ LevelInv(Len(stack)) /\ Entry(Len(stack)) \in Nodes
         /\ stack = <<>> => idx = 1 /\ cwd = StartDir
         /\ Entry(Len(stack)) \in Dirs => Accessible(Entry(Len(stack)))
                                          /\ Room(h, Entry(Len(stack)), Len(stack) + 1)
<1>1. Len(stack) \in 0..Len(stack)
  BY StackFacts
<1>2. idx = 1
  BY AtOperand
<1>. QED
  BY <1>1, <1>2, EntryFacts DEF ReachInv

LEMMA ReachCallback ==
  ASSUME TypeInv, TreeInv, CwdInv, NEW h \in Heights, RoomBelow(h), ReachInv(h), [Next]_vars, Callback
  PROVE  ReachInv(h)'
<1>1. UNCHANGED <<given, cwd, stack>> /\ pc = "callback"
  BY CallbackFacts
<1>2. PICK L \in Nat : L = Len(stack) /\ L = Len(stack')
  BY <1>1, StackFacts
<1>3. Entry(L)' = Entry(L)
  BY <1>1, EntryStays
<1>4. ASSUME Whole, Tracked(h, L), Entry(L) # NONE
      PROVE  Settled(Entry(L))' /\ (Entry(L) \in Dirs => pc' = "iterate" /\ UNCHANGED idx)
  <2>1. PICK e \in Nodes : e = Entry(L)
    BY <1>1, <1>2, <1>4, TopEntry
  <2>2. /\ (owner'[e] = "new" \/ IsLink(e) \/ e \in locked \/ Displaced(e))
        /\ e \in Dirs => pc' = "iterate" /\ UNCHANGED idx
    BY <1>1, <1>2, <1>4, <2>1, TopEntry, CallbackSettles DEF LevelInv
  <2>3. Settled(e)'
    <3>1. Displaced(e) => Displaced(e)'
      BY SettledStays
    <3>2. locked' = locked
      BY <1>1, WholeStays
    <3>. QED
      BY <2>2, <3>1, <3>2 DEF Settled
  <2>. QED
    BY <1>3, <2>1, <2>2, <2>3
<1>5. CASE Resume(stack) /\ pc' # "iterate"
  <2>1. ASSUME Whole, Tracked(h, L), Entry(L) # NONE PROVE SettledBelow(Entry(L))'
    <3>1. Settled(Entry(L))' /\ Entry(L) \notin Dirs
      BY <1>4, <1>5, <2>1
    <3>2. BelowNodes(Entry(L)) = {Entry(L)}
      BY <3>1, LeafBelow
    <3>3. PICK e : e = Entry(L)
      OBVIOUS
    <3>4. SettledBelow(e)'
      BY <1>3, <3>1, <3>2, <3>3 DEF SettledBelow
    <3>. QED
      BY <1>3, <3>3, <3>4
  <2>. QED
    BY <1>1, <1>2, <1>3, <1>5, <2>1, ReachResume
<1>6. CASE pc' = "iterate" /\ UNCHANGED idx
  <2>. SUFFICES ASSUME Whole' PROVE ReachInv(h)'
    BY DEF ReachInv
  <2>1. Whole
    BY <1>1, WholeStays
  <2>2. idx = 1
    BY <1>1, <2>1, AtOperand
  <2>3. ASSUME NEW k \in 0..L, Tracked(h, k)' PROVE LevelInv(k)'
    <3>1. Tracked(h, k)
      BY <1>1, <2>3, TrackedStays
    <3>2. LevelInv(k)
      BY <1>2, <2>1, <3>1 DEF ReachInv
    <3>3. CASE k = L
      <4>1. k > 0 => SeenSettled(k)'
        <5>1. k > 0 => SeenSettled(k)
          BY <3>2 DEF LevelInv
        <5>. QED
          BY <1>1, <1>6, <5>1, SettledStays DEF SeenSettled
      <4>2. Descends(k)'
        BY <1>2, <1>3, <1>4, <2>1, <3>1, <3>3 DEF Descends
      <4>3. Described(k)'
        BY <1>6 DEF Described
      <4>. QED
        BY <4>1, <4>2, <4>3 DEF LevelInv
    <3>4. CASE k # L
      BY <1>1, <1>2, <3>2, <3>4, LowerStays
    <3>. QED
      BY <3>3, <3>4
  <2>. QED
    BY <1>1, <1>2, <1>6, <2>1, <2>2, <2>3 DEF ReachInv
<1>. QED
  BY <1>5, <1>6, CallbackFacts DEF Resume

(* A tracked directory can be opened and entered.                          *)
LEMMA CanDescend ==
  ASSUME TypeInv, TreeInv, CwdInv, FdsBalanced, Whole, NEW h \in Heights, RoomBelow(h), ReachInv(h),
         pc = "iterate", Tracked(h, Len(stack)), Entry(Len(stack)) \in Dirs
  PROVE  Opened = Entry(Len(stack)) /\ CanStart /\ nfd + 1 < MaxFds
<1>1. PICK e \in Dirs : e = Entry(Len(stack))
  OBVIOUS
<1>2. e # NONE /\ e \notin Leaves
  BY TreeAssumption DEF Nodes
<1>3. Here(Name) = e
  BY <1>1, <1>2, TopEntry, HereIs
<1>4. {"r", "x"} \subseteq mode[e] /\ Room(h, e, Len(stack) + 1)
  BY <1>1, <1>2, TopEntry DEF Accessible
<1>5. OpenDirectory(tree, mode, cwd, Name) = e
  BY <1>2, <1>3, <1>4 DEF OpenDirectory, Follow, Here
<1>6. Opened = e
  BY <1>2, <1>3, <1>5 DEF Opened, IsLink
<1>7. nfd + 1 < MaxFds /\ nfd < MaxFds
  <2>1. h[e] \in Nat /\ Len(stack) \in Nat /\ MaxFds \in Nat /\ nfd = 2 * Len(stack)
    BY StackFacts, ChownAssumption DEF Heights, FdsBalanced
  <2>2. 2 * (Len(stack) + 1 + h[e]) <= MaxFds
    BY <1>4 DEF Room
  <2>. QED
    BY <2>1, <2>2
<1>. QED
  BY <1>1, <1>2, <1>4, <1>6, <1>7 DEF CanStart, CanEnter

LEMMA ReachRefused ==
  ASSUME TypeInv, TreeInv, CwdInv, FdsBalanced, NEW h \in Heights, RoomBelow(h), ReachInv(h), [Next]_vars,
         IterateRefused \/ IterateHalfway
  PROVE  ReachInv(h)'
<1>1. UNCHANGED <<given, stack>> /\ pc = "iterate" /\ Resume(stack) /\ ~(CanStart /\ nfd + 1 < MaxFds)
  BY ChownAssumption DEF IterateRefused, IterateHalfway, TypeInv, TypeOK
<1>2. PICK L \in Nat : L = Len(stack) /\ L = Len(stack')
  BY <1>1, StackFacts
<1>3. ASSUME Whole, Tracked(h, L), Entry(L) # NONE PROVE SettledBelow(Entry(L))'
  <2>1. PICK e \in Nodes : e = Entry(L) /\ Settled(e) /\ e \notin Dirs
    BY <1>1, <1>2, <1>3, TopEntry, CanDescend DEF LevelInv, Descends
  <2>2. SettledBelow(e)
    BY <2>1, LeafBelow DEF SettledBelow
  <2>3. SettledBelow(e)' /\ Entry(L)' = e
    BY <1>1, <2>1, <2>2, SettledStays, EntryStays
  <2>. QED
    BY <2>3
<1>4. Entry(L)' = Entry(L)
  BY <1>1, EntryStays
<1>. QED
  BY <1>1, <1>2, <1>3, <1>4, ReachResume

-----------------------------------------------------------------------------
LEMMA ReachIterate ==
  ASSUME TypeInv, TreeInv, CwdInv, FdsBalanced, NEW h \in Heights, RoomBelow(h), ReachInv(h), [Next]_vars,
         Iterate
  PROVE  ReachInv(h)'
<1>. SUFFICES ASSUME Whole' PROVE ReachInv(h)'
  BY DEF ReachInv
<1>1. UNCHANGED <<given, idx>> /\ pc = "iterate" /\ pc' = "readdir" /\ Whole
  BY WholeStays DEF Iterate
<1>2. PICK L \in Nat : L = Len(stack)
  BY StackFacts
<1>3. /\ Len(stack') = L + 1 /\ stack' # <<>> /\ stack'[L + 1].dir = Opened /\ stack'[L + 1].seen = {}
      /\ \A k \in 1..L : stack'[k] = stack[k]
  BY <1>2, StackFacts DEF Iterate
<1>4. idx = 1
  BY <1>1, AtOperand
<1>5. ASSUME NEW k \in 0..L, Tracked(h, k)' PROVE LevelInv(k)'
  <2>1. k > 0 => stack'[k] = stack[k]
    BY <1>3
  <2>2. Tracked(h, k)
    BY <1>1, <1>5, <2>1, TrackedStays
  <2>3. LevelInv(k)
    BY <1>1, <1>2, <2>2 DEF ReachInv
  <2>4. CASE k = L
    <3>1. k # Len(stack')
      BY <1>3, <2>4
    <3>2. k > 0 => SeenSettled(k)'
      <4>1. k > 0 => SeenSettled(k)
        BY <2>3 DEF LevelInv
      <4>. QED
        BY <1>1, <2>1, <3>1, <4>1, SettledStays DEF SeenSettled
    <3>3. Descends(k)'
      <4>1. Entry(k)' = Entry(k)
        BY <1>1, <2>1, EntryStays
      <4>2. PICK e : e = Entry(k)
        OBVIOUS
      <4>3. e # NONE => Settled(e)'
        BY <1>1, <2>3, <4>2, SettledStays DEF LevelInv, Descends
      <4>4. e \in Dirs => stack'[k + 1].dir = e
        BY <1>1, <1>2, <1>3, <2>2, <2>4, <4>2, CanDescend
      <4>. QED
        BY <4>1, <4>2, <4>3, <4>4 DEF Descends
    <3>4. Described(k)'
      BY <1>1 DEF Described
    <3>. QED
      BY <3>2, <3>3, <3>4 DEF LevelInv
  <2>5. CASE k # L
    <3>1. k + 1 \in 1..L /\ k < L /\ k < L + 1
      BY <2>5
    <3>2. stack'[k + 1].dir = stack[k + 1].dir
      BY <1>3, <3>1
    <3>. QED
      BY <1>2, <1>3, <2>1, <2>3, <3>1, <3>2, LowerStays
  <2>. QED
    BY <2>4, <2>5
<1>6. LevelInv(L + 1)'
  BY <1>1, <1>3 DEF LevelInv, SeenSettled, Descends, Described
<1>7. \A k \in 0..Len(stack') : Tracked(h, k)' => LevelInv(k)'
  <2>. SUFFICES ASSUME NEW k \in 0..(L + 1), Tracked(h, k)' PROVE LevelInv(k)'
    BY <1>3
  <2>1. k = L + 1 \/ k \in 0..L
    OBVIOUS
  <2>. QED
    BY <1>5, <1>6, <2>1
<1>. QED
  BY <1>1, <1>3, <1>4, <1>7 DEF ReachInv

LEMMA ReachEnd ==
  ASSUME TypeInv, TreeInv, CwdInv, NEW h \in Heights, RoomBelow(h), ReachInv(h), [Next]_vars,
         IterateEnd
  PROVE  ReachInv(h)'
<1>. SUFFICES ASSUME Whole' PROVE ReachInv(h)'
  BY DEF ReachInv
<1>1. UNCHANGED given /\ pc = "readdir" /\ Unread = {} /\ stack' = Front(stack) /\ Resume(Front(stack)) /\ Whole
  BY WholeStays DEF IterateEnd
<1>2. stack # <<>>
  BY <1>1 DEF TypeInv, TypeOK
<1>3. PICK L \in Nat : L = Len(stack) - 1 /\ stack \in Seq(Frames)
  <2>1. Len(stack) \in Nat /\ Len(stack) >= 1 /\ stack \in Seq(Frames)
    BY <1>2, StackFacts
  <2>2. Len(stack) - 1 \in Nat
    BY <2>1
  <2>. QED
    BY <2>1, <2>2
<1>4. Len(stack') = L /\ (stack' = <<>> <=> L = 0) /\ \A k \in 1..L : stack'[k] = stack[k]
  <2>1. /\ Len(Front(stack)) = Len(stack) - 1 /\ Front(stack) \in Seq(Frames)
        /\ \A k \in 1..(Len(stack) - 1) : Front(stack)[k] = stack[k]
    BY <1>2, <1>3, PopFacts
  <2>. QED
    BY <1>1, <1>3, <2>1
<1>5. idx = 1
  BY <1>1, AtOperand
<1>6. pc' = (IF L = 0 THEN "operand" ELSE "readdir") /\ idx' = (IF L = 0 THEN 2 ELSE 1)
  BY <1>1, <1>4, <1>5 DEF Resume
<1>7. ASSUME Tracked(h, L), Entry(L) # NONE PROVE SettledBelow(Entry(L))
  <2>1. L \in 0..Len(stack) /\ L < Len(stack) /\ Len(stack) = L + 1
    BY <1>3
  <2>2. PICK e \in Nodes : e = Entry(L) /\ Settled(e)
                           /\ (e \in Dirs => stack[L + 1].dir = e /\ Room(h, e, L + 1)
                                             /\ \A node \in BelowNodes(e) : Accessible(node))
    <3>1. LevelInv(L)
      BY <1>1, <1>7, <2>1 DEF ReachInv
    <3>. QED
      BY <1>1, <1>7, <2>1, <3>1, EntryFacts DEF LevelInv, Descends
  <2>3. CASE e \in Dirs
    <3>1. Top.dir = e /\ Tracked(h, L + 1)
      BY <1>2, <2>1, <2>2, <2>3, StackFacts DEF Tracked
    <3>2. SeenSettled(L + 1)
      BY <1>1, <1>3, <2>1, <3>1 DEF ReachInv, LevelInv
    <3>. QED
      BY <1>1, <1>2, <2>1, <2>2, <3>1, <3>2, FrameDone
  <2>4. CASE e \notin Dirs
    BY <2>2, <2>4, LeafBelow DEF SettledBelow
  <2>. QED
    BY <2>3, <2>4
<1>8. ASSUME NEW k \in 0..L, Tracked(h, k)' PROVE LevelInv(k)'
  <2>1. k > 0 => stack'[k] = stack[k]
    BY <1>4
  <2>2. Tracked(h, k)
    BY <1>1, <1>8, <2>1, TrackedStays
  <2>3. LevelInv(k)
    BY <1>1, <1>3, <2>2 DEF ReachInv
  <2>4. CASE k = L
    <3>1. Entry(k)' = Entry(k)
      BY <1>1, <2>1, EntryStays
    <3>2. PICK e : e = Entry(k)
      OBVIOUS
    <3>3. e # NONE => SettledBelow(e)'
      BY <1>7, <2>2, <2>4, <3>2, SettledStays
    <3>4. Entry(k) # NONE => SettledBelow(Entry(k))'
      BY <3>1, <3>2, <3>3
    <3>. QED
      BY <1>4, <1>6, <2>1, <2>3, <2>4, <3>4, LevelResumes
  <2>5. CASE k # L
    <3>1. k + 1 \in 1..L /\ k < L /\ k < L + 1
      BY <2>5
    <3>2. stack'[k + 1].dir = stack[k + 1].dir /\ k < Len(stack)
      BY <1>3, <1>4, <3>1
    <3>. QED
      BY <1>4, <2>1, <2>3, <3>1, <3>2, LowerStays
  <2>. QED
    BY <2>4, <2>5
<1>9. idx' > 1 => SettledBelow(StartNode(1))'
  <2>. SUFFICES ASSUME L = 0 PROVE SettledBelow(StartNode(1))'
    BY <1>6
  <2>1. PICK e : e = StartNode(1) /\ e # NONE
    BY <1>1 DEF Whole, PlainOperand
  <2>2. SettledBelow(e)
    BY <1>7, <2>1 DEF Tracked, Entry
  <2>3. StartNode(1)' = e
    BY <1>1, <2>1, WholeStays
  <2>. QED
    BY <2>2, <2>3, SettledStays
<1>. QED
  BY <1>4, <1>6, <1>8, <1>9 DEF ReachInv

(* Nothing that a level is at changes. *)
LEMMA ReachRests ==
  ASSUME TypeInv, NEW h \in Heights, RoomBelow(h), ReachInv(h), [Next]_vars,
         Exit \/ OtherReplaces \/ UNCHANGED vars
  PROVE  ReachInv(h)'
<1>. SUFFICES ASSUME Whole' PROVE ReachInv(h)'
  BY DEF ReachInv
<1>1. UNCHANGED <<given, stack, idx, cwd, st, owner>>
  BY DEF Exit, OtherReplaces, vars
<1>2. pc' = pc \/ (pc' = "done" /\ pc = "operand")
  BY DEF Exit, OtherReplaces, vars
<1>3. Whole /\ StartNode(1)' = StartNode(1)
  BY <1>1, WholeStays
<1>4. ASSUME NEW k \in 0..Len(stack), Tracked(h, k)' PROVE LevelInv(k)'
  <2>1. k \in Nat /\ Entry(k)' = Entry(k)
    BY <1>1, EntryStays
  <2>2. LevelInv(k)
    BY <1>1, <1>3, <1>4, <2>1, TrackedStays DEF ReachInv
  <2>3. PICK e : e = Entry(k)
    OBVIOUS
  <2>4. k > 0 => SeenSettled(k)'
    BY <1>1, <1>2, <2>2, SettledStays DEF LevelInv, SeenSettled
  <2>5. Descends(k)'
    BY <1>1, <1>2, <2>1, <2>2, <2>3, SettledStays DEF LevelInv, Descends
  <2>6. Described(k)'
    <3>1. Displaced(e) => Displaced(e)'
      BY SettledStays
    <3>. QED
      BY <1>1, <1>2, <2>1, <2>2, <2>3, <3>1 DEF LevelInv, Described
  <2>. QED
    BY <2>4, <2>5, <2>6 DEF LevelInv
<1>5. PICK e : e = StartNode(1)
  OBVIOUS
<1>6. idx' > 1 => SettledBelow(StartNode(1))'
  BY <1>1, <1>3, <1>5, SettledStays DEF ReachInv
<1>. QED
  BY <1>1, <1>3, <1>4, <1>6 DEF ReachInv

LEMMA NextReach ==
  ASSUME TypeInv, TreeInv, CwdInv, FdsBalanced, NEW h \in Heights, RoomBelow(h), ReachInv(h), [Next]_vars
  PROVE  ReachInv(h)'
BY ReachStat, ReachEntry, ReachCallback, ReachRefused, ReachIterate, ReachEnd, ReachRests
DEF Next, Step, Callback, Done

(***************************************************************************)
(* If there are two descriptors for each level of the hierarchy below an   *)
(* operand, chown -R reaches every file of it that it may change and that  *)
(* others leave in place, whatever else they do and in whatever order the  *)
(* entries are read (walk_iterate, chown_dirent).                          *)
(***************************************************************************)
THEOREM WholeHierarchyIsReached ==
  ASSUME \E h \in Heights : RoomBelow(h) PROVE Spec => []ReachesWholeHierarchy
<1>1. PICK h \in Heights : RoomBelow(h)
  OBVIOUS
<1>2. Init => ReachInv(h)
  <2>. SUFFICES ASSUME Init, Whole PROVE ReachInv(h)
    BY DEF ReachInv
  <2>1. LevelInv(0)
    BY DEF Init, LevelInv, Descends, Described
  <2>. QED
    BY <2>1 DEF Init, ReachInv
<1>3. IInv /\ ReachInv(h) /\ [Next]_vars => ReachInv(h)'
  BY <1>1, NextReach DEF IInv
<1>4. IInv /\ ReachInv(h) => ReachesWholeHierarchy
  <2>. SUFFICES ASSUME IInv, ReachInv(h), pc = "done", Whole
                PROVE  \A node \in BelowNodes(StartNode(1)) : Settled(node)
    BY DEF ReachesWholeHierarchy, Whole, Settled
  <2>1. idx > 1
    BY DEF IInv, TypeInv, InPlace, Whole
  <2>. QED
    BY <2>1 DEF ReachInv, SettledBelow
<1>. QED
  BY <1>2, <1>3, <1>4, Invariant, PTL DEF Spec
=============================================================================
