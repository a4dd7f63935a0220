----------------------------- MODULE FiltersProofs -----------------------------
(***************************************************************************)
(* What tee and split -b do with their outputs, for files of any length,   *)
(* blocks and pieces of any size, any number of outputs and of calls that  *)
(* fail.                                                                   *)
(***************************************************************************)
EXTENDS Filters, SequenceTheorems, FiniteSetTheorems, TLAPS

(* what tee has read, and the failures of write(2) *)
Prefix(k) == SubSeq(Input, 1, k)
WritesIn(f) == {k \in DOMAIN f : f[k][1] = "write"}
WriteFaults == WritesIn(faults)
FaultKinds == {"open", "fcntl", "read", "write", "close"}

TeeTypeOK ==
  /\ cmd.files \in Seq(Seq(Nat)) /\ Len(cmd.files) = 1 /\ cmd.outputs \in Nat
  /\ arg = 1 /\ held = <<>>
  /\ offset \in [{1} -> 0..Len(Input)]
  /\ out \in Seq(Seq(Nat)) /\ Len(out) \in 1..(cmd.outputs + 1)
  /\ state \in [pc : {"open", "copy", "close"}, skip : SUBSET DOMAIN out]
  /\ faults \in Seq(FaultKinds \X {1})
  /\ exit_status \in {0, 1}
  /\ status \in {"running", "ok", "error", "aborted"}

(* nothing is read before the last output is open *)
TeeOpening ==
  IF state.pc = "open"
  THEN state.skip = {} /\ offset[1] = 0 /\ (status = "running" => exit_status = 0 /\ faults = <<>>)
  ELSE Len(out) = cmd.outputs + 1

(* an output that is not skipped has all that was read *)
TeeReceives ==
  \A o \in DOMAIN out : \E k \in 0..offset[1] :
    out[o] = Prefix(k) /\ (o \notin state.skip => k = offset[1])

(* one more is skipped for one more failure *)
TeeSkips == Cardinality(state.skip) <= Cardinality(WriteFaults)

(* the exit status is that of the outputs, and of an input that cannot be asked for *)
TeeStatus ==
  /\ exit_status = 0 /\ status # "aborted" => state.skip = {} /\ Kinds \subseteq {"read"}
  /\ exit_status = 1 \/ status = "aborted" => faults # <<>>
  /\ state.pc # "close" => "read" \notin Kinds
  /\ state.pc = "close" /\ exit_status = 0 => offset[1] = Len(Input) \/ "read" \in Kinds
  /\ status = "ok" => exit_status = 0 /\ state.pc = "close"
  /\ status = "error" => exit_status = 1

TeeInv ==
  cmd.util = "tee" => TeeTypeOK /\ TeeOpening /\ TeeReceives /\ TeeSkips /\ TeeStatus
-----------------------------------------------------------------------------
(***************************************************************************)
(* The steps of the other utilities: each is of its own utility, and does  *)
(* not change which.                                                       *)
(***************************************************************************)
(* cat, cksum, head and wc *)
LEMMA BlocksElsewhere ==
  blocks!Step => cmd' = cmd /\ ( \/ blocks!CatStep /\ cmd.util \in {"cat", "cksum"}
                               \/ cmd.util \in {"head", "wc"})
<1>1. blocks!CatStep => cmd' = cmd /\ cmd.util \in {"cat", "cksum"}
  BY DEF blocks!CatStep, blocks!CatUtils, blocks!CatReading, blocks!CatBegin, blocks!BeginFails,
     blocks!copy_fd, blocks!copy_fd_fails, blocks!updcrc, blocks!CatReadFails, blocks!CatEndOfFile,
     blocks!CatFinish, blocks!Open, blocks!OpenFails, blocks!AtArg, blocks!Running, blocks!Abort,
     blocks!Close, blocks!CloseFails, blocks!Return, blocks!WalkDone, blocks!Exit
<1>2. blocks!HeadStep => cmd' = cmd /\ cmd.util = "head"
  BY DEF blocks!HeadStep, blocks!HeadBegin, blocks!OpenFails, blocks!Read, blocks!WriteError,
     blocks!HeadReadFails, blocks!HeadEndOfFile, blocks!HeadFinish, blocks!HeadReading, blocks!Open,
     blocks!AtArg, blocks!Running, blocks!Abort, blocks!Close, blocks!CloseFails, blocks!Return,
     blocks!WalkDone, blocks!Exit
<1>3. blocks!WcStep => cmd' = cmd /\ cmd.util = "wc"
  BY DEF blocks!WcStep, blocks!WcBegin, blocks!WcRead, blocks!WcReadFails, blocks!WcEndOfFile,
     blocks!wc_post_walk, blocks!OpenFails, blocks!WcReading, blocks!Open, blocks!AtArg,
     blocks!Running, blocks!Abort, blocks!Close, blocks!CloseFails, blocks!Return,
     blocks!WalkDone, blocks!Exit
<1> QED  BY <1>1, <1>2, <1>3 DEF blocks!Step

(* strings *)
LEMMA StringsElsewhere == characters!StringsStep => cmd' = cmd /\ cmd.util = "strings"
  BY DEF characters!StringsStep, characters!StringsBegin, characters!OpenFails,
     characters!strings_buf, characters!strings_buf_fails, characters!StringsEndOfFile,
     characters!StringsFinish, characters!StringsReading, characters!Open, characters!AtArg,
     characters!Running, characters!Abort, characters!Close, characters!CloseFails,
     characters!Return, characters!WalkDone, characters!Exit

(* expand *)
LEMMA ExpandElsewhere == characters!ExpandStep => cmd' = cmd /\ cmd.util = "expand"
  BY DEF characters!ExpandStep, characters!ExpandBegin, characters!arg_file,
     characters!ExpandEndOfFile, characters!ExpandFinish, characters!ExpandReading,
     characters!AtArg, characters!Running, characters!Return, characters!WalkDone, characters!Exit

(* split *)
LEMMA SplitElsewhere == outputs!SplitStep => cmd' = cmd /\ cmd.util = "split"
  BY DEF outputs!SplitStep, outputs!SplitBegin, outputs!SplitRead, outputs!SplitReadFails,
     outputs!open_output, outputs!output_bytes, outputs!SplitFinish, outputs!SplitReading,
     outputs!SplitAt, outputs!Private, outputs!OpenInput, outputs!AtArg, outputs!Running

(* uuencode *)
LEMMA UuencodeElsewhere == characters!UuencodeStep => cmd' = cmd /\ cmd.util = "uuencode"
  BY DEF characters!UuencodeStep, characters!UuencodeBegin, characters!UuencodeRead, characters!UuencodeReadFails, characters!UuencodeEndOfFile,
     characters!UuencodeFinish, characters!UuencodeReading, characters!OpenInput, characters!AtArg, characters!Running,
     characters!WalkDone

(* uniq, comm and cmp *)
LEMMA CompareElsewhere == compare!Step => cmd' = cmd /\ cmd.util \in {"uniq", "comm", "cmp"}
<1>1. compare!UniqStep => cmd' = cmd /\ cmd.util \in {"uniq", "comm", "cmp"}
  BY DEF compare!UniqStep, compare!UniqBegin, compare!process_line, compare!LastLine,
     compare!UniqFinish, compare!UniqReading, compare!OpenInput, compare!AtArg, compare!Running,
     compare!Exit
<1>2. compare!CommStep => cmd' = cmd /\ cmd.util \in {"uniq", "comm", "cmp"}
  BY DEF compare!CommStep, compare!CommBegin, compare!ReadLine, compare!CommReadFails,
     compare!CompareLines, compare!BothEnded, compare!CommFinish, compare!Comparing,
     compare!OpenInput, compare!AtArg, compare!Running, compare!Exit
<1>3. compare!CmpStep => cmd' = cmd /\ cmd.util \in {"uniq", "comm", "cmp"}
  BY DEF compare!CmpStep, compare!cmp_open, compare!cmp_post_walk, compare!CmpFinish,
     compare!AtArg, compare!Running, compare!WalkDone, compare!Exit
<1> QED  BY <1>1, <1>2, <1>3 DEF compare!Step

(* grep and what *)
LEMMA SearchElsewhere == search!Step => cmd' = cmd /\ cmd.util \in {"grep", "what"}
<1>1. search!GrepStep => cmd' = cmd /\ cmd.util \in {"grep", "what"}
  BY DEF search!GrepStep, search!NoPatterns, search!GrepBegin, search!OpenFails, search!grep_line,
     search!GrepEndOfFile, search!GrepReadFails, search!GrepFinish, search!Searching,
     search!GrepReading, search!More, search!Open, search!AtArg, search!Running, search!Close,
     search!CloseFails, search!Return, search!WalkDone, search!Exit
<1>2. search!WhatStep => cmd' = cmd /\ cmd.util \in {"grep", "what"}
  BY DEF search!WhatStep, search!WhatBegin, search!OpenFails, search!what_actor,
     search!WhatEndOfFile, search!WhatReadFails, search!WhatFinish, search!WhatReading, search!Open,
     search!AtArg, search!Running, search!Close, search!CloseFails, search!Return,
     search!WalkDone, search!Exit
<1> QED  BY <1>1, <1>2 DEF search!Step

(* sort *)
LEMMA SortElsewhere == sort!Step => cmd' = cmd /\ cmd.util = "sort"
<1>1. sort!Begin \/ sort!BeginFails \/ sort!sort_actor \/ sort!EndOfFile \/ sort!ReadError
      \/ sort!sort_mode_post_walk \/ sort!SortDone => cmd' = cmd /\ cmd.util = "sort"
  BY DEF sort!Begin, sort!BeginFails, sort!sort_actor, sort!EndOfFile, sort!ReadError,
     sort!sort_mode_post_walk, sort!SortDone, sort!Sorting, sort!Reading, sort!At, sort!Open,
     sort!OpenFails, sort!AtArg, sort!Running, sort!Close, sort!CloseFails, sort!Return,
     sort!WalkDone, sort!Exit, sort!Abort
<1>2. sort!merge_actor \/ sort!Merge \/ sort!merge_mode_input_more \/ sort!ReadFails
      \/ sort!merge_mode_output \/ sort!Finish => cmd' = cmd /\ cmd.util = "sort"
  BY DEF sort!merge_actor, sort!Merge, sort!merge_mode_input_more, sort!ReadFails,
     sort!merge_mode_output, sort!Finish, sort!Merging, sort!At, sort!AtArg, sort!Running,
     sort!WalkDone, sort!Exit
<1> QED  BY <1>1, <1>2 DEF sort!Step

(* tsort and expr *)
LEMMA TokensElsewhere == tokens!Step => cmd' = cmd /\ cmd.util \in {"tsort", "expr"}
<1>1. tokens!TsortStep => cmd' = cmd /\ cmd.util \in {"tsort", "expr"}
  BY DEF tokens!TsortStep, tokens!TsortBegin, tokens!process_line, tokens!NoMemory,
     tokens!TsortEndOfFile, tokens!sort_and_write_vals, tokens!MaxRecurse, tokens!TsortFinish,
     tokens!TsortReading, tokens!OpenInput, tokens!AtArg, tokens!Running, tokens!Exit
<1>2. tokens!ExprStep => cmd' = cmd /\ cmd.util \in {"tsort", "expr"}
  BY DEF tokens!ExprStep, tokens!reduce, tokens!reduce_parentheses, tokens!line, tokens!shift,
     tokens!accept, tokens!yyerror, tokens!Parsing, tokens!Running, tokens!Exit
<1> QED  BY <1>1, <1>2 DEF tokens!Step

(* what a step of Filters is to the utilities below *)
LEMMA StepOfUtility ==
  [Next]_vars => \/ UNCHANGED vars
                 \/ /\ cmd' = cmd
                    /\ cmd.util = "tee" => outputs!TeeStep
                    /\ cmd.util = "split" => outputs!SplitStep
                    /\ cmd.util \in {"cat", "cksum"} => blocks!CatStep
<1>1. Step => /\ cmd' = cmd
              /\ cmd.util = "tee" => outputs!TeeStep
              /\ cmd.util = "split" => outputs!SplitStep
              /\ cmd.util \in {"cat", "cksum"} => blocks!CatStep
  <2>1. outputs!TeeStep => cmd' = cmd /\ cmd.util = "tee"
    BY DEF outputs!TeeStep, outputs!build_flist_actor, outputs!tee_post_walk, outputs!Copy,
       outputs!CopyEnds, outputs!free_flist, outputs!Abort, outputs!Exit, outputs!TeeAt,
       outputs!Running
  <2> QED
    BY <2>1, BlocksElsewhere, StringsElsewhere, ExpandElsewhere, SplitElsewhere,
       UuencodeElsewhere, CompareElsewhere, SearchElsewhere, SortElsewhere, TokensElsewhere
       DEF Step
<1> QED  BY <1>1 DEF Next, Done

-----------------------------------------------------------------------------
(***************************************************************************)
(* Sequences: a prefix and what follows it, and failures added to those    *)
(* there were.                                                             *)
(***************************************************************************)
(* a prefix, and the first k of what follows it *)
LEMMA PrefixGrows ==
  ASSUME NEW S, NEW s \in Seq(S), NEW a \in Nat, NEW n \in Nat, a + n <= Len(s),
         NEW k \in 0..n
  PROVE  SubSeq(s, 1, a) \o SubSeq(SubSeq(s, a + 1, a + n), 1, k) = SubSeq(s, 1, a + k)
<1>1. SubSeq(SubSeq(s, a + 1, a + n), 1, k) = SubSeq(s, a + 1, a + k)
  <2>1. CASE k = 0
    BY <2>1, SubSeqEmpty
  <2>2. CASE k > 0
    <3>1. a + 1 \in 1..Len(s) /\ a + n \in 1..Len(s) /\ 1 \in 1..(a + n - (a + 1) + 1)
          /\ k \in 1..(a + n - (a + 1) + 1)
      BY <2>2
    <3>2. SubSeq(SubSeq(s, a + 1, a + n), 1, k) = SubSeq(s, a + 1 + 1 - 1, a + 1 + k - 1)
      BY <3>1, SubSeqOfSubSeq
    <3> QED  BY <3>2
  <2> QED  BY <2>1, <2>2
<1>2. SubSeq(s, 1, a) \o SubSeq(s, a + 1, a + k) = SubSeq(s, 1, a + k)
  BY ConcatAdjacentSubSeq
<1> QED  BY <1>1, <1>2

(* what a prefix is, element by element *)
LEMMA PrefixElements ==
  ASSUME NEW S, NEW s \in Seq(S), NEW k \in 0..Len(s)
  PROVE  /\ SubSeq(s, 1, k) \in Seq(S) /\ Len(SubSeq(s, 1, k)) = k
         /\ DOMAIN SubSeq(s, 1, k) = 1..k
         /\ \A i \in 1..k : SubSeq(s, 1, k)[i] = s[i]
  BY SubSeqProperties

(* there are finitely many *)
LEMMA WritesFinite ==
  ASSUME NEW S, NEW f \in Seq(S)
  PROVE  IsFiniteSet(WritesIn(f)) /\ Cardinality(WritesIn(f)) \in Nat
<1>1. IsFiniteSet(1..Len(f))
  BY FS_Interval
<1>2. WritesIn(f) \subseteq 1..Len(f)
  BY DEF WritesIn
<1> QED  BY <1>1, <1>2, FS_Subset, FS_CardinalityType

(* one failure more *)
LEMMA FailureAppended ==
  ASSUME NEW S, NEW f \in Seq(S), NEW x \in S
  PROVE  /\ Append(f, x) \in Seq(S)
         /\ Cardinality(WritesIn(f)) <= Cardinality(WritesIn(Append(f, x)))
<1>1. Append(f, x) \in Seq(S) /\ DOMAIN f \subseteq DOMAIN Append(f, x)
      /\ \A k \in DOMAIN f : Append(f, x)[k] = f[k]
  OBVIOUS
<1>2. WritesIn(f) \subseteq WritesIn(Append(f, x))
  BY <1>1 DEF WritesIn
<1> QED  BY <1>1, <1>2, WritesFinite, FS_Subset

(* the cardinality that an instance of the filters speaks of *)
LEMMA SameCardinality == \A S : outputs!Cardinality(S) = Cardinality(S)
  BY Zenon DEF outputs!Cardinality, Cardinality

(* as many failures of write(2) more as are added *)
LEMMA FailuresAdded ==
  ASSUME NEW S, NEW f \in Seq(S), NEW x \in S, x[1] = "write", NEW c \in Nat
  PROVE  LET g == f \o [j \in 1..c |-> x]
         IN /\ g \in Seq(S) /\ Len(g) = Len(f) + c
            /\ \A k \in DOMAIN g : IF k \in DOMAIN f THEN g[k] = f[k] ELSE g[k] = x
            /\ Cardinality(WritesIn(g)) = Cardinality(WritesIn(f)) + c
<1> DEFINE h == [j \in 1..c |-> x]
           g == f \o h
           new == (Len(f) + 1)..(Len(f) + c)
<1>1. h \in Seq(S) /\ Len(h) = c
  OBVIOUS
<1> HIDE DEF h
<1>2. /\ g \in Seq(S) /\ Len(g) = Len(f) + c
      /\ \A k \in 1..Len(f) : g[k] = f[k]
      /\ \A k \in new : g[k] = h[k - Len(f)]
  BY <1>1
<1>3. \A k \in new : g[k] = x
  BY <1>1, <1>2 DEF h
<1> HIDE DEF g
<1>4. DOMAIN g = 1..(Len(f) + c) /\ DOMAIN f = 1..Len(f) /\ Len(f) \in Nat
  BY <1>2
<1>5. WritesIn(g) = WritesIn(f) \cup new
  BY <1>2, <1>3, <1>4 DEF WritesIn
<1>6. IsFiniteSet(new) /\ Cardinality(new) = c
  BY <1>4, FS_Interval
<1>7. WritesIn(f) \cap new = {}
  BY <1>4 DEF WritesIn
<1>8. Cardinality(WritesIn(g)) = Cardinality(WritesIn(f)) + c
  <2>1. IsFiniteSet(WritesIn(f)) /\ Cardinality(WritesIn(f)) \in Nat
    BY WritesFinite
  <2> HIDE DEF new
  <2>2. Cardinality(WritesIn(f) \cup new)
          = Cardinality(WritesIn(f)) + Cardinality(new) - Cardinality(WritesIn(f) \cap new)
    BY <2>1, <1>6, FS_Union
  <2>3. Cardinality(WritesIn(f) \cap new) = 0
    BY <1>7, FS_EmptySet
  <2> QED  BY <2>1, <2>2, <2>3, <1>5, <1>6
<1>9. \A k \in DOMAIN g : IF k \in DOMAIN f THEN g[k] = f[k] ELSE g[k] = x
  BY <1>2, <1>3, <1>4
<1> QED  BY <1>2, <1>8, <1>9, WritesFinite DEF g, h

-----------------------------------------------------------------------------
(***************************************************************************)
(* tee starts with one output, and has read nothing.                       *)
(***************************************************************************)
LEMMA TeeBegins == Init => TeeInv
<1> SUFFICES ASSUME Init, cmd.util = "tee"
             PROVE  TeeTypeOK /\ TeeOpening /\ TeeReceives /\ TeeSkips /\ TeeStatus
  BY DEF TeeInv
<1>1. cmd.files \in Seq(Seq(Nat)) /\ Len(cmd.files) = 1 /\ cmd.outputs \in Nat
      /\ DOMAIN cmd.files = {1} /\ Input \in Seq(Nat)
  BY OctetsAssumption DEF Init, Input
<1>2. state = [pc |-> "open", skip |-> {}]
  BY DEF Init, Start, blocks!Utils, blocks!CatUtils, compare!Utils, search!Utils, tokens!Utils,
     outputs!TeeStart
<1>3. /\ arg = 1 /\ held = <<>> /\ out = <<<<>>>> /\ offset = [i \in {1} |-> 0]
      /\ exit_status = 0 /\ status = "running" /\ faults = <<>>
  BY <1>1 DEF Init
<1>4. DOMAIN out = {1} /\ out \in Seq(Seq(Nat)) /\ Len(out) = 1 /\ out[1] = <<>>
  BY <1>3
<1>5. TeeTypeOK
  BY <1>1, <1>2, <1>3, <1>4 DEF TeeTypeOK, Input
<1>6. TeeReceives
  <2>1. Prefix(0) = <<>>
    BY SubSeqEmpty DEF Prefix
  <2>2. offset[1] = 0 /\ 0 \in 0..offset[1] /\ out[1] = Prefix(0)
    BY <2>1, <1>3, <1>4
  <2> QED  BY <2>2, <1>4 DEF TeeReceives
<1>7. TeeSkips
  <2>1. Cardinality(state.skip) = 0
    BY <1>2, FS_EmptySet
  <2>2. Cardinality(WriteFaults) \in Nat
    BY <1>5, WritesFinite DEF TeeTypeOK, WriteFaults
  <2> QED  BY <2>1, <2>2 DEF TeeSkips
<1>8. Kinds = {}
  BY <1>3 DEF Kinds
<1> QED  BY <1>2, <1>3, <1>5, <1>6, <1>7, <1>8 DEF TeeOpening, TeeStatus

-----------------------------------------------------------------------------
(***************************************************************************)
(* The steps of tee.  Those that leave the outputs and what is skipped     *)
(* alone leave most of the invariant alone.                                *)
(***************************************************************************)
LEMMA OutputsLeft ==
  ASSUME TeeTypeOK, TeeReceives, TeeSkips, UNCHANGED <<cmd, arg, offset, out, held>>,
         state'.skip = state.skip, state' \in [pc : {"open", "copy", "close"}, skip : SUBSET DOMAIN out],
         \/ UNCHANGED faults
         \/ \E kind \in FaultKinds : faults' = Append(faults, <<kind, arg>>),
         exit_status' \in {0, 1}, status' \in {"running", "ok", "error", "aborted"}
  PROVE  TeeTypeOK' /\ TeeReceives' /\ TeeSkips'
<1>1. /\ faults' \in Seq(FaultKinds \X {1})
      /\ Cardinality(WriteFaults) <= Cardinality(WriteFaults')
  <2>1. CASE UNCHANGED faults
    <3>1. Cardinality(WriteFaults) \in Nat
      BY WritesFinite DEF TeeTypeOK, WriteFaults
    <3> QED  BY <2>1, <3>1 DEF TeeTypeOK, WriteFaults
  <2>2. ASSUME NEW kind \in FaultKinds, faults' = Append(faults, <<kind, arg>>)
        PROVE  /\ faults' \in Seq(FaultKinds \X {1})
               /\ Cardinality(WriteFaults) <= Cardinality(WriteFaults')
    <3>1. <<kind, arg>> \in FaultKinds \X {1} /\ faults \in Seq(FaultKinds \X {1})
      BY DEF TeeTypeOK
    <3> QED  BY <2>2, <3>1, FailureAppended DEF WriteFaults
  <2> QED  BY <2>1, <2>2
<1>2. TeeTypeOK'
  BY <1>1 DEF TeeTypeOK, Input
<1>3. TeeReceives'
  BY DEF TeeReceives, Prefix, Input
<1>4. TeeSkips'
  <2>1. Cardinality(WriteFaults) \in Nat /\ Cardinality(WriteFaults') \in Nat
    BY <1>1, WritesFinite DEF TeeTypeOK, WriteFaults
  <2>2. IsFiniteSet(state.skip)
    <3>1. Len(out) \in Nat /\ state.skip \subseteq 1..Len(out)
      BY DEF TeeTypeOK
    <3>2. IsFiniteSet(1..Len(out))
      BY <3>1, FS_Interval
    <3> QED  BY <3>1, <3>2, FS_Subset
  <2>3. Cardinality(state.skip) \in Nat
    BY <2>2, FS_CardinalityType
  <2> QED  BY <1>1, <2>1, <2>3 DEF TeeSkips
<1> QED  BY <1>2, <1>3, <1>4

(* an output more, while nothing has been read *)
LEMMA StepBuildFlist ==
  ASSUME TeeTypeOK, TeeOpening, TeeReceives, TeeSkips, TeeStatus, outputs!build_flist_actor
  PROVE  TeeTypeOK' /\ TeeOpening' /\ TeeReceives' /\ TeeSkips' /\ TeeStatus'
<1>1. /\ status = "running" /\ state.pc = "open" /\ Len(out) <= cmd.outputs
      /\ state.skip = {} /\ offset[1] = 0 /\ exit_status = 0 /\ faults = <<>>
  BY DEF outputs!build_flist_actor, outputs!TeeAt, outputs!Running, TeeOpening
<1>2. CASE /\ out' = Append(out, <<>>)
           /\ UNCHANGED <<cmd, walker, offset, state, held, exit_status, status, faults>>
  <2>1. UNCHANGED <<cmd, arg, offset, state, held, exit_status, status, faults>>
    BY <1>2 DEF walker
  <2>2. <<>> \in Seq(Nat) /\ out \in Seq(Seq(Nat)) /\ Len(out) \in Nat
    BY DEF TeeTypeOK
  <2>3. /\ out' \in Seq(Seq(Nat)) /\ Len(out') = Len(out) + 1
        /\ DOMAIN out = 1..Len(out) /\ DOMAIN out' = 1..(Len(out) + 1)
        /\ \A o \in DOMAIN out : out'[o] = out[o]
        /\ out'[Len(out) + 1] = <<>>
    BY <1>2, <2>2
  <2>4. TeeTypeOK'
    <3>1. state' \in [pc : {"open", "copy", "close"}, skip : SUBSET DOMAIN out']
      BY <2>1, <2>3 DEF TeeTypeOK
    <3>2. Len(out') \in 1..(cmd.outputs + 1)
      BY <1>1, <2>3 DEF TeeTypeOK
    <3> QED  BY <2>1, <2>3, <3>1, <3>2 DEF TeeTypeOK, Input
  <2>5. TeeReceives'
    <3>1. Prefix(0)' = Prefix(0) /\ Prefix(0) = <<>>
      BY <2>1, SubSeqEmpty DEF Prefix, Input
    <3>2. \A o \in DOMAIN out : out[o] = Prefix(0)
      BY <1>1 DEF TeeReceives
    <3>3. \A o \in DOMAIN out' : out'[o] = Prefix(0)'
      <4>1. TAKE o \in DOMAIN out'
      <4>2. o \in DOMAIN out \/ o = Len(out) + 1
        BY <2>2, <2>3
      <4> QED  BY <4>2, <2>3, <3>1, <3>2
    <3> QED  BY <3>3, <2>1, <1>1 DEF TeeReceives
  <2>6. TeeOpening' /\ TeeSkips' /\ TeeStatus'
    BY <1>1, <2>1 DEF TeeOpening, TeeSkips, TeeStatus, WriteFaults, Kinds, Input
  <2> QED  BY <2>4, <2>5, <2>6
<1>3. CASE outputs!Fault("open") /\ outputs!Abort /\ UNCHANGED out
  <2>1. /\ faults' = Append(faults, <<"open", arg>>) /\ status' = "aborted"
        /\ UNCHANGED <<cmd, arg, offset, state, held, exit_status, out>>
    BY <1>3 DEF outputs!Fault, outputs!Abort, outputs!walker
  <2>2. TeeTypeOK' /\ TeeReceives' /\ TeeSkips'
    BY <2>1, OutputsLeft DEF TeeTypeOK, FaultKinds
  <2>3. faults' # <<>> /\ "read" \notin Kinds'
    BY <1>1, <2>1 DEF Kinds
  <2> QED  BY <1>1, <2>1, <2>2, <2>3 DEF TeeOpening, TeeStatus
<1> QED  BY <1>2, <1>3 DEF outputs!build_flist_actor, outputs!walker, walker

(* standard input is ready to be read, or cannot be made so *)
LEMMA StepPostWalk ==
  ASSUME TeeTypeOK, TeeOpening, TeeReceives, TeeSkips, TeeStatus, outputs!tee_post_walk
  PROVE  TeeTypeOK' /\ TeeOpening' /\ TeeReceives' /\ TeeSkips' /\ TeeStatus'
<1>1. /\ status = "running" /\ state.pc = "open" /\ Len(out) > cmd.outputs
      /\ state.skip = {} /\ exit_status = 0 /\ faults = <<>>
      /\ UNCHANGED <<cmd, arg, offset, out, held, status>>
  BY DEF outputs!tee_post_walk, outputs!TeeAt, outputs!Running, outputs!walker, outputs!results,
     TeeOpening
<1>2. Len(out) = cmd.outputs + 1
  BY <1>1 DEF TeeTypeOK
<1>3. CASE outputs!GoTo("copy") /\ UNCHANGED <<exit_status, faults>>
  <2>1. state' = [state EXCEPT !.pc = "copy"] /\ state'.skip = state.skip /\ state'.pc = "copy"
        /\ state' \in [pc : {"open", "copy", "close"}, skip : SUBSET DOMAIN out]
    BY <1>3 DEF outputs!GoTo, TeeTypeOK
  <2>2. TeeTypeOK' /\ TeeReceives' /\ TeeSkips'
    BY <1>1, <1>3, <2>1, OutputsLeft DEF TeeTypeOK
  <2> QED  BY <1>1, <1>2, <1>3, <2>1, <2>2 DEF TeeOpening, TeeStatus, Kinds
<1>4. CASE outputs!GoTo("close") /\ outputs!Fault("fcntl") /\ exit_status' = 1
  <2>1. state' = [state EXCEPT !.pc = "close"] /\ state'.skip = state.skip /\ state'.pc = "close"
        /\ state' \in [pc : {"open", "copy", "close"}, skip : SUBSET DOMAIN out]
        /\ faults' = Append(faults, <<"fcntl", arg>>)
    BY <1>4 DEF outputs!GoTo, outputs!Fault, TeeTypeOK
  <2>2. TeeTypeOK' /\ TeeReceives' /\ TeeSkips'
    BY <1>1, <1>4, <2>1, OutputsLeft DEF TeeTypeOK, FaultKinds
  <2>3. faults' # <<>>
    BY <1>1, <2>1
  <2> QED  BY <1>1, <1>2, <1>4, <2>1, <2>2, <2>3 DEF TeeOpening, TeeStatus
<1> QED  BY <1>3, <1>4 DEF outputs!tee_post_walk

(* a read that fails, or finds the end, leaves the outputs as they are *)
LEMMA StepCopyEnds ==
  ASSUME TeeTypeOK, TeeOpening, TeeReceives, TeeSkips, TeeStatus, outputs!CopyEnds
  PROVE  TeeTypeOK' /\ TeeOpening' /\ TeeReceives' /\ TeeSkips' /\ TeeStatus'
<1>1. /\ status = "running" /\ state.pc = "copy" /\ state' = [state EXCEPT !.pc = "close"]
      /\ (outputs!Left(1) = 0 /\ UNCHANGED faults) \/ faults' = Append(faults, <<"read", arg>>)
      /\ UNCHANGED <<cmd, arg, offset, out, held, exit_status, status>>
  BY DEF outputs!CopyEnds, outputs!TeeAt, outputs!Running, outputs!GoTo, outputs!Fault,
     outputs!walker, outputs!results
<1>2. /\ state'.skip = state.skip /\ state'.pc = "close"
      /\ state' \in [pc : {"open", "copy", "close"}, skip : SUBSET DOMAIN out]
  BY <1>1 DEF TeeTypeOK
<1>3. TeeTypeOK' /\ TeeReceives' /\ TeeSkips'
  BY <1>1, <1>2, OutputsLeft DEF TeeTypeOK, FaultKinds
<1>4. TeeOpening'
  BY <1>1, <1>2 DEF TeeOpening
<1>5. TeeStatus'
  <2>1. CASE outputs!Left(1) = 0 /\ UNCHANGED faults
    <3>1. offset[1] = Len(Input)
      BY <2>1 DEF outputs!Left, Input, TeeTypeOK
    <3> QED  BY <1>1, <1>2, <2>1, <3>1 DEF TeeStatus, Kinds, Input
  <2>2. CASE faults' = Append(faults, <<"read", arg>>)
    <3>1. Kinds' = Kinds \cup {"read"} /\ faults' # <<>>
      <4>1. faults \in Seq(FaultKinds \X {1}) /\ arg = 1 /\ <<"read", arg>> \in FaultKinds \X {1}
        BY DEF TeeTypeOK, FaultKinds
      <4>2. /\ DOMAIN faults = 1..Len(faults) /\ DOMAIN faults' = 1..(Len(faults) + 1)
            /\ \A k \in 1..Len(faults) : faults'[k] = faults[k]
            /\ faults'[Len(faults) + 1] = <<"read", arg>> /\ Len(faults) \in Nat
        BY <2>2, <4>1
      <4>3. DOMAIN faults' = DOMAIN faults \cup {Len(faults) + 1}
        BY <4>2
      <4>4. Kinds' = {faults'[k][1] : k \in DOMAIN faults'}
        BY DEF Kinds
      <4> QED  BY <2>2, <4>2, <4>3, <4>4 DEF Kinds
    <3> QED  BY <1>1, <1>2, <3>1 DEF TeeStatus
  <2> QED  BY <1>1, <2>1, <2>2
<1> QED  BY <1>3, <1>4, <1>5

(* nothing is held back: there is nothing to flush *)
LEMMA StepFreeFlist ==
  ASSUME TeeTypeOK, TeeOpening, TeeReceives, TeeSkips, TeeStatus, outputs!free_flist
  PROVE  TeeTypeOK' /\ TeeOpening' /\ TeeReceives' /\ TeeSkips' /\ TeeStatus'
<1>1. status = "running" /\ state.pc = "close" /\ held = <<>>
  BY DEF outputs!free_flist, outputs!TeeAt, outputs!Running, TeeTypeOK
<1>2. CASE outputs!Exit(exit_status)
  <2>1. /\ status' = (IF exit_status = 0 THEN "ok" ELSE "error") /\ held' = <<>>
        /\ exit_status' = exit_status
        /\ outputs!Flush /\ UNCHANGED <<cmd, arg, offset, state>>
    BY <1>2 DEF outputs!Exit, outputs!walker
  <2>2. UNCHANGED <<out, faults>>
    <3>1. out' = [out EXCEPT ![1] = @ \o held] /\ UNCHANGED faults
      BY <1>1, <2>1 DEF outputs!Flush
    <3>2. out \in Seq(Seq(Nat)) /\ 1 \in DOMAIN out /\ out[1] \in Seq(Nat)
      BY DEF TeeTypeOK
    <3>3. out[1] \o <<>> = out[1]
      BY <3>2
    <3> QED  BY <1>1, <3>1, <3>2, <3>3
  <2>3. TeeTypeOK' /\ TeeReceives' /\ TeeSkips'
    BY <1>1, <2>1, <2>2, OutputsLeft DEF TeeTypeOK
  <2> QED  BY <1>1, <2>1, <2>2, <2>3 DEF TeeOpening, TeeStatus, TeeTypeOK, Kinds, Input
<1>3. CASE /\ outputs!Fault("close") /\ status' = "error" /\ exit_status' = 1
           /\ UNCHANGED <<cmd, outputs!walker, offset, state, outputs!results>>
  <2>1. faults' = Append(faults, <<"close", arg>>) /\ UNCHANGED <<cmd, arg, offset, state, out, held>>
    BY <1>3 DEF outputs!Fault, outputs!walker, outputs!results
  <2>2. TeeTypeOK' /\ TeeReceives' /\ TeeSkips'
    BY <1>3, <2>1, OutputsLeft DEF TeeTypeOK, FaultKinds
  <2>3. faults' # <<>>
    <3>1. faults \in Seq(FaultKinds \X {1})
      BY DEF TeeTypeOK
    <3> QED  BY <2>1, <3>1
  <2> QED  BY <1>1, <1>3, <2>1, <2>2, <2>3 DEF TeeOpening, TeeStatus
<1> QED  BY <1>2, <1>3 DEF outputs!free_flist

(* a block goes to every output that is not skipped; one that fails takes a *)
(* part of it, is skipped from then on, and counts as one failure           *)
LEMMA StepCopy ==
  ASSUME TeeTypeOK, TeeOpening, TeeReceives, TeeSkips, TeeStatus, outputs!Copy
  PROVE  TeeTypeOK' /\ TeeOpening' /\ TeeReceives' /\ TeeSkips' /\ TeeStatus'
<1>1. /\ status = "running" /\ state.pc = "copy"
      /\ UNCHANGED <<cmd, arg, held, status>>
  BY DEF outputs!Copy, outputs!TeeAt, outputs!Running, outputs!walker
<1>2. PICK n \in outputs!Sizes(1, BUFSZ) :
        \E failing \in SUBSET (DOMAIN out \ state.skip) : \E cut \in [failing -> 0..(n - 1)] :
          LET sent(o) == IF o \in state.skip THEN 0 ELSE IF o \in failing THEN cut[o] ELSE n
          IN /\ Len(faults) + Cardinality(failing) <= MaxFaults
             /\ faults' = faults \o [j \in 1..Cardinality(failing) |-> <<"write", arg>>]
             /\ out' = [o \in DOMAIN out |-> out[o] \o SubSeq(outputs!Chunk(1, n), 1, sent(o))]
             /\ state' = [state EXCEPT !.skip = @ \cup failing]
             /\ exit_status' = IF failing = {} THEN exit_status ELSE 1
             /\ outputs!Take(1, n)
  BY SameCardinality DEF outputs!Copy
<1>3. PICK failing \in SUBSET (DOMAIN out \ state.skip) : \E cut \in [failing -> 0..(n - 1)] :
        LET sent(o) == IF o \in state.skip THEN 0 ELSE IF o \in failing THEN cut[o] ELSE n
        IN /\ Len(faults) + Cardinality(failing) <= MaxFaults
           /\ faults' = faults \o [j \in 1..Cardinality(failing) |-> <<"write", arg>>]
           /\ out' = [o \in DOMAIN out |-> out[o] \o SubSeq(outputs!Chunk(1, n), 1, sent(o))]
           /\ state' = [state EXCEPT !.skip = @ \cup failing]
           /\ exit_status' = IF failing = {} THEN exit_status ELSE 1
           /\ outputs!Take(1, n)
  BY <1>2
<1>4. PICK cut \in [failing -> 0..(n - 1)] :
         LET sent(o) == IF o \in state.skip THEN 0 ELSE IF o \in failing THEN cut[o] ELSE n
         IN /\ Len(faults) + Cardinality(failing) <= MaxFaults
            /\ faults' = faults \o [j \in 1..Cardinality(failing) |-> <<"write", arg>>]
            /\ out' = [o \in DOMAIN out |-> out[o] \o SubSeq(outputs!Chunk(1, n), 1, sent(o))]
            /\ state' = [state EXCEPT !.skip = @ \cup failing]
            /\ exit_status' = IF failing = {} THEN exit_status ELSE 1
            /\ outputs!Take(1, n)
  BY <1>3
<1> DEFINE sent(o) == IF o \in state.skip THEN 0 ELSE IF o \in failing THEN cut[o] ELSE n
           block == SubSeq(Input, offset[1] + 1, offset[1] + n)
<1>5. /\ faults' = faults \o [j \in 1..Cardinality(failing) |-> <<"write", arg>>]
      /\ out' = [o \in DOMAIN out |-> out[o] \o SubSeq(block, 1, sent(o))]
      /\ state' = [state EXCEPT !.skip = @ \cup failing]
      /\ exit_status' = (IF failing = {} THEN exit_status ELSE 1)
      /\ offset' = [offset EXCEPT ![1] = @ + n]
  BY <1>4 DEF outputs!Take, outputs!Chunk, Input
<1>6. /\ Input \in Seq(Nat) /\ Len(Input) \in Nat /\ offset[1] \in Nat /\ n \in Nat \ {0}
      /\ offset[1] + n <= Len(Input) /\ Input' = Input
  <2>1. Input \in Seq(Nat) /\ offset[1] \in 0..Len(Input) /\ Input' = Input
    BY <1>1 DEF TeeTypeOK, Input
  <2>2. n \in 1..(IF BUFSZ < Len(Input) - offset[1] THEN BUFSZ ELSE Len(Input) - offset[1])
    BY <1>2 DEF outputs!Sizes, outputs!Least, outputs!Left, Input
  <2>3. BUFSZ \in Nat
    BY FiltersAssumption
  <2> QED  BY <2>1, <2>2, <2>3
<1>7. offset' \in [{1} -> 0..Len(Input')] /\ offset'[1] = offset[1] + n
  BY <1>5, <1>6 DEF TeeTypeOK
<1>8. \A o \in DOMAIN out : sent(o) \in 0..n /\ (o \notin state.skip \cup failing => sent(o) = n)
  BY <1>6, <1>4
<1>9. DOMAIN out' = DOMAIN out /\ Len(out) \in Nat /\ DOMAIN out = 1..Len(out)
  BY <1>5 DEF TeeTypeOK
<1>10. \A o \in DOMAIN out : \E k \in 0..offset'[1] :
        out'[o] = Prefix(k) /\ (o \notin state.skip \cup failing => k = offset'[1])
  <2> SUFFICES ASSUME NEW o \in DOMAIN out
               PROVE  \E k \in 0..offset'[1] :
                        out'[o] = Prefix(k) /\ (o \notin state.skip \cup failing => k = offset'[1])
    OBVIOUS
  <2>1. PICK k \in 0..offset[1] : out[o] = Prefix(k) /\ (o \notin state.skip => k = offset[1])
    BY DEF TeeReceives
  <2>2. out'[o] = out[o] \o SubSeq(block, 1, sent(o))
    BY <1>5
  <2>3. CASE o \in state.skip
    <3>1. SubSeq(block, 1, sent(o)) = <<>>
      BY <2>3, SubSeqEmpty
    <3>2. Prefix(k) \in Seq(Nat)
      BY <1>6, <2>1, PrefixElements DEF Prefix
    <3>3. Prefix(k) \o <<>> = Prefix(k)
      BY <3>2
    <3>4. out'[o] = Prefix(k)
      BY <2>1, <2>2, <3>1, <3>3
    <3>5. k \in 0..offset'[1]
      BY <1>6, <1>7
    <3> QED  BY <2>3, <3>4, <3>5
  <2>4. CASE o \notin state.skip
    <3>1. sent(o) \in 0..n
      BY <1>8
    <3>2. Prefix(offset[1]) \o SubSeq(block, 1, sent(o)) = Prefix(offset[1] + sent(o))
      <4> HIDE DEF sent, block
      <4>1. PICK t, a, m : t = Input /\ a = offset[1] /\ m = sent(o)
        OBVIOUS
      <4>2. t \in Seq(Nat) /\ a \in Nat /\ n \in Nat /\ a + n <= Len(t) /\ m \in 0..n
        BY <1>6, <3>1, <4>1
      <4>3. SubSeq(t, 1, a) \o SubSeq(SubSeq(t, a + 1, a + n), 1, m) = SubSeq(t, 1, a + m)
        BY <4>2, PrefixGrows
      <4> QED  BY <4>1, <4>3 DEF Prefix, block
    <3>3. out'[o] = Prefix(offset[1] + sent(o))
      BY <2>1, <2>2, <2>4, <3>2
    <3>4. offset[1] + sent(o) \in 0..offset'[1]
      BY <1>6, <1>7, <3>1
    <3>5. o \notin state.skip \cup failing => offset[1] + sent(o) = offset'[1]
      BY <1>7, <1>8
    <3> QED  BY <3>3, <3>4, <3>5
  <2> QED  BY <2>3, <2>4
<1>11. out' \in Seq(Seq(Nat)) /\ Len(out') = Len(out)
  <2>1. \A o \in DOMAIN out : out'[o] \in Seq(Nat)
    <3>1. TAKE o \in DOMAIN out
    <3>2. PICK k \in 0..offset'[1] : out'[o] = Prefix(k)
      BY <1>10
    <3>3. k \in 0..Len(Input)
      BY <1>6, <1>7
    <3> QED  BY <1>6, <3>2, <3>3, PrefixElements DEF Prefix
  <2> DEFINE f == [o \in DOMAIN out |-> out[o] \o SubSeq(block, 1, sent(o))]
  <2>2. out' = f
    BY <1>5
  <2>3. f \in [1..Len(out) -> Seq(Nat)]
    <3>1. DOMAIN out = 1..Len(out)
      BY <1>9
    <3>2. \A o \in DOMAIN out : f[o] \in Seq(Nat)
      BY <2>1, <2>2
    <3> QED  BY <3>1, <3>2, Zenon
  <2> HIDE DEF f
  <2>4. f \in Seq(Seq(Nat)) /\ Len(f) = Len(out)
    BY <1>9, <2>3
  <2> QED  BY <2>2, <2>4
<1>12. /\ IsFiniteSet(failing) /\ Cardinality(failing) \in Nat
       /\ IsFiniteSet(state.skip) /\ Cardinality(state.skip) \in Nat
       /\ Cardinality(state.skip \cup failing) = Cardinality(state.skip) + Cardinality(failing)
  <2>1. failing \subseteq 1..Len(out) /\ state.skip \subseteq 1..Len(out)
    BY <1>9 DEF TeeTypeOK
  <2>2. IsFiniteSet(failing) /\ IsFiniteSet(state.skip)
    <3>1. IsFiniteSet(1..Len(out))
      BY <1>9, FS_Interval
    <3> QED  BY <2>1, <3>1, FS_Subset
  <2>3. Cardinality(failing) \in Nat /\ Cardinality(state.skip) \in Nat
    BY <2>2, FS_CardinalityType
  <2>4. state.skip \cap failing = {}
    OBVIOUS
  <2>5. Cardinality(state.skip \cup failing)
          = Cardinality(state.skip) + Cardinality(failing) - Cardinality(state.skip \cap failing)
    BY <2>2, FS_Union
  <2>6. Cardinality(state.skip \cap failing) = 0
    BY <2>4, FS_EmptySet
  <2> QED  BY <2>2, <2>3, <2>5, <2>6
<1>13. /\ faults' \in Seq(FaultKinds \X {1}) /\ Len(faults') = Len(faults) + Cardinality(failing)
       /\ \A k \in DOMAIN faults' :
            IF k \in DOMAIN faults THEN faults'[k] = faults[k] ELSE faults'[k] = <<"write", 1>>
       /\ Cardinality(WriteFaults') = Cardinality(WriteFaults) + Cardinality(failing)
  <2>1. faults \in Seq(FaultKinds \X {1}) /\ <<"write", 1>> \in FaultKinds \X {1}
        /\ <<"write", 1>>[1] = "write" /\ arg = 1
    BY DEF TeeTypeOK, FaultKinds
  <2>2. faults' = faults \o [j \in 1..Cardinality(failing) |-> <<"write", 1>>]
    BY <1>5, <2>1
  <2> DEFINE x == <<"write", 1>>
             c == Cardinality(failing)
             g == faults \o [j \in 1..c |-> x]
  <2>3. /\ g \in Seq(FaultKinds \X {1}) /\ Len(g) = Len(faults) + c
        /\ \A k \in DOMAIN g : IF k \in DOMAIN faults THEN g[k] = faults[k] ELSE g[k] = x
        /\ Cardinality(WritesIn(g)) = Cardinality(WritesIn(faults)) + c
    <3>1. x \in FaultKinds \X {1} /\ x[1] = "write" /\ c \in Nat
      BY <1>12, <2>1
    <3>2. PICK S : S = FaultKinds \X {1}
      OBVIOUS
    <3>3. faults \in Seq(S) /\ x \in S
      BY <2>1, <3>1, <3>2
    <3> HIDE DEF x, c
    <3> QED  BY <3>1, <3>2, <3>3, FailuresAdded
  <2> QED  BY <2>2, <2>3 DEF WriteFaults
<1>14. state' = [pc |-> "copy", skip |-> state.skip \cup failing]
  BY <1>1, <1>5 DEF TeeTypeOK
<1>15. TeeTypeOK'
  <2>1. state' \in [pc : {"open", "copy", "close"}, skip : SUBSET DOMAIN out']
    BY <1>9, <1>14 DEF TeeTypeOK
  <2>2. exit_status' \in {0, 1}
    BY <1>5 DEF TeeTypeOK
  <2> QED  BY <1>1, <1>7, <1>11, <1>13, <2>1, <2>2 DEF TeeTypeOK
<1>16. TeeReceives'
  <2>1. \A k : Prefix(k)' = Prefix(k)
    BY <1>6 DEF Prefix
  <2> QED  BY <1>9, <1>10, <1>14, <2>1 DEF TeeReceives, Prefix
<1>17. TeeSkips'
  <2>1. Cardinality(WriteFaults) \in Nat
    BY WritesFinite DEF TeeTypeOK, WriteFaults
  <2> QED  BY <1>12, <1>13, <1>14, <2>1 DEF TeeSkips
<1>18. TeeOpening'
  BY <1>1, <1>11, <1>14 DEF TeeOpening
<1>19. TeeStatus'
  <2>1. Kinds' \subseteq Kinds \cup {"write"}
    BY <1>13 DEF Kinds
  <2>2. CASE failing = {}
    <3>1. Cardinality(failing) = 0
      BY <2>2, FS_EmptySet
    <3>2. faults \in Seq(FaultKinds \X {1}) /\ faults' \in Seq(FaultKinds \X {1})
      BY <1>13 DEF TeeTypeOK
    <3>3. faults' = faults
      BY <1>13, <3>1, <3>2
    <3>4. Kinds' = Kinds
      BY <3>3 DEF Kinds
    <3> QED  BY <1>1, <1>5, <1>14, <2>2, <3>3, <3>4 DEF TeeStatus
  <2>3. CASE failing # {}
    <3>1. Cardinality(failing) # 0
      BY <1>12, <2>3, FS_EmptySet
    <3>2. faults' # <<>>
      BY <1>12, <1>13, <3>1 DEF TeeTypeOK
    <3> QED  BY <1>1, <1>5, <1>14, <2>1, <2>3, <3>2 DEF TeeStatus
  <2> QED  BY <2>2, <2>3
<1> QED  BY <1>15, <1>16, <1>17, <1>18, <1>19

-----------------------------------------------------------------------------
(* every step keeps the invariant *)
LEMMA TeeNext == TeeInv /\ [Next]_vars => TeeInv'
<1> SUFFICES ASSUME TeeInv, [Next]_vars, cmd'.util = "tee"
             PROVE  TeeTypeOK' /\ TeeOpening' /\ TeeReceives' /\ TeeSkips' /\ TeeStatus'
  BY DEF TeeInv
<1>1. CASE UNCHANGED vars
  BY <1>1 DEF vars, TeeInv, TeeTypeOK, TeeOpening, TeeReceives, TeeSkips, TeeStatus, Prefix, Input,
     WriteFaults, Kinds
<1>2. CASE cmd' = cmd /\ outputs!TeeStep
  <2>1. TeeTypeOK /\ TeeOpening /\ TeeReceives /\ TeeSkips /\ TeeStatus
    BY <1>2 DEF TeeInv
  <2> QED
    BY <1>2, <2>1, StepBuildFlist, StepPostWalk, StepCopy, StepCopyEnds, StepFreeFlist
       DEF outputs!TeeStep
<1> QED  BY <1>1, <1>2, StepOfUtility

(* so it always holds *)
LEMMA TeeAlways == Spec => []TeeInv
  BY TeeBegins, TeeNext, PTL DEF Spec

(***************************************************************************)
(* An output of tee that fails keeps no other from receiving what tee has  *)
(* read: with each failing write at most one output falls behind           *)
(* (tee_output_bytes and FileEnt::skip).                                   *)
(***************************************************************************)
THEOREM OutputsAreIndependent == Spec => []OutputsIndependent
<1>1. TeeInv => OutputsIndependent
  <2> SUFFICES ASSUME TeeTypeOK, TeeReceives, TeeSkips
               PROVE  OutputsIndependent
    BY DEF TeeInv, OutputsIndependent
  <2> DEFINE behind == {o \in DOMAIN out : out[o] # SubSeq(Input, 1, offset[1])}
  <2>1. behind \subseteq state.skip
    BY DEF TeeReceives, Prefix
  <2>2. Len(out) \in Nat /\ state.skip \subseteq 1..Len(out)
    BY DEF TeeTypeOK
  <2>3. IsFiniteSet(state.skip)
    <3>1. IsFiniteSet(1..Len(out))
      BY <2>2, FS_Interval
    <3> QED  BY <2>2, <3>1, FS_Subset
  <2> HIDE DEF behind
  <2>4. Cardinality(behind) <= Cardinality(state.skip)
        /\ Cardinality(behind) \in Nat /\ Cardinality(state.skip) \in Nat
    BY <2>1, <2>3, FS_Subset, FS_CardinalityType
  <2>5. Cardinality(WriteFaults) \in Nat
    BY WritesFinite DEF TeeTypeOK, WriteFaults
  <2>6. Cardinality(behind) <= Cardinality(WriteFaults)
    BY <2>4, <2>5 DEF TeeSkips
  <2> QED  BY <2>6 DEF OutputsIndependent, behind, WriteFaults, WritesIn
<1> QED  BY <1>1, TeeAlways, PTL

(* every output is to have all of the input *)
LEMMA ExpectedOfTee ==
  ASSUME cmd.util = "tee"
  PROVE  Expected = [k \in 1..(cmd.outputs + 1) |-> Input]
  BY DEF Expected, Times

(***************************************************************************)
(* Whatever fails, each output of tee has the beginning of its input       *)
(* (tee_output_bytes): what OutputFollowsInput says of every filter, of    *)
(* tee.                                                                    *)
(***************************************************************************)
THEOREM TeeFollowsInput == Spec => [](cmd.util = "tee" => OutputFollowsInput)
<1>1. TeeInv => (cmd.util = "tee" => OutputFollowsInput)
  <2> SUFFICES ASSUME cmd.util = "tee", TeeTypeOK, TeeReceives
               PROVE  OutputFollowsInput
    BY DEF TeeInv
  <2>1. /\ Input \in Seq(Nat) /\ out \in Seq(Seq(Nat)) /\ Len(out) \in 1..(cmd.outputs + 1)
        /\ cmd.outputs \in Nat /\ offset[1] \in 0..Len(Input) /\ held = <<>>
    BY DEF TeeTypeOK, Input
  <2>2. /\ Expected = [k \in 1..(cmd.outputs + 1) |-> Input] /\ Len(Expected) = cmd.outputs + 1
        /\ \A o \in DOMAIN out : Expected[o] = Input
    BY <2>1, ExpectedOfTee
  <2>3. Stdout = out[1]
    <3>1. out[1] \in Seq(Nat)
      BY <2>1
    <3>2. out[1] \o <<>> = out[1]
      BY <3>1
    <3> QED  BY <2>1, <3>2 DEF Stdout
  <2>4. \A o \in DOMAIN out : Follows(out[o], Input)
    <3>1. TAKE o \in DOMAIN out
    <3>2. PICK k \in 0..offset[1] : out[o] = SubSeq(Input, 1, k)
      BY DEF TeeReceives, Prefix
    <3>3. k \in 0..Len(Input)
      BY <2>1
    <3>4. /\ Len(SubSeq(Input, 1, k)) = k
          /\ \A j \in 1..k : SubSeq(Input, 1, k)[j] = Input[j]
      BY <2>1, <3>3, PrefixElements
    <3>5. Len(out[o]) = k /\ k <= Len(Input) /\ \A j \in 1..k : out[o][j] = Input[j]
      BY <3>2, <3>3, <3>4
    <3> QED  BY <3>5 DEF Follows, Same
  <2> QED  BY <2>1, <2>2, <2>3, <2>4 DEF OutputFollowsInput
<1> QED  BY <1>1, TeeAlways, PTL

(***************************************************************************)
(* When tee ends well nothing has failed but the reading, and if that has  *)
(* not, every output has all of the input; when it does not end well       *)
(* something has failed (tee_output, rc and err): what StatusTells says of *)
(* every filter, of tee.                                                   *)
(***************************************************************************)
THEOREM TeeStatusTells == Spec => [](cmd.util = "tee" => StatusTells)
<1>1. TeeInv => (cmd.util = "tee" => StatusTells)
  <2> SUFFICES ASSUME cmd.util = "tee", TeeTypeOK, TeeOpening, TeeReceives, TeeStatus
               PROVE  StatusTells
    BY DEF TeeInv
  <2>1. /\ Input \in Seq(Nat) /\ out \in Seq(Seq(Nat)) /\ Len(Input) \in Nat
        /\ cmd.outputs \in Nat
    BY DEF TeeTypeOK, Input
  <2>2. ~Asks /\ (EndsWell <=> status = "ok")
    BY DEF Asks, EndsWell
  <2>3. status \in {"error", "aborted"} => faults # <<>>
    BY DEF TeeStatus
  <2>4. ASSUME status = "ok"
        PROVE  /\ Kinds = {} \/ Dropped
               /\ ~CutShort =>
                    /\ Len(out) = Len(Expected)
                    /\ \A o \in DOMAIN out :
                         Len(out[o]) = Len(Expected[o]) /\ Follows(out[o], Expected[o])
    <3>1. /\ exit_status = 0 /\ state.pc = "close" /\ state.skip = {} /\ Kinds \subseteq {"read"}
          /\ offset[1] = Len(Input) \/ "read" \in Kinds
          /\ Len(out) = cmd.outputs + 1
      BY <2>4 DEF TeeStatus, TeeOpening
    <3>2. Kinds = {} \/ Dropped
      BY <3>1 DEF Dropped
    <3>3. ASSUME ~CutShort
          PROVE  /\ Len(out) = Len(Expected)
                 /\ \A o \in DOMAIN out :
                      Len(out[o]) = Len(Expected[o]) /\ Follows(out[o], Expected[o])
      <4>1. offset[1] = Len(Input)
        BY <3>1, <3>3 DEF CutShort
      <4>2. \A o \in DOMAIN out : out[o] = Input
        <5>1. SubSeq(Input, 1, Len(Input)) = Input
          BY <2>1, SubSeqFull
        <5> QED  BY <3>1, <4>1, <5>1 DEF TeeReceives, Prefix
      <4>3. /\ Len(Expected) = cmd.outputs + 1
            /\ \A o \in DOMAIN out : Expected[o] = Input
        BY <2>1, <3>1, ExpectedOfTee
      <4>4. Follows(Input, Input)
        BY <2>1 DEF Follows, Same
      <4> QED  BY <3>1, <4>2, <4>3, <4>4
    <3> QED  BY <3>2, <3>3
  <2> QED  BY <2>2, <2>3, <2>4 DEF StatusTells
<1> QED  BY <1>1, TeeAlways, PTL

-----------------------------------------------------------------------------
(***************************************************************************)
(* split -b: what has been read of the input and passed on to the pieces,  *)
(* and what a piece is up to k octets.                                     *)
(***************************************************************************)
SplitsOctets == cmd.util = "split" /\ ~cmd.lines
Passed == offset[1] - Len(state.buf)
Before(o) == (o - 1) * cmd.piece_size
Piece(o, k) == SubSeq(Input, Before(o) + 1, Before(o) + k)

SplitTypeOK ==
  /\ cmd.files \in Seq(Seq(Nat)) /\ Len(cmd.files) = 1 /\ cmd.piece_size \in Nat
  /\ arg = 1 /\ held = <<>>
  /\ offset \in [{1} -> 0..Len(Input)]
  /\ out \in Seq(Seq(Nat))
  /\ state \in [buf : Seq(Nat), eof : BOOLEAN, open : BOOLEAN, suffix : 0..MaxPieces,
                output_count : 0..cmd.piece_size, rc : {0, 1}]
  /\ faults \in Seq(FaultKinds \X {1})
  /\ exit_status \in {0, 1}
  /\ status \in {"running", "error"}

(* the buffer has the last of what was read; only the last block is not full *)
SplitReads ==
  /\ Passed >= 0 /\ state.buf = SubSeq(Input, Passed + 1, offset[1])
  /\ state.eof => offset[1] = Len(Input)

(* all pieces but the last are full; the last is as long as it counts, *)
(* unless something has failed                                         *)
LastPiece(k) ==
  /\ Before(Len(out)) + k <= Len(Input) /\ out[Len(out)] = Piece(Len(out), k)
  /\ state.rc = 0 => k = (IF state.open THEN state.output_count ELSE cmd.piece_size)
SplitPieces ==
  /\ \A o \in DOMAIN out :
       o < Len(out) => Before(o + 1) <= Len(Input) /\ out[o] = Piece(o, cmd.piece_size)
  /\ Len(out) > 0 => Before(Len(out)) < Len(Input) /\ \E k \in 0..cmd.piece_size : LastPiece(k)
  /\ IF state.open THEN Len(out) > 0 ELSE state.output_count = 0
  /\ state.rc = 0 =>
       Passed = IF state.open THEN Before(Len(out)) + state.output_count ELSE Before(Len(out) + 1)

(* the return code is that of what has failed, or there are too many pieces *)
SplitStatus ==
  /\ Len(out) <= state.suffix
  /\ state.rc = 0 => Len(out) = state.suffix
  /\ state.rc = 0 /\ (status = "running" \/ exit_status = 0) => faults = <<>>
  /\ state.rc = 1 => faults # <<>> \/ Len(out) = MaxPieces
  /\ status = "running" => exit_status = 0
  /\ status = "error" /\ exit_status = 1 => faults # <<>> \/ Len(out) = MaxPieces
  /\ status = "error" /\ exit_status = 0 => state.rc = 0 /\ state.eof /\ state.buf = <<>>

SplitInv == SplitsOctets => SplitTypeOK /\ SplitReads /\ SplitPieces /\ SplitStatus

(* the products of piece sizes *)
LEMMA Multiples ==
  ASSUME NEW p \in Nat, NEW a \in Nat, NEW b \in Nat
  PROVE  /\ a * p \in Nat
         /\ (a + 1) * p = a * p + p
         /\ a <= b => a * p <= b * p
<1>1. a * p \in Nat
  OBVIOUS
<1>2. (a + 1) * p = a * p + p
  OBVIOUS
<1>3. ASSUME a <= b
      PROVE  a * p <= b * p
  <2>1. PICK d \in Nat : b = a + d
    <3>1. b - a \in Nat /\ b = a + (b - a)
      BY <1>3
    <3> QED  BY <3>1
  <2>2. (a + d) * p = a * p + d * p /\ d * p \in Nat
    OBVIOUS
  <2> QED  BY <1>1, <2>1, <2>2
<1> QED  BY <1>1, <1>2, <1>3

(* how many pieces a text has *)
LEMMA PiecesOf ==
  ASSUME NEW p \in Nat \ {0}, NEW l \in Nat, NEW n \in Nat
  PROVE  /\ (l + p - 1) \div p \in Nat
         /\ n < (l + p - 1) \div p <=> n * p < l
<1> DEFINE q == (l + p - 1) \div p
           r == (l + p - 1) % p
<1>1. q \in Nat /\ r \in 0..(p - 1) /\ l + p - 1 = p * q + r
  OBVIOUS
<1> HIDE DEF q, r
<1>2. p * q = q * p /\ q * p \in Nat /\ n * p \in Nat
  BY <1>1
<1>3. (n + 1) * p = n * p + p
  BY Multiples
<1>4. n + 1 <= q => n * p + p <= q * p
  BY <1>1, <1>3, Multiples
<1>5. q <= n => q * p <= n * p
  BY <1>1, Multiples
<1>6. n < q => n * p < l
  BY <1>1, <1>2, <1>4
<1>7. q <= n => l <= n * p
  BY <1>1, <1>2, <1>5
<1>8. n < q <=> n * p < l
  BY <1>1, <1>2, <1>6, <1>7
<1> QED  BY <1>1, <1>8 DEF q

(* a piece, and the first n of what follows it *)
LEMMA PieceGrows ==
  ASSUME NEW s \in Seq(Nat), NEW a \in Nat, NEW k \in Nat, NEW b \in Nat, a + k <= b, b <= Len(s),
         NEW n \in 0..(b - (a + k))
  PROVE  /\ SubSeq(s, a + 1, a + k) \o SubSeq(SubSeq(s, a + k + 1, b), 1, n) = SubSeq(s, a + 1, a + k + n)
         /\ SubSeq(SubSeq(s, a + k + 1, b), n + 1, b - (a + k)) = SubSeq(s, a + k + n + 1, b)
         /\ Len(SubSeq(s, a + k + 1, b)) = b - (a + k)
<1> DEFINE t == SubSeq(s, a + k + 1, b)
<1>0. Len(t) = b - (a + k) /\ t \in Seq(Nat)
  BY SubSeqProperties
<1>1. SubSeq(t, 1, n) = SubSeq(s, a + k + 1, a + k + n)
  <2>1. CASE n = 0
    BY <2>1, SubSeqEmpty
  <2>2. CASE n > 0
    <3>1. a + k + 1 \in 1..Len(s) /\ b \in 1..Len(s) /\ 1 \in 1..(b - (a + k + 1) + 1)
          /\ n \in 1..(b - (a + k + 1) + 1)
      BY <2>2
    <3>2. SubSeq(SubSeq(s, a + k + 1, b), 1, n) = SubSeq(s, a + k + 1 + 1 - 1, a + k + 1 + n - 1)
      BY <3>1, SubSeqOfSubSeq
    <3> QED  BY <3>2
  <2> QED  BY <2>1, <2>2
<1>2. SubSeq(s, a + 1, a + k) \o SubSeq(s, a + k + 1, a + k + n) = SubSeq(s, a + 1, a + k + n)
  BY ConcatAdjacentSubSeq
<1>3. SubSeq(t, n + 1, b - (a + k)) = SubSeq(s, a + k + n + 1, b)
  <2>1. CASE n = b - (a + k)
    BY <2>1, SubSeqEmpty
  <2>2. CASE n < b - (a + k)
    <3>1. a + k + 1 \in 1..Len(s) /\ b \in 1..Len(s) /\ n + 1 \in 1..(b - (a + k + 1) + 1)
          /\ b - (a + k) \in 1..(b - (a + k + 1) + 1)
      BY <2>2
    <3>2. SubSeq(SubSeq(s, a + k + 1, b), n + 1, b - (a + k))
            = SubSeq(s, a + k + 1 + (n + 1) - 1, a + k + 1 + (b - (a + k)) - 1)
      BY <3>1, SubSeqOfSubSeq
    <3> QED  BY <3>2
  <2> QED  BY <2>1, <2>2
<1> QED  BY <1>0, <1>1, <1>2, <1>3

(* split starts with nothing read and no piece *)
LEMMA SplitBegins == Init => SplitInv
<1> SUFFICES ASSUME Init, SplitsOctets
             PROVE  SplitTypeOK /\ SplitReads /\ SplitPieces /\ SplitStatus
  BY DEF SplitInv
<1>1. /\ cmd.files \in Seq(Seq(Nat)) /\ Len(cmd.files) = 1 /\ cmd.piece_size \in Nat
      /\ DOMAIN cmd.files = {1} /\ Input \in Seq(Nat)
  BY OctetsAssumption DEF Init, Input, SplitsOctets
<1>2. state = [buf |-> <<>>, eof |-> FALSE, open |-> FALSE, suffix |-> 0, output_count |-> 0, rc |-> 0]
  BY DEF Init, Start, SplitsOctets, blocks!Utils, blocks!CatUtils, compare!Utils, search!Utils,
     tokens!Utils, outputs!SplitStart
<1>3. /\ arg = 1 /\ held = <<>> /\ out = <<>> /\ offset = [i \in {1} |-> 0]
      /\ exit_status = 0 /\ status = "running" /\ faults = <<>>
  BY <1>1 DEF Init, SplitsOctets
<1>4. SplitTypeOK
  <2>1. MaxPieces \in Nat
    BY FiltersAssumption
  <2>2. state \in [buf : Seq(Nat), eof : BOOLEAN, open : BOOLEAN, suffix : 0..MaxPieces,
                   output_count : 0..cmd.piece_size, rc : {0, 1}]
    BY <1>1, <1>2, <2>1
  <2>3. Len(Input) \in Nat /\ offset \in [{1} -> 0..Len(Input)]
    BY <1>1, <1>3
  <2> QED  BY <1>1, <1>3, <2>2, <2>3 DEF SplitTypeOK
<1>5. SplitReads
  BY <1>2, <1>3, SubSeqEmpty DEF SplitReads, Passed
<1>6. SplitPieces
  <2>1. Before(0 + 1) = 0
    BY <1>1 DEF Before
  <2> QED  BY <1>2, <1>3, <2>1 DEF SplitPieces, Passed
<1>7. SplitStatus
  BY <1>2, <1>3 DEF SplitStatus
<1> QED  BY <1>4, <1>5, <1>6, <1>7

SplitAll == SplitTypeOK /\ SplitReads /\ SplitPieces /\ SplitStatus
SplitNext == SplitTypeOK' /\ SplitReads' /\ SplitPieces' /\ SplitStatus'

LEMMA SizeFacts == INBUF \in Nat \ {0} /\ MaxPieces \in Nat \ {0}
  BY FiltersAssumption

(* as much as was asked for *)
LEMMA BlockOf ==
  ASSUME NEW s \in Seq(Nat), NEW a \in Nat, NEW n \in Nat, a + n <= Len(s)
  PROVE  SubSeq(s, a + 1, a + n) \in Seq(Nat) /\ Len(SubSeq(s, a + 1, a + n)) = n
  BY SubSeqProperties

(* a failure more *)
LEMMA FaultAppended ==
  ASSUME SplitTypeOK, NEW kind \in FaultKinds, faults' = Append(faults, <<kind, arg>>)
  PROVE  faults' \in Seq(FaultKinds \X {1}) /\ faults' # <<>>
<1>1. <<kind, arg>> \in FaultKinds \X {1} /\ faults \in Seq(FaultKinds \X {1})
  BY DEF SplitTypeOK
<1> QED  BY <1>1

(* what does not touch the pieces leaves what is said of them *)
LEMMA PiecesLeft ==
  ASSUME SplitPieces, UNCHANGED <<cmd, offset, out>>, state'.buf = state.buf,
         state'.open = state.open, state'.output_count = state.output_count,
         state'.rc = 0 => state.rc = 0
  PROVE  SplitPieces'
<1>1. /\ \A o : Before(o)' = Before(o)
      /\ \A o, k : Piece(o, k)' = Piece(o, k)
      /\ Passed' = Passed /\ Input' = Input
  BY DEF Before, Piece, Passed, Input
<1>2. \A k : LastPiece(k) => LastPiece(k)'
  BY <1>1 DEF LastPiece
<1> QED  BY <1>1, <1>2 DEF SplitPieces

(* the input is opened, or cannot be *)
LEMMA StepSplitBegin ==
  ASSUME SplitAll, outputs!SplitBegin
  PROVE  SplitNext
<1>1. /\ status = "running" /\ UNCHANGED <<cmd, arg, offset, state, out, held>>
      /\ \/ UNCHANGED <<exit_status, status, faults>>
         \/ faults' = Append(faults, <<"open", arg>>) /\ status' = "error" /\ exit_status' = 1
  BY DEF outputs!SplitBegin, outputs!OpenInput, outputs!AtArg, outputs!Running, outputs!Fault,
     outputs!results
<1>2. faults' \in Seq(FaultKinds \X {1}) /\ (faults' # faults => faults' # <<>>)
  BY <1>1, FaultAppended DEF SplitAll, SplitTypeOK, FaultKinds
<1>3. SplitTypeOK'
  BY <1>1, <1>2 DEF SplitAll, SplitTypeOK, Input
<1>4. SplitReads'
  BY <1>1 DEF SplitAll, SplitReads, Passed, Input
<1>5. SplitPieces'
  BY <1>1, PiecesLeft DEF SplitAll
<1>6. SplitStatus'
  <2>1. CASE UNCHANGED <<exit_status, status, faults>>
    BY <1>1, <2>1 DEF SplitAll, SplitStatus
  <2>2. CASE faults' = Append(faults, <<"open", arg>>) /\ status' = "error" /\ exit_status' = 1
    <3>1. faults' # <<>>
      BY <2>2, FaultAppended DEF SplitAll, FaultKinds
    <3> QED  BY <1>1, <2>2, <3>1 DEF SplitAll, SplitStatus
  <2> QED  BY <1>1, <2>1, <2>2
<1> QED  BY <1>3, <1>4, <1>5, <1>6 DEF SplitNext

(* the next block; a block that is not full is the last *)
LEMMA StepSplitRead ==
  ASSUME SplitAll, SplitsOctets, outputs!SplitRead
  PROVE  SplitNext
<1> DEFINE n == IF INBUF < Len(Input) - offset[1] THEN INBUF ELSE Len(Input) - offset[1]
<1>1. /\ status = "running" /\ state.rc = 0 /\ state.buf = <<>>
      /\ UNCHANGED <<cmd, arg, held, exit_status, status, out, faults>>
  BY DEF outputs!SplitRead, outputs!SplitReading, outputs!SplitAt, outputs!Running, outputs!Going,
     outputs!Private, outputs!walker
<1>2. /\ offset' = [offset EXCEPT ![1] = @ + n]
      /\ state' = [state EXCEPT !.buf = SubSeq(Input, offset[1] + 1, offset[1] + n),
                                !.eof = (n < INBUF)]
  BY DEF outputs!SplitRead, outputs!Least, outputs!Left, outputs!Take, outputs!Chunk, SplitsOctets,
     Input
<1>3. /\ Input \in Seq(Nat) /\ Len(Input) \in Nat /\ offset[1] \in 0..Len(Input) /\ INBUF \in Nat
      /\ Input' = Input /\ offset \in [{1} -> 0..Len(Input)]
  BY <1>1, SizeFacts DEF SplitAll, SplitTypeOK, Input
<1>4. n \in Nat /\ offset[1] + n <= Len(Input) /\ (n < INBUF => offset[1] + n = Len(Input))
  BY <1>3
<1> HIDE DEF n
<1>5. /\ offset' \in [{1} -> 0..Len(Input)] /\ offset'[1] = offset[1] + n
  BY <1>2, <1>3, <1>4
<1> DEFINE block == SubSeq(Input, offset[1] + 1, offset[1] + n)
<1>6. block \in Seq(Nat) /\ Len(block) = n
  <2>1. PICK s \in Seq(Nat) : s = Input
    BY <1>3
  <2>2. PICK a \in Nat : a = offset[1]
    BY <1>3
  <2>3. a + n <= Len(s)
    BY <1>4, <2>1, <2>2
  <2>4. SubSeq(s, a + 1, a + n) \in Seq(Nat) /\ Len(SubSeq(s, a + 1, a + n)) = n
    BY <1>4, <2>3, BlockOf
  <2> QED  BY <2>1, <2>2, <2>4
<1> HIDE DEF block
<1>7. /\ state' \in [buf : Seq(Nat), eof : BOOLEAN, open : BOOLEAN, suffix : 0..MaxPieces,
                     output_count : 0..cmd.piece_size, rc : {0, 1}]
      /\ state'.buf = block /\ state'.eof = (n < INBUF) /\ state'.open = state.open
      /\ state'.suffix = state.suffix /\ state'.output_count = state.output_count /\ state'.rc = state.rc
  <2>1. state \in [buf : Seq(Nat), eof : BOOLEAN, open : BOOLEAN, suffix : 0..MaxPieces,
                   output_count : 0..cmd.piece_size, rc : {0, 1}]
    BY DEF SplitAll, SplitTypeOK
  <2>2. state' = [state EXCEPT !.buf = block, !.eof = (n < INBUF)]
    BY <1>2 DEF block
  <2>3. (n < INBUF) \in BOOLEAN
    OBVIOUS
  <2> QED  BY <1>6, <2>1, <2>2, <2>3
<1>8. Passed = offset[1] /\ Passed' = offset[1]
  BY <1>1, <1>3, <1>4, <1>5, <1>6, <1>7 DEF Passed
<1>9. SplitTypeOK'
  BY <1>1, <1>3, <1>5, <1>7 DEF SplitAll, SplitTypeOK
<1>10. SplitReads'
  <2>1. state'.eof => offset'[1] = Len(Input)
    BY <1>4, <1>5, <1>7
  <2>2. state'.buf = SubSeq(Input, Passed' + 1, offset'[1])
    BY <1>5, <1>7, <1>8 DEF block
  <2> QED  BY <1>3, <1>8, <2>1, <2>2 DEF SplitReads
<1>11. SplitPieces'
  <2>1. /\ \A o : Before(o)' = Before(o)
        /\ \A o, k : Piece(o, k)' = Piece(o, k)
    BY <1>1, <1>3 DEF Before, Piece
  <2>2. \A k : LastPiece(k) => LastPiece(k)'
    BY <1>1, <1>3, <1>7, <2>1 DEF LastPiece
  <2> QED  BY <1>1, <1>3, <1>7, <1>8, <2>1, <2>2 DEF SplitAll, SplitPieces
<1>12. SplitStatus'
  BY <1>1, <1>7 DEF SplitAll, SplitStatus
<1> QED  BY <1>9, <1>10, <1>11, <1>12 DEF SplitNext

(* a read that fails *)
LEMMA StepSplitReadFails ==
  ASSUME SplitAll, outputs!SplitReadFails
  PROVE  SplitNext
<1>1. /\ status = "running" /\ state' = [state EXCEPT !.rc = 1]
      /\ faults' = Append(faults, <<"read", arg>>)
      /\ UNCHANGED <<cmd, arg, held, exit_status, status, out, offset>>
  BY DEF outputs!SplitReadFails, outputs!SplitReading, outputs!SplitAt, outputs!Running,
     outputs!Private, outputs!walker, outputs!Fault
<1>2. faults' \in Seq(FaultKinds \X {1}) /\ faults' # <<>>
  BY <1>1, FaultAppended DEF SplitAll, FaultKinds
<1>3. /\ state' \in [buf : Seq(Nat), eof : BOOLEAN, open : BOOLEAN, suffix : 0..MaxPieces,
                     output_count : 0..cmd.piece_size, rc : {0, 1}]
      /\ state'.buf = state.buf /\ state'.eof = state.eof /\ state'.open = state.open
      /\ state'.suffix = state.suffix /\ state'.output_count = state.output_count /\ state'.rc = 1
  BY <1>1 DEF SplitAll, SplitTypeOK
<1>4. SplitTypeOK' /\ SplitReads'
  BY <1>1, <1>2, <1>3 DEF SplitAll, SplitTypeOK, SplitReads, Passed, Input
<1>5. SplitPieces'
  BY <1>1, <1>3, PiecesLeft DEF SplitAll
<1>6. SplitStatus'
  BY <1>1, <1>2, <1>3 DEF SplitAll, SplitStatus
<1> QED  BY <1>4, <1>5, <1>6 DEF SplitNext

(* the end: what is in the pieces stays *)
LEMMA StepSplitFinish ==
  ASSUME SplitAll, outputs!SplitFinish
  PROVE  SplitNext
<1>1. /\ status = "running" /\ status' = "error"
      /\ state.rc # 0 \/ (state.eof /\ state.buf = <<>>)
      /\ UNCHANGED <<cmd, arg, offset, state, out, held>>
      /\ \/ exit_status' = state.rc /\ UNCHANGED faults
         \/ faults' = Append(faults, <<"close", arg>>) /\ exit_status' = 1
  BY DEF outputs!SplitFinish, outputs!SplitAt, outputs!Running, outputs!Fault, outputs!Going,
     outputs!results, outputs!walker
<1>2. /\ faults' \in Seq(FaultKinds \X {1}) /\ exit_status' \in {0, 1}
      /\ exit_status' = 0 => state.rc = 0 /\ UNCHANGED faults
      /\ exit_status' = 1 => faults' # <<>> \/ (state.rc = 1 /\ UNCHANGED faults)
  <2>1. CASE exit_status' = state.rc /\ UNCHANGED faults
    BY <2>1 DEF SplitAll, SplitTypeOK
  <2>2. CASE faults' = Append(faults, <<"close", arg>>) /\ exit_status' = 1
    BY <2>2, FaultAppended DEF SplitAll, FaultKinds
  <2> QED  BY <1>1, <2>1, <2>2
<1>3. SplitTypeOK' /\ SplitReads'
  BY <1>1, <1>2 DEF SplitAll, SplitTypeOK, SplitReads, Passed, Input
<1>4. SplitPieces'
  BY <1>1, PiecesLeft DEF SplitAll
<1>5. SplitStatus'
  <2>1. state.rc \in {0, 1}
    BY DEF SplitAll, SplitTypeOK
  <2> QED  BY <1>1, <1>2, <2>1 DEF SplitAll, SplitStatus
<1> QED  BY <1>3, <1>4, <1>5 DEF SplitNext

(* the next piece is opened when there is something for it *)
LEMMA StepOpenOutput ==
  ASSUME SplitAll, outputs!open_output
  PROVE  SplitNext
<1>1. /\ status = "running" /\ state.rc = 0 /\ state.buf # <<>> /\ ~state.open
      /\ UNCHANGED <<cmd, arg, held, exit_status, status, offset>>
  BY DEF outputs!open_output, outputs!SplitAt, outputs!Running, outputs!Going,
     outputs!Private, outputs!walker, SplitAll, SplitTypeOK
<1>2. state \in [buf : Seq(Nat), eof : BOOLEAN, open : BOOLEAN, suffix : 0..MaxPieces,
                 output_count : 0..cmd.piece_size, rc : {0, 1}]
  BY DEF SplitAll, SplitTypeOK
<1>3. /\ Input' = Input
      /\ \A o : Before(o)' = Before(o)
      /\ \A o, k : Piece(o, k)' = Piece(o, k)
  BY <1>1 DEF Input, Before, Piece
<1>4. /\ state.suffix = Len(out) /\ state.output_count = 0 /\ Passed = Before(Len(out) + 1)
      /\ faults = <<>> /\ exit_status = 0
  BY <1>1 DEF SplitAll, SplitPieces, SplitStatus
<1>5. CASE state.suffix = MaxPieces /\ state' = [state EXCEPT !.rc = 1] /\ UNCHANGED <<out, faults>>
  <2>1. /\ state' \in [buf : Seq(Nat), eof : BOOLEAN, open : BOOLEAN, suffix : 0..MaxPieces,
                       output_count : 0..cmd.piece_size, rc : {0, 1}]
        /\ state'.buf = state.buf /\ state'.eof = state.eof /\ state'.open = state.open
        /\ state'.suffix = state.suffix /\ state'.output_count = state.output_count /\ state'.rc = 1
    BY <1>2, <1>5
  <2>2. SplitTypeOK' /\ SplitReads'
    BY <1>1, <1>5, <2>1 DEF SplitAll, SplitTypeOK, SplitReads, Passed, Input
  <2>3. SplitPieces'
    BY <1>1, <1>5, <2>1, PiecesLeft DEF SplitAll
  <2>4. SplitStatus'
    BY <1>1, <1>4, <1>5, <2>1 DEF SplitAll, SplitStatus
  <2> QED  BY <2>2, <2>3, <2>4 DEF SplitNext
<1>6. CASE /\ state.suffix # MaxPieces
           /\ state' = [state EXCEPT !.suffix = @ + 1, !.rc = 1]
           /\ faults' = Append(faults, <<"open", arg>>) /\ UNCHANGED out
  <2>1. /\ state' \in [buf : Seq(Nat), eof : BOOLEAN, open : BOOLEAN, suffix : 0..MaxPieces,
                       output_count : 0..cmd.piece_size, rc : {0, 1}]
        /\ state'.buf = state.buf /\ state'.eof = state.eof /\ state'.open = state.open
        /\ state'.suffix = state.suffix + 1
        /\ state'.output_count = state.output_count /\ state'.rc = 1
    <3>1. state.suffix + 1 \in 0..MaxPieces
      BY <1>2, <1>6, SizeFacts
    <3> QED  BY <1>2, <1>6, <3>1
  <2>2. faults' \in Seq(FaultKinds \X {1}) /\ faults' # <<>>
    BY <1>6, FaultAppended DEF SplitAll, FaultKinds
  <2>3. SplitTypeOK' /\ SplitReads'
    BY <1>1, <1>6, <2>1, <2>2 DEF SplitAll, SplitTypeOK, SplitReads, Passed, Input
  <2>4. SplitPieces'
    BY <1>1, <1>6, <2>1, PiecesLeft DEF SplitAll
  <2>5. SplitStatus'
    <3>1. Len(out) <= state.suffix + 1
      BY <1>2, <1>4
    <3> QED  BY <1>1, <1>6, <2>1, <2>2, <3>1 DEF SplitAll, SplitStatus
  <2> QED  BY <2>3, <2>4, <2>5 DEF SplitNext
<1>7. CASE /\ state.suffix # MaxPieces
           /\ state' = [state EXCEPT !.suffix = @ + 1, !.open = TRUE]
           /\ out' = Append(out, <<>>) /\ UNCHANGED faults
  <2>1. /\ state' \in [buf : Seq(Nat), eof : BOOLEAN, open : BOOLEAN, suffix : 0..MaxPieces,
                       output_count : 0..cmd.piece_size, rc : {0, 1}]
        /\ state'.buf = state.buf /\ state'.eof = state.eof /\ state'.open = TRUE
        /\ state'.suffix = state.suffix + 1 /\ state'.output_count = 0 /\ state'.rc = 0
    <3>1. state.suffix + 1 \in 0..MaxPieces
      BY <1>2, <1>7, SizeFacts
    <3> QED  BY <1>1, <1>2, <1>4, <1>7, <3>1
  <2>2. /\ out \in Seq(Seq(Nat)) /\ Len(out) \in Nat /\ <<>> \in Seq(Nat)
        /\ Input \in Seq(Nat) /\ Len(Input) \in Nat /\ cmd.piece_size \in Nat
        /\ offset[1] \in 0..Len(Input) /\ Len(state.buf) \in Nat
    BY <1>2 DEF SplitAll, SplitTypeOK, Input
  <2>3. /\ out' \in Seq(Seq(Nat)) /\ Len(out') = Len(out) + 1
        /\ \A o \in 1..Len(out) : out'[o] = out[o]
        /\ out'[Len(out) + 1] = <<>>
    BY <1>7, <2>2
  <2>4. SplitTypeOK' /\ SplitReads'
    BY <1>1, <1>7, <2>1, <2>3 DEF SplitAll, SplitTypeOK, SplitReads, Passed, Input
  <2>5. Len(state.buf) > 0
    BY <1>1, <1>2, <2>2
  <2>6. Before(Len(out) + 1) < Len(Input)
    BY <1>4, <2>2, <2>5 DEF Passed
  <2>7. \A o \in 1..Len(out) : Before(o + 1) <= Len(Input) /\ out[o] = Piece(o, cmd.piece_size)
    <3>1. TAKE o \in 1..Len(out)
    <3>2. CASE o < Len(out)
      BY <2>2, <3>2 DEF SplitAll, SplitPieces
    <3>3. CASE o = Len(out)
      <4>1. PICK k \in 0..cmd.piece_size : LastPiece(k)
        BY <2>2, <3>3 DEF SplitAll, SplitPieces
      <4>2. k = cmd.piece_size /\ out[Len(out)] = Piece(Len(out), k)
        BY <1>1, <4>1 DEF LastPiece
      <4>3. Before(Len(out) + 1) <= Len(Input)
        BY <1>4, <2>2, <2>6 DEF Passed
      <4> QED  BY <3>3, <4>2, <4>3
    <3> QED  BY <2>2, <3>2, <3>3
  <2>8. SplitPieces'
    <3>1. \A o \in DOMAIN out' :
            o < Len(out') => Before(o + 1) <= Len(Input) /\ out'[o] = Piece(o, cmd.piece_size)
      <4>1. DOMAIN out' = 1..Len(out')
        BY <2>3
      <4> TAKE o \in DOMAIN out'
      <4> HAVE o < Len(out')
      <4>2. o \in 1..Len(out)
        BY <2>2, <2>3, <4>1
      <4> QED  BY <2>3, <2>7, <4>2
    <3>2. 0 \in 0..cmd.piece_size /\ LastPiece(0)'
      <4>1. Piece(Len(out) + 1, 0) = <<>>
        <5>1. Before(Len(out) + 1) \in Int
          BY <1>4, <2>2 DEF Passed
        <5> QED  BY <5>1, SubSeqEmpty DEF Piece
      <4>2. Before(Len(out) + 1) + 0 <= Len(Input)
        BY <1>4, <2>2, <2>6 DEF Passed
      <4> QED  BY <1>3, <2>1, <2>2, <2>3, <4>1, <4>2 DEF LastPiece
    <3>3. Passed' = Before(Len(out')) + 0
      <4>1. Passed' = Passed
        BY <1>1, <2>1 DEF Passed
      <4> QED  BY <1>4, <2>2, <2>3, <4>1 DEF Passed
    <3>4. Len(out') > 0
      BY <2>2, <2>3
    <3> QED  BY <1>1, <1>3, <2>1, <2>3, <2>6, <3>1, <3>2, <3>3, <3>4 DEF SplitPieces
  <2>9. SplitStatus'
    <3>1. Len(out') = state'.suffix
      BY <1>4, <2>1, <2>3
    <3> QED  BY <1>1, <1>2, <1>4, <1>7, <2>1, <3>1 DEF SplitAll, SplitStatus
  <2> QED  BY <2>4, <2>8, <2>9 DEF SplitNext
<1> QED
  BY <1>5, <1>6, <1>7 DEF outputs!open_output, outputs!Fault

SplitStates ==
  [buf : Seq(Nat), eof : BOOLEAN, open : BOOLEAN, suffix : 0..MaxPieces,
   output_count : 0..cmd.piece_size, rc : {0, 1}]

(* a prefix of a prefix *)
LEMMA PrefixOfPrefix ==
  ASSUME NEW s \in Seq(Nat), NEW m \in 0..Len(s), NEW k \in 0..m
  PROVE  SubSeq(SubSeq(s, 1, m), 1, k) = SubSeq(s, 1, k) /\ Len(SubSeq(s, 1, m)) = m
<1>1. Len(SubSeq(s, 1, m)) = m
  BY PrefixElements
<1>2. CASE k = 0
  BY <1>1, <1>2, SubSeqEmpty
<1>3. CASE k > 0
  <2>1. 1 \in 1..Len(s) /\ m \in 1..Len(s) /\ 1 \in 1..(m - 1 + 1) /\ k \in 1..(m - 1 + 1)
    BY <1>3
  <2>2. SubSeq(SubSeq(s, 1, m), 1, k) = SubSeq(s, 1 + 1 - 1, 1 + k - 1)
    BY <2>1, SubSeqOfSubSeq
  <2> QED  BY <1>1, <2>2
<1> QED  BY <1>2, <1>3

(* how much of the buffer goes to the piece that is open *)
LEMMA Wlen ==
  ASSUME SplitAll, SplitsOctets, state.rc = 0, state.open
  PROVE  /\ Len(out) \in Nat /\ Len(out) > 0 /\ Len(state.buf) \in Nat /\ cmd.piece_size \in Nat
         /\ state.output_count \in 0..cmd.piece_size
         /\ outputs!wlen \in 0..Len(state.buf) /\ outputs!incr = outputs!wlen
         /\ state.output_count + outputs!wlen <= cmd.piece_size
         /\ Passed = Before(Len(out)) + state.output_count
         /\ Passed \in Nat /\ Before(Len(out)) \in Nat
         /\ offset[1] = Passed + Len(state.buf) /\ offset[1] \in 0..Len(Input)
         /\ Len(Input) \in Nat /\ Input \in Seq(Nat)
         /\ out[Len(out)] = Piece(Len(out), state.output_count)
<1>1. /\ Input \in Seq(Nat) /\ Len(Input) \in Nat /\ offset[1] \in 0..Len(Input)
      /\ out \in Seq(Seq(Nat)) /\ Len(out) \in Nat /\ cmd.piece_size \in Nat
      /\ state.output_count \in 0..cmd.piece_size /\ Len(state.buf) \in Nat
  BY DEF SplitAll, SplitTypeOK, Input
<1>2. Len(out) > 0 /\ Passed = Before(Len(out)) + state.output_count
  BY DEF SplitAll, SplitPieces
<1>3. offset[1] = Passed + Len(state.buf) /\ Passed \in Nat
  BY <1>1 DEF SplitAll, SplitReads, Passed
<1>4. PICK k \in 0..cmd.piece_size : LastPiece(k)
  BY <1>2 DEF SplitAll, SplitPieces
<1>5. out[Len(out)] = Piece(Len(out), state.output_count)
  BY <1>4 DEF LastPiece
<1>6. Len(out) - 1 \in Nat
  BY <1>1, <1>2
<1>7. Before(Len(out)) \in Nat
  BY <1>1, <1>6, Multiples DEF Before
<1>8. /\ outputs!wlen = (IF cmd.piece_size - state.output_count < Len(state.buf)
                         THEN cmd.piece_size - state.output_count ELSE Len(state.buf))
      /\ outputs!incr = outputs!wlen
  BY DEF outputs!wlen, outputs!incr, outputs!Least, SplitsOctets
<1>9. outputs!wlen \in 0..Len(state.buf) /\ state.output_count + outputs!wlen <= cmd.piece_size
  BY <1>1, <1>8
<1> QED  BY <1>1, <1>2, <1>3, <1>5, <1>7, <1>8, <1>9

(* m octets more in the last piece *)
LEMMA LastPieceGrows ==
  ASSUME SplitAll, SplitsOctets, state.rc = 0, state.open, NEW m \in 0..outputs!wlen,
         out' = [out EXCEPT ![Len(out)] = @ \o SubSeq(state.buf, 1, m)]
  PROVE  /\ out' \in Seq(Seq(Nat)) /\ Len(out') = Len(out)
         /\ \A o \in DOMAIN out' : o \in DOMAIN out /\ (o < Len(out) => out'[o] = out[o])
         /\ out'[Len(out)] = Piece(Len(out), state.output_count + m)
         /\ Before(Len(out)) + (state.output_count + m) <= Len(Input)
         /\ state.output_count + m \in 0..cmd.piece_size
<1> DEFINE n == Len(out)
           c == state.output_count
           w == outputs!wlen
           a == Before(n)
           b == offset[1]
           l == Len(state.buf)
           i == Len(Input)
           p == cmd.piece_size
<1>1. /\ n \in Nat /\ n > 0 /\ l \in Nat /\ p \in Nat
      /\ c \in 0..p /\ w \in 0..l /\ c + w <= p
      /\ Passed = a + c /\ a \in Nat
      /\ b = Passed + l /\ b \in 0..i
      /\ i \in Nat /\ Input \in Seq(Nat)
      /\ out[n] = Piece(n, c)
  BY Wlen
<1>2. state.buf = SubSeq(Input, a + c + 1, b)
  BY <1>1 DEF SplitAll, SplitReads
<1>3. out \in Seq(Seq(Nat)) /\ state.buf \in Seq(Nat) /\ n \in DOMAIN out /\ out[n] \in Seq(Nat)
  BY <1>1 DEF SplitAll, SplitTypeOK
<1>4. out' = [out EXCEPT ![n] = @ \o SubSeq(state.buf, 1, m)] /\ m \in 0..w
  OBVIOUS
<1>5. Piece(n, c) = SubSeq(Input, a + 1, a + c) /\ Piece(n, c + m) = SubSeq(Input, a + 1, a + (c + m))
  BY DEF Piece
<1> HIDE DEF c, w, a, b, n, l, p
<1>6. /\ m \in 0..l /\ c + m \in 0..p /\ a + (c + m) = a + c + m
      /\ a + c <= b /\ m \in 0..(b - (a + c)) /\ b \in Nat /\ b <= i /\ c \in Nat
      /\ a + (c + m) <= i
  BY <1>1, <1>4
<1>7. SubSeq(Input, a + 1, a + c) \o SubSeq(SubSeq(Input, a + c + 1, b), 1, m)
        = SubSeq(Input, a + 1, a + c + m)
  BY <1>1, <1>6, PieceGrows
<1>8. out[n] \o SubSeq(state.buf, 1, m) = Piece(n, c + m)
  BY <1>1, <1>2, <1>5, <1>6, <1>7
<1>9. SubSeq(state.buf, 1, m) \in Seq(Nat)
  BY <1>3, <1>6, PrefixElements DEF l
<1>10. out[n] \o SubSeq(state.buf, 1, m) \in Seq(Nat)
  BY <1>3, <1>9
<1>11. /\ out' \in Seq(Seq(Nat)) /\ Len(out') = Len(out) /\ DOMAIN out' = DOMAIN out
       /\ \A o \in DOMAIN out : o # n => out'[o] = out[o]
       /\ out'[n] = out[n] \o SubSeq(state.buf, 1, m)
  <2> DEFINE x == out[n] \o SubSeq(state.buf, 1, m)
  <2>1. out' = [out EXCEPT ![n] = x]
    BY <1>4
  <2>2. x \in Seq(Nat)
    BY <1>10
  <2> HIDE DEF x
  <2>3. /\ out' \in Seq(Seq(Nat)) /\ Len(out') = Len(out) /\ DOMAIN out' = DOMAIN out
        /\ \A o \in DOMAIN out : o # n => out'[o] = out[o]
        /\ out'[n] = x
    <3>1. out' \in Seq(Seq(Nat)) /\ Len(out') = Len(out)
      <4>1. Len(out) \in Nat /\ DOMAIN out = 1..Len(out) /\ out \in [1..Len(out) -> Seq(Nat)]
        BY <1>3
      <4> DEFINE f == [out EXCEPT ![n] = x]
      <4>2. f \in [1..Len(out) -> Seq(Nat)]
        BY <2>2, <4>1
      <4> HIDE DEF f
      <4>3. f \in Seq(Seq(Nat)) /\ Len(f) = Len(out)
        BY <4>1, <4>2
      <4>4. out' = f
        BY <2>1 DEF f
      <4> QED  BY <4>3, <4>4
    <3>2. DOMAIN out' = DOMAIN out
      BY <1>3, <2>1, <2>2
    <3>3. out'[n] = x
      BY <1>3, <2>1, <2>2
    <3>4. \A o \in DOMAIN out : o # n => out'[o] = out[o]
      BY <1>3, <2>1, <2>2
    <3> QED  BY <3>1, <3>2, <3>3, <3>4
  <2> QED  BY <2>3 DEF x
<1>12. \A o \in DOMAIN out' : o \in DOMAIN out /\ (o < n => out'[o] = out[o])
  <2>1. ~(n < n)
    BY <1>1
  <2> QED  BY <1>11, <2>1
<1> QED  BY <1>6, <1>8, <1>11, <1>12 DEF c, n, a, p

(* what has been passed on is gone from the buffer *)
LEMMA BufferShrinks ==
  ASSUME SplitAll, SplitsOctets, state.rc = 0, state.open, UNCHANGED offset,
         state'.buf = SubSeq(state.buf, outputs!wlen + 1, Len(state.buf))
  PROVE  /\ state'.buf \in Seq(Nat) /\ state'.buf = SubSeq(Input, Passed' + 1, offset[1])
         /\ Passed' = Passed + outputs!wlen /\ Passed' \in Nat
<1> DEFINE c == state.output_count
           w == outputs!wlen
           a == Before(Len(out))
           b == offset[1]
           l == Len(state.buf)
           i == Len(Input)
           t == state'.buf
<1>1. /\ l \in Nat /\ w \in 0..l /\ c \in Nat
      /\ Passed = a + c /\ a \in Nat
      /\ b = Passed + l /\ b \in 0..i
      /\ i \in Nat /\ Input \in Seq(Nat) /\ Passed \in Nat
  <2>1. state.output_count \in 0..cmd.piece_size => state.output_count \in Nat
    OBVIOUS
  <2> QED  BY <2>1, Wlen
<1>2. state.buf = SubSeq(Input, a + c + 1, b)
  BY <1>1 DEF SplitAll, SplitReads
<1>3. t = SubSeq(state.buf, w + 1, l) /\ Passed' = b - Len(t)
  BY DEF Passed
<1> HIDE DEF c, w, a, b, l, t
<1>4. /\ a + c <= b /\ w \in 0..(b - (a + c)) /\ b \in Nat /\ b <= i
      /\ l = b - (a + c) /\ w \in Nat
      /\ a + c + w \in Nat /\ b - (a + c + w) \in Nat
      /\ a + c + w + (b - (a + c + w)) = b /\ Passed + w = a + c + w
  BY <1>1
<1>5. SubSeq(SubSeq(Input, a + c + 1, b), w + 1, b - (a + c)) = SubSeq(Input, a + c + w + 1, b)
  BY <1>1, <1>4, PieceGrows
<1>6. t = SubSeq(Input, a + c + w + 1, b)
  BY <1>2, <1>3, <1>4, <1>5
<1>7. t \in Seq(Nat) /\ Len(t) = b - (a + c + w)
  <2> DEFINE d == a + c + w
             e == b - d
  <2>1. d \in Nat /\ e \in Nat /\ d + e = b /\ d + e <= Len(Input)
    BY <1>4
  <2>2. t = SubSeq(Input, d + 1, d + e)
    BY <1>6, <2>1
  <2> HIDE DEF d, e
  <2>3. t \in Seq(Nat) /\ Len(t) = e
    BY <1>1, <2>1, <2>2, BlockOf
  <2> QED  BY <2>3 DEF d, e
<1>8. Passed' = a + c + w
  BY <1>1, <1>3, <1>4, <1>7
<1> QED  BY <1>4, <1>6, <1>7, <1>8 DEF w, t, b

(* the pieces, when the last has grown by m octets and the rest of the state *)
(* agrees with that, or something has failed                                 *)
LEMMA PiecesGrown ==
  ASSUME SplitAll, SplitsOctets, state.rc = 0, state.open, UNCHANGED cmd, NEW m \in 0..outputs!wlen,
         out' = [out EXCEPT ![Len(out)] = @ \o SubSeq(state.buf, 1, m)],
         state'.open \/ state'.output_count = 0,
         state'.rc = 0 =>
           /\ Passed' = Passed + m
           /\ state.output_count + m
                = (IF state'.open THEN state'.output_count ELSE cmd.piece_size)
  PROVE  SplitPieces'
<1>1. /\ Len(out) \in Nat /\ Len(out) > 0 /\ Before(Len(out)) \in Nat /\ cmd.piece_size \in Nat
      /\ state.output_count \in 0..cmd.piece_size
      /\ Passed = Before(Len(out)) + state.output_count /\ Passed \in Nat
      /\ m \in Nat
  <2>1. outputs!wlen \in 0..Len(state.buf) /\ Len(state.buf) \in Nat
    BY Wlen
  <2>2. m \in Nat
    BY <2>1
  <2> QED  BY <2>2, Wlen
<1>2. PICK n \in Nat : n = Len(out)
  BY <1>1
<1>3. /\ Len(out') = n
      /\ \A o \in DOMAIN out' : o \in DOMAIN out /\ (o < n => out'[o] = out[o])
      /\ out'[n] = Piece(n, state.output_count + m)
      /\ Before(n) + (state.output_count + m) <= Len(Input)
      /\ state.output_count + m \in 0..cmd.piece_size
  BY <1>2, LastPieceGrows
<1>4. PICK k \in 0..cmd.piece_size : k = state.output_count + m
  BY <1>3
<1>5. Input' = Input /\ cmd' = cmd
  BY DEF Input
<1>6. \A o \in DOMAIN out' :
        o < n => Before(o + 1) <= Len(Input) /\ out'[o] = Piece(o, cmd.piece_size)
  BY <1>2, <1>3 DEF SplitAll, SplitPieces
<1>7. Before(n) < Len(Input)
  BY <1>1, <1>2 DEF SplitAll, SplitPieces
<1>8. Before(n + 1) = Before(n) + cmd.piece_size
  <2>1. n - 1 \in Nat /\ n + 1 - 1 = (n - 1) + 1
    BY <1>1, <1>2
  <2> QED  BY <1>1, <2>1, Multiples DEF Before
<1>9. state'.rc = 0 => k = (IF state'.open THEN state'.output_count ELSE cmd.piece_size)
  BY <1>4
<1>10. LastPiece(k)'
  <2>1. out'[n] = Piece(n, k) /\ Before(n) + k <= Len(Input)
    BY <1>3, <1>4
  <2> QED  BY <1>3, <1>5, <1>9, <2>1 DEF LastPiece, Before, Piece
<1>11. ASSUME state'.rc = 0
       PROVE  Passed' = IF state'.open THEN Before(n) + state'.output_count ELSE Before(n + 1)
  <2>1. Passed' = Before(n) + k
    <3>1. Passed' = Before(n) + state.output_count + m
      BY <1>1, <1>2, <1>11
    <3> QED  BY <1>1, <1>2, <1>4, <3>1
  <2>2. CASE state'.open
    BY <1>9, <1>11, <2>1, <2>2
  <2>3. CASE ~state'.open
    BY <1>8, <1>9, <1>11, <2>1, <2>3
  <2> QED  BY <2>2, <2>3
<1>12. IF state'.open THEN Len(out') > 0 ELSE state'.output_count = 0
  BY <1>1, <1>2, <1>3
<1>13. SplitPieces'
  <2>1. \A o \in DOMAIN out' :
           o < Len(out') => (Before(o + 1) <= Len(Input))' /\ out'[o] = Piece(o, cmd.piece_size)'
    <3> SUFFICES ASSUME NEW o \in DOMAIN out', o < Len(out')
                 PROVE  (Before(o + 1) <= Len(Input))' /\ (out[o] = Piece(o, cmd.piece_size))'
      OBVIOUS
    <3>1. Before(o + 1) <= Len(Input) /\ out'[o] = Piece(o, cmd.piece_size)
      BY <1>3, <1>6
    <3> QED  BY <1>5, <3>1 DEF Before, Piece
  <2>2. (Len(out) > 0 => Before(Len(out)) < Len(Input))'
    <3>1. (n - 1) * cmd.piece_size < Len(Input)
      BY <1>7 DEF Before
    <3> QED  BY <1>3, <1>5, <3>1 DEF Before
  <2>3. (\E j \in 0..cmd.piece_size : LastPiece(j))'
    BY <1>5, <1>10
  <2>4. ASSUME state'.rc = 0
        PROVE  (Passed = IF state.open THEN Before(Len(out)) + state.output_count
                         ELSE Before(Len(out) + 1))'
    BY <1>3, <1>5, <1>11, <2>4 DEF Before
  <2> QED  BY <1>12, <2>1, <2>2, <2>3, <2>4 DEF SplitPieces
<1> QED  BY <1>13

(* the octets that fit go to the piece; a piece that is full is closed *)
LEMMA StepOutputBytes ==
  ASSUME SplitAll, SplitsOctets, outputs!output_bytes
  PROVE  SplitNext
<1> DEFINE w == outputs!wlen
           n == Len(out)
           c == state.output_count
           l == Len(state.buf)
           rest == SubSeq(state.buf, w + 1, l)
           text == SubSeq(state.buf, 1, w)
           full == c + w = cmd.piece_size
           ToLast(t) == out' = [out EXCEPT ![n] = @ \o t]
<1>1. /\ status = "running" /\ state.rc = 0 /\ state.open
      /\ UNCHANGED <<cmd, arg, held, exit_status, status, offset>>
  BY DEF outputs!output_bytes, outputs!SplitAt, outputs!Running, outputs!Going,
     outputs!Private, outputs!walker
<1>2. /\ n \in Nat /\ n > 0 /\ l \in Nat /\ cmd.piece_size \in Nat /\ c \in 0..cmd.piece_size
      /\ w \in 0..l /\ outputs!incr = w /\ c + w <= cmd.piece_size
  BY <1>1, Wlen
<1>3. \/ /\ ToLast(text) /\ UNCHANGED faults /\ ~full
         /\ state' = [[state EXCEPT !.buf = rest] EXCEPT !.output_count = @ + w]
      \/ /\ ToLast(text) /\ UNCHANGED faults /\ full
         /\ state' = [[state EXCEPT !.buf = rest] EXCEPT !.open = FALSE, !.output_count = 0]
      \/ /\ full /\ faults' = Append(faults, <<"close", arg>>) /\ ToLast(text)
         /\ state' = [[state EXCEPT !.buf = rest] EXCEPT !.open = FALSE, !.output_count = 0, !.rc = 1]
      \/ /\ faults' = Append(faults, <<"write", arg>>)
         /\ \E k \in 0..(Len(text) - 1) : ToLast(SubSeq(text, 1, k))
         /\ state' = [state EXCEPT !.rc = 1]
  BY <1>2 DEF outputs!output_bytes, outputs!Write, outputs!WriteFails, outputs!Fault, outputs!Remaining
<1>4. /\ state \in SplitStates /\ state.buf \in Seq(Nat) /\ out \in Seq(Seq(Nat))
      /\ faults = <<>> /\ n = state.suffix /\ exit_status = 0
  BY <1>1 DEF SplitAll, SplitTypeOK, SplitStates, SplitStatus
<1>5. rest \in Seq(Nat)
  <2>1. \A i \in (w + 1)..l : state.buf[i] \in Nat
    <3>1. \A i \in 1..l : state.buf[i] \in Nat
      BY <1>4
    <3>2. \A i \in (w + 1)..l : i \in 1..l
      <4>1. w \in Nat /\ l \in Nat
        BY <1>2
      <4> HIDE DEF w, l
      <4> QED  BY <4>1
    <3> QED  BY <3>1, <3>2, Zenon
  <2>2. w + 1 \in Int /\ l \in Int
    BY <1>2
  <2> HIDE DEF w, l
  <2> QED  BY <2>1, <2>2, SubSeqProperties
<1>6. c + w \in 0..cmd.piece_size /\ 0 \in 0..cmd.piece_size
  BY <1>2
<1>7. \E m \in 0..w : ToLast(SubSeq(state.buf, 1, m))
                      /\ (\/ faults' = Append(faults, <<"write", arg>>)
                          \/ m = w)
  <2>1. CASE ToLast(text)
    <3>1. w \in 0..w
      BY <1>2
    <3> QED  BY <2>1, <3>1
  <2>2. CASE faults' = Append(faults, <<"write", arg>>)
             /\ \E k \in 0..(Len(text) - 1) : ToLast(SubSeq(text, 1, k))
    <3>1. PICK k \in 0..(Len(text) - 1) : ToLast(SubSeq(text, 1, k))
      BY <2>2
    <3>2. Len(text) = w
      BY <1>2, <1>4, PrefixElements
    <3>3. k \in 0..w
      BY <1>2, <3>2
    <3>4. SubSeq(text, 1, k) = SubSeq(state.buf, 1, k)
      BY <1>2, <1>4, <3>3, PrefixOfPrefix
    <3> QED  BY <2>2, <3>1, <3>3, <3>4
  <2> QED  BY <1>3, <2>1, <2>2
<1> HIDE DEF text
<1>8. PICK m \in 0..w : out' = [out EXCEPT ![Len(out)] = @ \o SubSeq(state.buf, 1, m)]
                        /\ (faults' = Append(faults, <<"write", arg>>) \/ m = w)
  BY <1>7
<1>9. out' \in Seq(Seq(Nat)) /\ Len(out') = Len(out)
  BY <1>1, <1>8, LastPieceGrows
<1>10. \/ UNCHANGED faults
       \/ faults' \in Seq(FaultKinds \X {1}) /\ faults' # <<>>
  BY <1>3, FaultAppended DEF SplitAll, FaultKinds
<1>11. faults' \in Seq(FaultKinds \X {1})
  BY <1>10 DEF SplitAll, SplitTypeOK
<1> HIDE DEF w, c, l, rest, ToLast
<1>12. /\ state' \in SplitStates /\ state'.eof = state.eof /\ state'.suffix = state.suffix
       /\ \/ state'.buf = rest
          \/ state'.buf = state.buf /\ state'.rc = 1
       /\ \/ /\ state'.rc = 0 /\ UNCHANGED faults /\ m = w
             /\ \/ state'.open /\ state'.output_count = c + w
                \/ ~state'.open /\ state'.output_count = 0 /\ full
          \/ /\ state'.rc = 1 /\ faults' = Append(faults, <<"close", arg>>)
             /\ ~state'.open /\ state'.output_count = 0
          \/ /\ state'.rc = 1 /\ faults' = Append(faults, <<"write", arg>>)
             /\ state'.open
  <2>1. faults # Append(faults, <<"write", arg>>)
        /\ Append(faults, <<"write", arg>>) # Append(faults, <<"close", arg>>)
    BY <1>4
  <2>2. CASE /\ ToLast(text) /\ UNCHANGED faults /\ ~full
             /\ state' = [[state EXCEPT !.buf = rest] EXCEPT !.output_count = @ + w]
    <3>1. state' \in SplitStates
      BY <1>4, <1>5, <1>6, <2>2 DEF SplitStates, c
    <3> QED  BY <1>1, <1>4, <1>8, <2>1, <2>2, <3>1 DEF SplitStates, c
  <2>3. CASE /\ ToLast(text) /\ UNCHANGED faults /\ full
             /\ state' = [[state EXCEPT !.buf = rest] EXCEPT !.open = FALSE, !.output_count = 0]
    <3>1. state' \in SplitStates
      BY <1>4, <1>5, <1>6, <2>3 DEF SplitStates
    <3> QED  BY <1>1, <1>4, <1>8, <2>1, <2>3, <3>1 DEF SplitStates
  <2>4. CASE /\ full /\ faults' = Append(faults, <<"close", arg>>) /\ ToLast(text)
             /\ state' = [[state EXCEPT !.buf = rest] EXCEPT !.open = FALSE, !.output_count = 0, !.rc = 1]
    <3>1. state' \in SplitStates
      BY <1>4, <1>5, <1>6, <2>4 DEF SplitStates
    <3> QED  BY <1>1, <1>4, <2>4, <3>1 DEF SplitStates
  <2>5. CASE /\ faults' = Append(faults, <<"write", arg>>)
             /\ state' = [state EXCEPT !.rc = 1]
    <3>1. state' \in SplitStates
      BY <1>4, <2>5 DEF SplitStates
    <3> QED  BY <1>1, <1>4, <2>5, <3>1 DEF SplitStates
  <2> QED  BY <1>3, <2>2, <2>3, <2>4, <2>5
<1>13. state'.buf = rest => SplitReads' /\ Passed' = Passed + w
  <2> HAVE state'.buf = rest
  <2>1. /\ state'.buf = SubSeq(Input, Passed' + 1, offset[1])
        /\ Passed' = Passed + w /\ Passed' \in Nat
    BY <1>1, BufferShrinks DEF rest, w, l
  <2>2. Passed' >= 0
    BY <2>1
  <2> QED  BY <1>1, <1>12, <2>1, <2>2 DEF SplitAll, SplitReads, Input
<1>14. SplitReads'
  <2>1. CASE state'.buf = rest
    BY <1>13, <2>1
  <2>2. CASE state'.buf = state.buf
    BY <1>1, <1>12, <2>2 DEF SplitAll, SplitReads, Passed, Input
  <2> QED  BY <1>12, <2>1, <2>2
<1>15. SplitTypeOK'
  BY <1>1, <1>9, <1>11, <1>12 DEF SplitAll, SplitTypeOK, SplitStates, Input
<1>16. SplitPieces'
  <2>1. state'.open \/ state'.output_count = 0
    BY <1>12
  <2>2. ASSUME state'.rc = 0
        PROVE  /\ Passed' = Passed + m
               /\ state.output_count + m
                    = (IF state'.open THEN state'.output_count ELSE cmd.piece_size)
    <3>1. m = w /\ state'.buf = rest
      BY <1>12, <2>2
    <3> QED  BY <1>12, <1>13, <2>2, <3>1 DEF c
  <2>3. m \in 0..outputs!wlen
    BY DEF w
  <2> QED  BY <1>1, <1>8, <2>1, <2>2, <2>3, PiecesGrown
<1>17. SplitStatus'
  <2>1. state'.rc = 0 => faults' = <<>>
    BY <1>4, <1>12
  <2>2. state'.rc = 1 => faults' # <<>>
    <3>1. \A kind \in FaultKinds : faults' = Append(faults, <<kind, arg>>) => faults' # <<>>
      BY FaultAppended DEF SplitAll
    <3> QED  BY <1>12, <3>1 DEF FaultKinds
  <2>3. Len(out') = state'.suffix /\ Len(out') <= state'.suffix
    BY <1>2, <1>4, <1>9, <1>12
  <2> QED  BY <1>1, <1>4, <2>1, <2>2, <2>3 DEF SplitStatus
<1> QED  BY <1>14, <1>15, <1>16, <1>17 DEF SplitNext

(* every step keeps the invariant *)
LEMMA SplitKept == SplitInv /\ [Next]_vars => SplitInv'
<1> SUFFICES ASSUME SplitInv, [Next]_vars, SplitsOctets'
             PROVE  SplitTypeOK' /\ SplitReads' /\ SplitPieces' /\ SplitStatus'
  BY DEF SplitInv
<1>1. CASE UNCHANGED vars
  <2>1. SplitsOctets /\ SplitAll
    BY <1>1 DEF vars, SplitsOctets, SplitInv, SplitAll
  <2>2. SplitPieces'
    BY <1>1, <2>1, PiecesLeft DEF vars, SplitAll
  <2> QED
    BY <1>1, <2>1, <2>2 DEF vars, SplitAll, SplitTypeOK, SplitReads, SplitStatus, Passed, Input
<1>2. CASE cmd' = cmd /\ (cmd.util = "split" => outputs!SplitStep)
  <2>1. SplitsOctets /\ SplitAll /\ outputs!SplitStep
    BY <1>2 DEF SplitsOctets, SplitInv, SplitAll
  <2>2. SplitNext
    BY <2>1, StepSplitBegin, StepSplitRead, StepSplitReadFails, StepOpenOutput, StepOutputBytes,
       StepSplitFinish DEF outputs!SplitStep
  <2> QED  BY <2>2 DEF SplitNext
<1> QED  BY <1>1, <1>2, StepOfUtility

(* so it always holds *)
LEMMA SplitAlways == Spec => []SplitInv
  BY SplitBegins, SplitKept, PTL DEF Spec

(* what is expected in a piece *)
LEMMA ExpectedOfSplit ==
  ASSUME SplitsOctets, SplitTypeOK
  PROVE  LET p == cmd.piece_size
             l == Len(Input)
         IN /\ p = 0 => Expected = [k \in 1..(IF Input = <<>> THEN 0 ELSE MaxPieces) |-> <<>>]
            /\ p > 0 => Expected = [k \in 1..((l + p - 1) \div p) |->
                          SubSeq(Input, (k - 1) * p + 1, IF k * p < l THEN k * p ELSE l)]
<1>1. Expected = SplitExpected
  BY DEF Expected, SplitsOctets
<1> QED  BY <1>1 DEF SplitExpected, Times, Cut, Least, SplitsOctets, SplitTypeOK

(* a text that is cut short follows the text *)
LEMMA PartFollows ==
  ASSUME NEW s \in Seq(Nat), NEW a \in Nat, NEW k \in Nat, NEW b \in Nat, a + k <= b, b <= Len(s)
  PROVE  /\ Follows(SubSeq(s, a + 1, a + k), SubSeq(s, a + 1, b))
         /\ Len(SubSeq(s, a + 1, b)) = b - a
<1> DEFINE t == SubSeq(s, a + 1, a + k)
           u == SubSeq(s, a + 1, b)
<1>1. t \in Seq(Nat) /\ Len(t) = k /\ \A i \in 1..k : t[i] = s[a + i]
  BY SubSeqProperties
<1>2. u \in Seq(Nat) /\ Len(u) = b - a /\ \A i \in 1..(b - a) : u[i] = s[a + i]
  BY SubSeqProperties
<1> HIDE DEF t, u
<1>3. Len(t) <= Len(u) /\ \A i \in DOMAIN t : t[i] = u[i]
  <2>1. k \in 0..(b - a)
    OBVIOUS
  <2>2. DOMAIN t = 1..k
    BY <1>1
  <2>3. \A i \in 1..k : i \in 1..(b - a)
    BY <2>1
  <2>4. \A i \in DOMAIN t : t[i] = u[i]
    BY <1>1, <1>2, <2>2, <2>3
  <2> QED  BY <1>1, <1>2, <2>1, <2>4
<1>4. Follows(t, u)
  BY <1>3 DEF Follows, Same
<1> QED  BY <1>2, <1>4 DEF t, u

(* each piece, and those that are full *)
LEMMA PiecesFollow ==
  ASSUME SplitAll, SplitsOctets
  PROVE  /\ Len(out) <= Len(Expected)
         /\ \A o \in DOMAIN out : /\ Follows(out[o], Expected[o])
                                  /\ o < Len(out) => out[o] = Expected[o]
<1> DEFINE p == cmd.piece_size
           l == Len(Input)
           n == Len(out)
<1>1. /\ Input \in Seq(Nat) /\ l \in Nat /\ p \in Nat /\ n \in Nat /\ out \in Seq(Seq(Nat))
      /\ DOMAIN out = 1..n
  BY DEF SplitAll, SplitTypeOK, Input
<1>0. MaxPieces \in Nat /\ n <= MaxPieces
  <2>1. MaxPieces \in Nat
    BY FiltersAssumption
  <2>2. state.suffix \in 0..MaxPieces /\ n <= state.suffix
    BY DEF SplitAll, SplitTypeOK, SplitStatus
  <2> QED  BY <1>1, <2>1, <2>2
<1> HIDE DEF p, l, n
<1>2. \A o \in 1..n : \E k \in 0..p :
        /\ Before(o) + k <= l /\ out[o] = Piece(o, k) /\ (o < n => k = p)
        /\ Before(o) \in Nat /\ Before(o) + p = o * p /\ Before(o) <= l
  <2>1. TAKE o \in 1..n
  <2>2. o - 1 \in Nat /\ o = (o - 1) + 1
    BY <1>1
  <2>3. Before(o) \in Nat /\ Before(o) + p = o * p /\ Before(o + 1) = o * p
    <3>1. (o - 1) * p \in Nat /\ (o - 1 + 1) * p = (o - 1) * p + p
      BY <1>1, <2>2, Multiples
    <3>2. o - 1 + 1 = o /\ o + 1 - 1 = o
      BY <1>1, <2>2
    <3>3. Before(o) = (o - 1) * p /\ Before(o + 1) = o * p
      BY <3>2 DEF Before, p
    <3> QED  BY <3>1, <3>2, <3>3
  <2>4. CASE o < n
    <3>1. Before(o + 1) <= l /\ out[o] = Piece(o, p)
      BY <1>1, <2>4 DEF SplitAll, SplitPieces, p, l, n
    <3>2. p \in 0..p /\ Before(o) + p <= l /\ Before(o) <= l
      BY <1>1, <2>3, <3>1
    <3> QED  BY <2>3, <3>1, <3>2
  <2>5. CASE o = n
    <3>1. PICK k \in 0..p : LastPiece(k)
      BY <1>1, <2>5 DEF SplitAll, SplitPieces, n, p
    <3>2. Before(o) + k <= l /\ out[o] = Piece(o, k)
      BY <2>5, <3>1 DEF LastPiece, n, l
    <3>3. Before(o) <= l /\ ~(o < n)
      BY <1>1, <2>3, <2>5, <3>2
    <3> QED  BY <2>3, <3>2, <3>3
  <2> QED  BY <1>1, <2>4, <2>5
<1>3. CASE p = 0
  <2>1. Expected = [k \in 1..(IF Input = <<>> THEN 0 ELSE MaxPieces) |-> <<>>]
    BY <1>3, ExpectedOfSplit DEF SplitAll, p
  <2>2. \A o \in 1..n : out[o] = <<>>
    <3>1. TAKE o \in 1..n
    <3>2. PICK k \in 0..p : out[o] = Piece(o, k) /\ Before(o) \in Nat
      BY <1>2
    <3>3. k = 0
      BY <1>3, <3>2
    <3>4. SubSeq(Input, Before(o) + 1, Before(o) + k) = <<>>
      BY <3>2, <3>3, SubSeqEmpty
    <3> QED  BY <3>2, <3>4 DEF Piece
  <2>3. n > 0 => Input # <<>>
    <3>1. n > 0 => Before(n) < l /\ Before(n) \in Nat
      <4>1. n > 0 => Before(n) < l
        BY DEF SplitAll, SplitPieces, n, l
      <4>2. n > 0 => n \in 1..n
        BY <1>1
      <4> QED  BY <1>2, <4>1, <4>2
    <3>2. n > 0 => l > 0
      BY <1>1, <3>1
    <3> QED  BY <1>1, <3>2 DEF l
  <2>5. n <= Len(Expected) /\ \A o \in 1..n : Expected[o] = <<>>
    BY <1>0, <1>1, <2>1, <2>3
  <2>6. Follows(<<>>, <<>>)
    BY DEF Follows
  <2> QED  BY <1>1, <2>2, <2>5, <2>6 DEF n
<1>4. CASE p > 0
  <2> DEFINE q == (l + p - 1) \div p
  <2>1. Expected = [k \in 1..q |-> SubSeq(Input, (k - 1) * p + 1, IF k * p < l THEN k * p ELSE l)]
    BY <1>4, ExpectedOfSplit DEF SplitAll, p, l
  <2>2. q \in Nat /\ \A k \in Nat : k < q <=> k * p < l
    <3>1. p \in Nat \ {0}
      BY <1>1, <1>4
    <3> HIDE DEF q
    <3>2. \A k \in Nat : (l + p - 1) \div p \in Nat /\ (k < (l + p - 1) \div p <=> k * p < l)
      BY <1>1, <3>1, PiecesOf
    <3>3. 0 \in Nat
      OBVIOUS
    <3> QED  BY <3>2, <3>3 DEF q
  <2> HIDE DEF q
  <2>3. n <= q
    <3>1. CASE n = 0
      BY <2>2, <3>1
    <3>2. CASE n > 0
      <4>1. (n - 1) * p < l
        BY <3>2 DEF SplitAll, SplitPieces, Before, n, p, l
      <4>2. n - 1 \in Nat
        BY <1>1, <3>2
      <4>3. n - 1 < q
        BY <2>2, <4>1, <4>2
      <4> QED  BY <1>1, <2>2, <4>3
    <3> QED  BY <1>1, <3>1, <3>2
  <2>4. Len(Expected) = q
    BY <2>1, <2>2
  <2>5. \A o \in 1..n : /\ Follows(out[o], Expected[o])
                        /\ o < n => out[o] = Expected[o]
    <3>1. TAKE o \in 1..n
    <3>2. PICK k \in 0..p :
            /\ Before(o) + k <= l /\ out[o] = Piece(o, k) /\ (o < n => k = p)
            /\ Before(o) \in Nat /\ Before(o) + p = o * p /\ Before(o) <= l
      BY <1>2
    <3> DEFINE b == IF o * p < l THEN o * p ELSE l
    <3>3. Expected[o] = SubSeq(Input, Before(o) + 1, b)
      <4>1. o \in 1..q
        BY <1>1, <2>2, <2>3
      <4> QED  BY <2>1, <4>1 DEF Before, p
    <3>4. /\ b \in Nat /\ b <= l /\ Before(o) + k <= b /\ k \in Nat
          /\ k = p => b = Before(o) + k
      <4>1. o * p \in Nat
        BY <1>1
      <4> DEFINE r == o * p
                 a == Before(o)
      <4>2. r \in Nat /\ a \in Nat /\ a + p = r /\ a + k <= l /\ a <= l
        BY <3>2, <4>1
      <4>3. b = IF r < l THEN r ELSE l
        OBVIOUS
      <4> HIDE DEF r, a, b
      <4>4. /\ b \in Nat /\ b <= l /\ a + k <= b /\ k \in Nat
            /\ k = p => b = a + k
        BY <1>1, <4>2, <4>3
      <4> QED  BY <4>4 DEF a
    <3> HIDE DEF b
    <3>5. Follows(SubSeq(Input, Before(o) + 1, Before(o) + k), SubSeq(Input, Before(o) + 1, b))
      BY <1>1, <3>2, <3>4, PartFollows DEF l
    <3> QED  BY <3>2, <3>3, <3>4, <3>5 DEF Piece
  <2> QED  BY <1>1, <2>3, <2>4, <2>5 DEF n
<1> QED  BY <1>1, <1>3, <1>4

(***************************************************************************)
(* However the blocks fall and whatever fails, split -b has so many octets *)
(* in every piece but the last, in the order of the input (output_bytes):  *)
(* what OutputFollowsInput says of every filter, of split -b.              *)
(***************************************************************************)
THEOREM SplitFollowsInput == Spec => [](cmd.util = "split" /\ ~cmd.lines => OutputFollowsInput)
<1>1. SplitInv => (cmd.util = "split" /\ ~cmd.lines => OutputFollowsInput)
  BY PiecesFollow DEF SplitInv, SplitAll, SplitsOctets, OutputFollowsInput
<1> QED  BY <1>1, SplitAlways, PTL

(* when nothing has failed and the input is at its end, so are the pieces *)
LEMMA PiecesComplete ==
  ASSUME SplitAll, SplitsOctets, state.rc = 0, state.eof, state.buf = <<>>
  PROVE  /\ Len(out) = Len(Expected)
         /\ \A o \in DOMAIN out : Len(out[o]) = Len(Expected[o])
<1> DEFINE p == cmd.piece_size
           l == Len(Input)
           n == Len(out)
           c == state.output_count
<1>1. /\ Input \in Seq(Nat) /\ l \in Nat /\ p \in Nat /\ n \in Nat /\ out \in Seq(Seq(Nat))
      /\ c \in 0..p /\ DOMAIN out = 1..n /\ offset[1] \in 0..l
  <2>1. SplitTypeOK
    BY DEF SplitAll
  <2>2. Input \in Seq(Nat) /\ l \in Nat
    BY <2>1 DEF SplitTypeOK, Input
  <2>3. out \in Seq(Seq(Nat)) /\ n \in Nat /\ DOMAIN out = 1..n
    BY <2>1 DEF SplitTypeOK
  <2>4. p \in Nat /\ c \in 0..p
    BY <2>1 DEF SplitTypeOK
  <2>5. offset[1] \in 0..l
    BY <2>1 DEF SplitTypeOK
  <2> QED  BY <2>2, <2>3, <2>4, <2>5
<1>2. Passed = l
  BY <1>1 DEF SplitAll, SplitReads, Passed
<1> HIDE DEF p, l, n, c
<1>3. IF state.open THEN n > 0 /\ l = Before(n) + c ELSE l = Before(n + 1)
  BY <1>2 DEF SplitAll, SplitPieces, n, c
<1>4. n > 0 => Before(n) < l /\ \E k \in 0..p : LastPiece(k)
  BY DEF SplitAll, SplitPieces, n, l, p
<1>5. Before(n + 1) = n * p /\ n * p \in Nat /\ (n > 0 => Before(n) \in Nat /\ Before(n) + p = n * p)
  <2>1. n * p \in Nat
    BY <1>1
  <2>2. Before(n + 1) = n * p
    <3>1. \A o \in Nat : o + 1 - 1 = o
      OBVIOUS
    <3>2. \A o \in Nat : Before(o + 1) = o * p
      BY <3>1 DEF Before, p
    <3> QED  BY <1>1, <3>2
  <2>3. ASSUME n > 0
        PROVE  Before(n) \in Nat /\ Before(n) + p = n * p
    <3>1. n - 1 \in Nat /\ n - 1 + 1 = n
      BY <1>1, <2>3
    <3>2. (n - 1) * p \in Nat /\ (n - 1 + 1) * p = (n - 1) * p + p
      BY <1>1, <3>1, Multiples
    <3> QED  BY <3>1, <3>2 DEF Before, p
  <2> QED  BY <2>1, <2>2, <2>3
<1>6. l <= n * p
  BY <1>1, <1>3, <1>5
<1>7. n = Len(Expected)
  <2>1. CASE p = 0
    <3>1. l = 0
      <4>1. n * p = 0
        BY <1>1, <2>1
      <4> QED  BY <1>1, <1>6, <4>1
    <3>2. Input = <<>> /\ n = 0
      BY <1>1, <1>4, <1>5, <3>1 DEF l
    <3>3. Expected = [k \in 1..0 |-> <<>>]
      BY <2>1, <3>2, ExpectedOfSplit DEF SplitAll, p
    <3> QED  BY <3>2, <3>3
  <2>2. CASE p > 0
    <3> DEFINE q == (l + p - 1) \div p
    <3>1. Expected = [k \in 1..q |-> SubSeq(Input, (k - 1) * p + 1, IF k * p < l THEN k * p ELSE l)]
      BY <2>2, ExpectedOfSplit DEF SplitAll, p, l
    <3>2. q \in Nat /\ (n < q <=> n * p < l)
      <4>1. p \in Nat \ {0}
        BY <1>1, <2>2
      <4> QED  BY <1>1, <4>1, PiecesOf
    <3> HIDE DEF q
    <3>3. Len(Expected) = q
      BY <3>1, <3>2
    <3>4. q <= n
      BY <1>1, <1>5, <1>6, <3>2
    <3>5. n <= Len(Expected)
      BY PiecesFollow DEF n
    <3> QED  BY <1>1, <3>2, <3>3, <3>4, <3>5
  <2> QED  BY <1>1, <2>1, <2>2
<1>8. \A o \in 1..n : Len(out[o]) = Len(Expected[o])
  <2>1. TAKE o \in 1..n
  <2>2. CASE o < n
    <3>1. out[o] = Expected[o]
      BY <1>1, <2>2, PiecesFollow DEF n
    <3> QED  BY <3>1
  <2>3. CASE o = n
    <3>1. PICK k \in 0..p : LastPiece(k)
      BY <1>1, <1>4, <2>3
    <3>2. out[n] = Piece(n, k) /\ k = (IF state.open THEN c ELSE p)
      BY <3>1 DEF LastPiece, n, c, p
    <3>3. n > 0 /\ Before(n) \in Nat /\ Before(n) + p = n * p /\ Before(n) < l
      BY <1>1, <1>4, <1>5, <2>3
    <3>4. Before(n) + k = l /\ k \in Nat
      BY <1>1, <1>3, <1>5, <3>2, <3>3
    <3>5. p > 0
      BY <1>1, <3>3, <3>4
    <3>6. Expected[n] = SubSeq(Input, (n - 1) * p + 1, IF n * p < l THEN n * p ELSE l)
      <4>1. Expected = [j \in 1..((l + p - 1) \div p) |->
                          SubSeq(Input, (j - 1) * p + 1, IF j * p < l THEN j * p ELSE l)]
        BY <3>5, ExpectedOfSplit DEF SplitAll, p, l
      <4>2. n \in DOMAIN Expected
        <5>1. (l + p - 1) \div p \in Nat
          <6>1. p \in Nat \ {0}
            BY <1>1, <3>5
          <6> QED  BY <1>1, <6>1, PiecesOf
        <5>2. Len(Expected) = (l + p - 1) \div p
          BY <4>1, <5>1
        <5>3. n \in 1..((l + p - 1) \div p)
          <6>1. PICK q \in Nat : q = (l + p - 1) \div p
            BY <5>1
          <6>2. PICK m \in Nat : m = n
            BY <1>1
          <6>3. m = q /\ m > 0
            BY <1>7, <3>3, <5>2, <6>1, <6>2
          <6>4. m \in 1..q
            BY <6>3
          <6> QED  BY <6>1, <6>2, <6>4
        <5> QED  BY <4>1, <5>3
      <4> QED  BY <4>1, <4>2
    <3>7. Expected[n] = SubSeq(Input, Before(n) + 1, Before(n) + k)
      <4>1. (IF n * p < l THEN n * p ELSE l) = l
        BY <1>1, <1>5, <1>6
      <4> QED  BY <3>4, <3>6, <4>1 DEF Before, p
    <3> QED  BY <2>3, <3>2, <3>7 DEF Piece
  <2>4. o < n \/ o = n
    BY <1>1
  <2> QED  BY <2>2, <2>3, <2>4
<1> QED  BY <1>1, <1>7, <1>8 DEF n

(***************************************************************************)
(* When split -b ends well nothing has failed and the pieces are all of    *)
(* the input; when it does not something has failed, or there are more     *)
(* pieces than names (incr_suffix): what StatusTells says of every filter, *)
(* of split -b.                                                            *)
(***************************************************************************)
THEOREM SplitStatusTells == Spec => [](cmd.util = "split" /\ ~cmd.lines => StatusTells)
<1>1. SplitInv => (cmd.util = "split" /\ ~cmd.lines => StatusTells)
  <2> SUFFICES ASSUME SplitAll, SplitsOctets
               PROVE  StatusTells
    BY DEF SplitInv, SplitAll, SplitsOctets
  <2>1. ~Asks /\ (EndsWell <=> status = "error" /\ exit_status = 0)
    BY DEF Asks, EndsWell, SplitsOctets, SplitAll, SplitTypeOK
  <2>2. status \in {"error", "aborted"} => faults # <<>> \/ OwnLimit
    <3>1. status \in {"running", "error"} /\ exit_status \in {0, 1}
      BY DEF SplitAll, SplitTypeOK
    <3> QED  BY <3>1 DEF SplitAll, SplitStatus, OwnLimit, SplitsOctets
  <2>3. ASSUME EndsWell
        PROVE  /\ Kinds = {}
               /\ Len(out) = Len(Expected)
               /\ \A o \in DOMAIN out :
                    Len(out[o]) = Len(Expected[o]) /\ Follows(out[o], Expected[o])
    <3>1. state.rc = 0 /\ state.eof /\ state.buf = <<>> /\ faults = <<>>
      BY <2>1, <2>3 DEF SplitAll, SplitStatus
    <3> QED  BY <3>1, PiecesComplete, PiecesFollow DEF Kinds
  <2> QED  BY <2>1, <2>2, <2>3 DEF StatusTells
<1> QED  BY <1>1, SplitAlways, PTL
==============================================================================
