---------------------------- MODULE CompressProofs ----------------------------
(***************************************************************************)
(* Theorems about Compress, for every set of files, every command line and *)
(* any number of failing calls.                                            *)
(***************************************************************************)
EXTENDS Compress, TLAPS

(* The input is there from opening it to removing it.  A stream is open    *)
(* for writing from opening the output to closing it, and then the output  *)
(* is there; on the way to an error it may be either.                      *)
StreamInv ==
  /\ pc \in Busy => idx \in DOMAIN cmd.ops
  /\ pc \in {"operand", "permission", "open_in"} => rd = "closed"
  /\ pc \in {"close_out"} \cup Closing => rd = "closed"
  /\ pc \in Writing => wr = "open"
  /\ pc \in Busy \ (Writing \cup {"err"}) => wr = "closed"
  /\ pc \in Closing \/ (pc \in Writing \cup {"err"} /\ wr # "closed") => Exists(Out)
  /\ pc \in Busy \ {"permission", "open_in"} => Exists(In)
  /\ pc = "stat_in" => nr = 0
  /\ pc \in {"open_out", "first_write"} /\ nr = 1 => file[In].data # <<>>
  /\ pc = "err" => eval # 0
  /\ pc = "done" => idx > Len(cmd.ops)
TypeInv == TypeOK /\ StreamInv

-----------------------------------------------------------------------------
(* The strengthening of SetidOnlyForOwner.                                 *)
Granted(own) ==
  \E q \in Paths : StartFiles[q] # NONE /\ StartFiles[q].setid /\ StartFiles[q].own = own
SetidInv ==
  /\ \A p \in Paths : Exists(p) /\ file[p].setid => Granted(file[p].own)
  /\ st.setid => Granted(st.own)
  /\ pc = "chmod" /\ st.setid => file[Out].own = st.own

-----------------------------------------------------------------------------
(* Inputs are as they were at the start, or gone; what is created is a     *)
(* file; the streams given to the program stay.  The two flags say what    *)
(* they are meant to.                                                      *)
Opened == Writing \cup Closing \cup {"open_out", "first"}  \* past stat_in
FilesInv ==
  /\ \A i \in DOMAIN cmd.ops : file[Source(i)] \in {NONE, StartFiles[Source(i)]}
  /\ \A p \in Paths : StartFiles[p] = NONE /\ Exists(p) => file[p].kind = "file"
  /\ \A p \in Stdin \cup Stdout : Exists(p)
  /\ pc \in Busy => (oreg <=> (Exists(Out) => IsFile(Out)))
  /\ pc \in {"permission", "open_in", "stat_in"} => isreg = oreg
  /\ pc \in Opened => (isreg <=> oreg /\ IsFile(In))
  /\ pc \in Closing => isreg

(* What has been read is in the output or in the buffer for it.            *)
Written == file[Out].data \o buf
DataInv ==
  /\ pc \in {"stat_in", "first", "open_out", "first_write"} => buf = <<>>
  /\ pc \in {"stat_in", "first"} => pos = 0
  /\ pc = "open_out" /\ Compressing => pos = 0
  /\ pc = "first" => ~Compressing
  /\ pc \in {"open_out", "first_write"} =>
       (nr = 1 => pos = 1) /\ (~Compressing => nr # 0)
  /\ pc \in Writing \cup Closing => file[Out].form = OutForm
  /\ pc = "first_write" => ~Compressing /\ file[Out].data = <<>>
  /\ pc = "copy" =>
       /\ pos <= Len(file[In].data)
       /\ Written = SubSeq(file[In].data, 1, pos)
  /\ pc \in {"close_in", "close_out"} /\ In \notin unreadable => Written = file[In].data
  /\ pc \in Closing /\ In \notin unreadable => file[Out].data = file[In].data

-----------------------------------------------------------------------------
(* The strengthening of NoHalfOutput.                                      *)
WholeOrAbsent(i) ==
  \/ ~Exists(Target(i)) \/ Holds(Target(i), i)
  \/ Source(i) \in unreadable \/ Target(i) \in leaked \cup kept
OutputInv ==
  \A i \in DOMAIN cmd.ops :
    StartFiles[Target(i)] = NONE /\ ~(wr # "closed" /\ Target(i) = Out) => WholeOrAbsent(i)

(* The strengthening of StatusZeroMeansReplaced.                           *)
Replaced(i) == Holds(Target(i), i) /\ ~(IsFile(Target(i)) /\ IsFile(Source(i)))
ReplacedInv ==
  eval = 0 =>
    \A i \in DOMAIN cmd.ops :
      i < idx /\ i \notin declined /\ Source(i) \notin unreadable
        => Replaced(i) \/ (pc \in Writing \cup Closing \cup {"crashed"} /\ Source(i) = In)

IInv == TypeInv /\ SetidInv /\ FilesInv /\ DataInv /\ OutputInv /\ ReplacedInv

-----------------------------------------------------------------------------
(* Operators of the model.                                                 *)

(* Inputs and outputs are paths, no output is an input, and two operands   *)
(* have the same output exactly if they have the same input.               *)
LEMMA PathFacts ==
  ASSUME TypeOK
  PROVE  /\ cmd \in CommandLines /\ Len(cmd.ops) \in Nat /\ DOMAIN cmd.ops = 1..Len(cmd.ops)
         /\ \A i \in DOMAIN cmd.ops :
              /\ Source(i) \in Paths /\ Target(i) \in Paths /\ Source(i) \notin Stdout
              /\ \A j \in DOMAIN cmd.ops :
                   /\ Source(i) # Target(j)
                   /\ Source(i) = Source(j) <=> Target(i) = Target(j)
<1>1. cmd \in CommandLines
  BY CompressAssumption DEF TypeOK
<1>2. /\ cmd.ops \in Seq(Operands) /\ cmd.stdout \in Stdout /\ cmd.cat \in BOOLEAN
      /\ cmd.style \in {"compress", "decompress"}
  BY <1>1 DEF CommandLines
<1>3. /\ cmd.cat => Len(cmd.ops) <= 1
      /\ \A i, j \in DOMAIN cmd.ops : cmd.ops[i] \in Stdin /\ cmd.ops[j] \in Stdin => i = j
  BY CompressAssumption DEF TypeOK
<1>4. Len(cmd.ops) \in Nat /\ DOMAIN cmd.ops = 1..Len(cmd.ops)
  BY <1>2
<1>5. ASSUME NEW i \in DOMAIN cmd.ops
      PROVE  /\ cmd.ops[i] \in Stdin \/ \E b \in Bases, z \in Suffixes : cmd.ops[i] = <<b, z>>
             /\ Source(i) \in Operands /\ Source(i) \in Paths /\ Target(i) \in Paths
             /\ Source(i) \notin Stdout
             /\ cmd.ops[i] \in Stdin => Source(i) = cmd.ops[i] /\ Target(i) = cmd.stdout
             /\ cmd.cat => Target(i) = cmd.stdout
             /\ cmd.ops[i] \notin Stdin =>
                  \E b \in Bases : /\ Source(i) = <<b, IF Compressing THEN "" ELSE ".Z">>
                                   /\ ~cmd.cat =>
                                        Target(i) = <<b, IF Compressing THEN ".Z" ELSE "">>
  <2>1. cmd.ops[i] \in Operands
    BY <1>2
  <2>2. cmd.ops[i] \in Stdin \/ \E b \in Bases, z \in Suffixes : cmd.ops[i] = <<b, z>>
    BY <2>1 DEF Operands
  <2>3. CASE cmd.ops[i] \in Stdin
    <3>1. Source(i) = cmd.ops[i] /\ Target(i) = cmd.stdout
      BY <2>3 DEF Source, Target
    <3>2. cmd.ops[i] \notin Stdout /\ cmd.ops[i] \in Paths /\ cmd.stdout \in Paths
      BY <1>2, <2>1, <2>3 DEF Paths, Stdin, Stdout
    <3>. QED
      BY <2>1, <2>2, <2>3, <3>1, <3>2
  <2>4. CASE cmd.ops[i] \notin Stdin
    <3>1. PICK b \in Bases, z \in Suffixes : cmd.ops[i] = <<b, z>>
      BY <2>2, <2>4
    <3>2. /\ Source(i) = <<b, IF Compressing THEN "" ELSE ".Z">>
          /\ ~cmd.cat => Target(i) = <<b, IF Compressing THEN ".Z" ELSE "">>
          /\ cmd.cat => Target(i) = cmd.stdout
      <4>1. cmd.ops[i][1] = b
        BY <3>1
      <4>2. /\ Source(i) = <<cmd.ops[i][1], IF Compressing THEN "" ELSE ".Z">>
            /\ cmd.cat => Target(i) = cmd.stdout
        BY <2>4 DEF Source, Target
      <4>3. ~cmd.cat => Target(i) = <<cmd.ops[i][1], IF Compressing THEN ".Z" ELSE "">>
        BY <1>2, <2>4 DEF Target
      <4>. QED
        BY <4>1, <4>2, <4>3
    <3>3. \A e \in {"", ".Z"} : <<b, e>> \in Operands /\ <<b, e>> \notin Stdout
      BY DEF Operands, Suffixes, Stdout
    <3>. QED
      BY <1>2, <2>2, <2>4, <3>2, <3>3 DEF Paths
  <2>. QED
    BY <2>3, <2>4
<1>7. ASSUME NEW i \in DOMAIN cmd.ops, cmd.ops[i] \notin Stdin, ~cmd.cat
      PROVE  Source(i) \notin Stdin /\ Target(i) \notin Stdin \cup Stdout
  <2>1. PICK b \in Bases :
              /\ Source(i) = <<b, IF Compressing THEN "" ELSE ".Z">>
              /\ Target(i) = <<b, IF Compressing THEN ".Z" ELSE "">>
    BY <1>5, <1>7
  <2>2. \A e \in {"", ".Z"} : <<b, e>> \notin Stdin \cup Stdout
    BY DEF Stdin, Stdout
  <2>. QED
    BY <2>1, <2>2
<1>6. ASSUME NEW i \in DOMAIN cmd.ops, NEW j \in DOMAIN cmd.ops
      PROVE  Source(i) # Target(j) /\ (Source(i) = Source(j) <=> Target(i) = Target(j))
  <2>1. CASE cmd.cat
    <3>1. Len(cmd.ops) <= 1
      BY <1>3, <2>1
    <3>2. i = j
      BY <1>4, <3>1
    <3>3. Target(j) \in Stdout
      BY <1>2, <1>5, <2>1
    <3>. QED
      BY <1>5, <3>2, <3>3
  <2>2. CASE ~cmd.cat
    <3>1. CASE cmd.ops[i] \in Stdin
      <4>1. Source(i) \in Stdin /\ Target(i) \in Stdout
        BY <1>2, <1>5, <3>1
      <4>2. CASE cmd.ops[j] \in Stdin
        BY <1>2, <1>3, <1>5, <3>1, <4>1, <4>2
      <4>3. CASE cmd.ops[j] \notin Stdin
        BY <1>5, <1>7, <2>2, <4>1, <4>3
      <4>. QED
        BY <4>2, <4>3
    <3>2. CASE cmd.ops[j] \in Stdin
      <4>1. Source(j) \in Stdin /\ Target(j) \in Stdout
        BY <1>2, <1>5, <3>2
      <4>2. CASE cmd.ops[i] \in Stdin
        BY <1>2, <1>3, <1>5, <3>2, <4>1, <4>2
      <4>3. CASE cmd.ops[i] \notin Stdin
        BY <1>5, <1>7, <2>2, <4>1, <4>3
      <4>. QED
        BY <4>2, <4>3
    <3>3. CASE cmd.ops[i] \notin Stdin /\ cmd.ops[j] \notin Stdin
      <4>1. PICK b \in Bases :
              /\ Source(i) = <<b, IF Compressing THEN "" ELSE ".Z">>
              /\ Target(i) = <<b, IF Compressing THEN ".Z" ELSE "">>
        BY <1>5, <2>2, <3>3
      <4>2. PICK c \in Bases :
              /\ Source(j) = <<c, IF Compressing THEN "" ELSE ".Z">>
              /\ Target(j) = <<c, IF Compressing THEN ".Z" ELSE "">>
        BY <1>5, <2>2, <3>3
      <4>3. /\ <<b, "">> # <<c, ".Z">> /\ <<b, ".Z">> # <<c, "">>
            /\ <<b, "">> = <<c, "">> <=> b = c
            /\ <<b, ".Z">> = <<c, ".Z">> <=> b = c
        OBVIOUS
      <4>. QED
        <5>1. CASE Compressing
          <6>1. Source(i) = <<b, "">> /\ Target(i) = <<b, ".Z">>
            BY <4>1, <5>1
          <6>2. Source(j) = <<c, "">> /\ Target(j) = <<c, ".Z">>
            BY <4>2, <5>1
          <6>. QED
            BY <4>3, <6>1, <6>2
        <5>2. CASE ~Compressing
          <6>1. Source(i) = <<b, ".Z">> /\ Target(i) = <<b, "">>
            BY <4>1, <5>2
          <6>2. Source(j) = <<c, ".Z">> /\ Target(j) = <<c, "">>
            BY <4>2, <5>2
          <6>. QED
            BY <4>3, <6>1, <6>2
        <5>. QED
          BY <5>1, <5>2
    <3>. QED
      BY <3>1, <3>2, <3>3
  <2>. QED
    BY <2>1, <2>2
<1>. QED
  BY <1>1, <1>4, <1>5, <1>6

(* Changing the file at one path leaves those at the others.               *)
LEMMA PutFacts ==
  ASSUME file \in [Paths -> Files \cup {NONE}], NEW p \in Paths,
         NEW f \in Files \cup {NONE}, Put(p, f)
  PROVE  /\ file' \in [Paths -> Files \cup {NONE}] /\ file'[p] = f
         /\ \A q \in Paths \ {p} : file'[q] = file[q]
BY DEF Put

(* What the calls make of a file.                                          *)
LEMMA CreatedFacts ==
  ASSUME NEW form \in {"plain", "Z"}
  PROVE  /\ Created(form) \in Files /\ Created(form).data = <<>>
         /\ Created(form).form = form /\ Created(form).kind = "file"
         /\ Created(form).setid = FALSE
<1>. <<>> \in Seq(Blocks)
  OBVIOUS
<1>. QED
  BY DEF Files, Created

LEMMA TruncatedFacts ==
  ASSUME NEW f \in Files, NEW form \in {"plain", "Z"}
  PROVE  /\ Truncated(f, form) \in Files /\ Truncated(f, form).data = <<>>
         /\ Truncated(f, form).form = form /\ Truncated(f, form).kind = f.kind
         /\ Truncated(f, form).own = f.own /\ Truncated(f, form).setid = f.setid
<1>. <<>> \in Seq(Blocks)
  OBVIOUS
<1>. QED
  BY DEF Files, Truncated

LEMMA GarbledFacts ==
  ASSUME NEW f \in Files
  PROVE  /\ Garbled(f) \in Files /\ Garbled(f).kind = f.kind
         /\ Garbled(f).own = f.own /\ Garbled(f).setid = f.setid
BY DEF Files, Garbled

LEMMA ExtendedFacts ==
  ASSUME NEW f \in Files, NEW data \in Seq(Blocks)
  PROVE  /\ Extended(f, data) \in Files /\ Extended(f, data).data = f.data \o data
         /\ Extended(f, data).form = f.form /\ Extended(f, data).kind = f.kind
         /\ Extended(f, data).own = f.own /\ Extended(f, data).setid = f.setid
<1>. f.data \o data \in Seq(Blocks)
  BY DEF Files
<1>. QED
  BY DEF Files, Extended

LEMMA OwnedFacts ==
  ASSUME NEW f \in Files, NEW own \in {"user", "other"}
  PROVE  /\ Owned(f, own) \in Files /\ Owned(f, own).data = f.data
         /\ Owned(f, own).form = f.form /\ Owned(f, own).kind = f.kind
         /\ Owned(f, own).own = own /\ Owned(f, own).setid = FALSE
BY DEF Files, Owned

LEMMA ModedFacts ==
  ASSUME NEW f \in Files, NEW setid \in BOOLEAN
  PROVE  /\ Moded(f, setid) \in Files /\ Moded(f, setid).data = f.data
         /\ Moded(f, setid).form = f.form /\ Moded(f, setid).kind = f.kind
         /\ Moded(f, setid).own = f.own /\ Moded(f, setid).setid = setid
BY DEF Files, Moded

-----------------------------------------------------------------------------
(* Type correctness.                                                       *)
LEMMA InitType == Init => TypeInv
<1>. SUFFICES ASSUME Init PROVE TypeInv
  OBVIOUS
<1>1. cmd \in CommandLines
  BY CompressAssumption DEF Init
<1>2. Len(cmd.ops) \in Nat /\ <<>> \in Seq(Blocks)
  BY <1>1 DEF CommandLines
<1>3. file \in [Paths -> Files \cup {NONE}]
  BY CompressAssumption DEF Init
<1>4. st \in [own : {"user", "other"}, setid : BOOLEAN]
  BY DEF Init
<1>5. TypeOK
  <2>1. /\ idx \in 1..(Len(cmd.ops) + 1) /\ eval \in 0..2 /\ nr \in {-1, 0, 1} /\ pos \in Nat
        /\ faults \in 0..MaxFaults
    BY <1>2, CompressAssumption DEF Init
  <2>2. /\ cmd \in Commands /\ isreg \in BOOLEAN /\ oreg \in BOOLEAN /\ buf \in Seq(Blocks)
        /\ {rd, wr} \subseteq {"closed", "open", "freed"}
        /\ pc \in Busy \cup {"operand", "done", "crashed"}
        /\ leaked \cup unreadable \cup kept \subseteq Paths /\ declined \subseteq 1..Len(cmd.ops)
    BY <1>2 DEF Init
  <2>. QED
    BY <1>3, <1>4, <2>1, <2>2 DEF Init, TypeOK
<1>6. StreamInv
  BY DEF Init, StreamInv, Busy, Writing, Closing
<1>. QED
  BY <1>5, <1>6 DEF TypeInv

(* The names that other definitions take from the command line stay.       *)
LEMMA SameCmd ==
  ASSUME UNCHANGED cmd
  PROVE  /\ Compressing' = Compressing /\ OutForm' = OutForm
         /\ \A i : Source(i)' = Source(i) /\ Target(i)' = Target(i)
         /\ idx' = idx => In' = In /\ Out' = Out
<1>1. Compressing' = Compressing /\ OutForm' = OutForm
  BY DEF Compressing, OutForm
<1>2. ASSUME NEW i PROVE Source(i)' = Source(i) /\ Target(i)' = Target(i)
  BY <1>1 DEF Source, Target
<1>3. idx' = idx => In' = In /\ Out' = Out
  BY <1>1 DEF In, Out, Source, Target
<1>. QED
  BY <1>1, <1>2, <1>3

LEMMA StepKeepsCmd == [Next]_vars => UNCHANGED cmd
BY
  DEF Next, Step, Done, vars, RefuseOperand, StartOperand, PermissionGiven,
    PermissionDenied, OpenInput, OpenInputFails, StatInput, StatInputFails,
    FirstRead, OpenOutputFails, FirstWrite, CopyBlock, WriteFails, ReadEnds,
    ReadFails, CloseInput, StatOutput, StatOutputFails, SetTimes, Exit,
    OpenOutput, FirstWriteFails, FlushBuffer, CloseOutput, WouldGrow, SetOwner,
    SetMode, RemoveInput, CleanUp

LEMMA NextType == TypeInv /\ [Next]_vars => TypeInv'
<1>. SUFFICES ASSUME TypeInv, [Next]_vars PROVE TypeInv'
  OBVIOUS
<1>. USE
  DEF NextOperand, Goto, CloseAll, Warn, Works, Fault, hist, streams, Busy,
    Writing, Closing
<1>0. /\ TypeOK /\ StreamInv /\ UNCHANGED cmd
      /\ Len(cmd.ops) \in Nat /\ DOMAIN cmd.ops = 1..Len(cmd.ops) /\ MaxFaults \in Nat
      /\ pc \in Busy => In \in Paths /\ Out \in Paths
      /\ pc \in Busy => In # Out /\ (Exists(In) => file[In] \in Files)
                      /\ (Exists(Out) => file[Out] \in Files)
      /\ idx' = idx => Out' = Out /\ In' = In
      /\ OutForm \in {"plain", "Z"} /\ \A p \in Paths : NONE # file[p] => file[p] \in Files
  <2>1. TypeOK /\ StreamInv /\ UNCHANGED cmd
    BY StepKeepsCmd DEF TypeInv
  <2>. QED
    BY <2>1, PathFacts, SameCmd, CompressAssumption
      DEF In, Out, StreamInv, Exists, OutForm, TypeOK
<1>1. CASE RefuseOperand
  BY <1>0, <1>1 DEF RefuseOperand, TypeInv, TypeOK, StreamInv, Exists
<1>2. CASE StartOperand
  BY <1>0, <1>2 DEF StartOperand, TypeInv, TypeOK, StreamInv, Exists
<1>3. CASE PermissionGiven
  BY <1>0, <1>3 DEF PermissionGiven, TypeInv, TypeOK, StreamInv, Exists
<1>4. CASE PermissionDenied
  BY <1>0, <1>4 DEF PermissionDenied, TypeInv, TypeOK, StreamInv, Exists
<1>5. CASE OpenInput
  BY <1>0, <1>5 DEF OpenInput, TypeInv, TypeOK, StreamInv, Exists
<1>6. CASE OpenInputFails
  BY <1>0, <1>6 DEF OpenInputFails, TypeInv, TypeOK, StreamInv, Exists
<1>7. CASE StatInput
  <2>1. st' \in [own : {"user", "other"}, setid : BOOLEAN]
    <3>1. file[In] \in Files
      BY <1>0, <1>7 DEF StatInput
    <3>. QED
      BY <1>7, <3>1 DEF StatInput, Files
  <2>2. isreg' \in BOOLEAN
    BY <1>0, <1>7 DEF StatInput, TypeOK
  <2>. QED
    BY <1>0, <1>7, <2>1, <2>2 DEF StatInput, TypeInv, TypeOK, StreamInv, Exists
<1>8. CASE StatInputFails
  BY <1>0, <1>8 DEF StatInputFails, TypeInv, TypeOK, StreamInv, Exists
<1>9. CASE FirstRead
  <2>1. pc = "first" /\ In \in Paths /\ idx \in DOMAIN cmd.ops
    BY <1>0, <1>9 DEF FirstRead, StreamInv
  <2>2. /\ idx' \in 1..(Len(cmd.ops) + 1) /\ eval' \in 0..2 /\ nr' \in {-1, 0, 1} /\ pos' \in Nat
        /\ {rd', wr'} \subseteq {"closed", "open", "freed"} /\ faults' \in 0..MaxFaults
    <3>1. /\ idx \in 1..(Len(cmd.ops) + 1) /\ eval \in 0..2 /\ nr \in {-1, 0, 1} /\ pos \in Nat
          /\ {rd, wr} \subseteq {"closed", "open", "freed"} /\ faults \in 0..MaxFaults
      BY <1>0 DEF TypeOK
    <3>2. idx' \in 1..(Len(cmd.ops) + 1)
      <4>1. idx' = idx \/ idx' = idx + 1
        BY <1>9 DEF FirstRead
      <4>. QED
        BY <1>0, <2>1, <3>1, <4>1
    <3>3. eval' \in 0..2 /\ nr' \in {-1, 0, 1} /\ pos' \in Nat
      <4>1. (eval' = eval \/ eval' = 1) /\ (nr' = nr \/ nr' = 1 \/ nr' = -1) /\ (pos' = pos \/ pos' = 1)
        BY <1>9 DEF FirstRead
      <4>. QED
        BY <3>1, <4>1
    <3>4. {rd', wr'} \subseteq {"closed", "open", "freed"}
      <4>1. (rd' = rd \/ rd' = "closed") /\ wr' = wr
        BY <1>9 DEF FirstRead
      <4>. QED
        BY <3>1, <4>1
    <3>5. faults' \in 0..MaxFaults
      <4>1. Works \/ Fault
        BY <1>9 DEF FirstRead
      <4>. QED
        BY <1>0, <3>1, <4>1 DEF Works, Fault
    <3>. QED
      BY <3>2, <3>3, <3>4, <3>5
  <2>3. /\ unreadable' \subseteq Paths /\ pc' \in {"open_out", "operand"}
        /\ pc' = "operand" => rd' = "closed" /\ wr' = "closed"
    BY <1>0, <1>9, <2>1 DEF FirstRead, TypeOK, StreamInv
  <2>4. UNCHANGED <<cmd, file, isreg, oreg, buf, st, leaked, kept, declined>>
    BY <1>9 DEF FirstRead
  <2>5. /\ cmd' \in Commands /\ file' \in [Paths -> Files \cup {NONE}]
        /\ isreg' \in BOOLEAN /\ oreg' \in BOOLEAN /\ buf' \in Seq(Blocks)
        /\ st' \in [own : {"user", "other"}, setid : BOOLEAN]
    BY <1>0, <2>4 DEF TypeOK
  <2>6. /\ leaked' \cup unreadable' \cup kept' \subseteq Paths /\ declined' \subseteq 1..Len(cmd'.ops)
        /\ idx' \in 1..(Len(cmd'.ops) + 1)
    BY <1>0, <2>2, <2>3, <2>4 DEF TypeOK
  <2>7. pc' \in Busy \cup {"operand", "done", "crashed"} /\ pc' # "done"
    BY <2>3
  <2>8. TypeOK'
    BY <2>2, <2>3, <2>5, <2>6, <2>7 DEF TypeOK
  <2>9. StreamInv'
    <3>1. CASE pc' = "operand"
      BY <1>0, <2>3, <3>1 DEF StreamInv
    <3>2. CASE pc' = "open_out"
      <4>1. UNCHANGED <<idx, wr>> /\ (nr' = 1 => file[In].data # <<>>)
        BY <1>9, <3>2 DEF FirstRead
      <4>. QED
        BY <1>0, <1>9, <2>1, <2>4, <3>2, <4>1 DEF StreamInv, Exists
    <3>. QED
      BY <2>3, <3>1, <3>2
  <2>. QED
    BY <2>8, <2>9 DEF TypeInv
<1>10. CASE OpenOutputFails
  BY <1>0, <1>10 DEF OpenOutputFails, TypeInv, TypeOK, StreamInv, Exists
<1>11. CASE FirstWrite
  <2>1. file[In].data \in Seq(Blocks)
    <3>1. file[In] \in Files
      BY <1>0, <1>11 DEF FirstWrite, StreamInv
    <3>. QED
      BY <3>1 DEF Files
  <2>2. buf' \in Seq(Blocks)
    BY <1>0, <1>11, <2>1 DEF FirstWrite, TypeOK, StreamInv
  <2>. QED
    BY <1>0, <1>11, <2>2 DEF FirstWrite, TypeInv, TypeOK, StreamInv, Exists
<1>12. CASE CopyBlock
  <2>1. file[In].data \in Seq(Blocks)
    <3>1. file[In] \in Files
      BY <1>0, <1>12 DEF CopyBlock, StreamInv
    <3>. QED
      BY <3>1 DEF Files
  <2>2. buf' \in Seq(Blocks)
    BY <1>0, <1>12, <2>1 DEF CopyBlock, TypeOK, StreamInv
  <2>. QED
    BY <1>0, <1>12, <2>2 DEF CopyBlock, TypeInv, TypeOK, StreamInv, Exists
<1>13. CASE WriteFails
  BY <1>0, <1>13 DEF WriteFails, TypeInv, TypeOK, StreamInv, Exists
<1>14. CASE ReadEnds
  BY <1>0, <1>14 DEF ReadEnds, TypeInv, TypeOK, StreamInv, Exists
<1>15. CASE ReadFails
  BY <1>0, <1>15 DEF ReadFails, TypeInv, TypeOK, StreamInv, Exists
<1>16. CASE CloseInput
  BY <1>0, <1>16 DEF CloseInput, TypeInv, TypeOK, StreamInv, Exists
<1>17. CASE StatOutput
  BY <1>0, <1>17 DEF StatOutput, TypeInv, TypeOK, StreamInv, Exists
<1>18. CASE StatOutputFails
  BY <1>0, <1>18 DEF StatOutputFails, TypeInv, TypeOK, StreamInv, Exists
<1>19. CASE SetTimes
  BY <1>0, <1>19 DEF SetTimes, TypeInv, TypeOK, StreamInv, Exists
<1>20. CASE Exit
  BY <1>0, <1>20 DEF Exit, TypeInv, TypeOK, StreamInv, Exists
<1>21. CASE OpenOutput
  <2>. DEFINE f == IF Exists(Out) THEN Truncated(file[Out], OutForm) ELSE Created(OutForm)
  <2>1. f \in Files /\ f # NONE /\ pc = "open_out" /\ Out \in Paths /\ UNCHANGED idx /\ In # Out
    BY <1>0, <1>21, TruncatedFacts, CreatedFacts, CompressAssumption
      DEF OpenOutput
  <2>. HIDE DEF f
  <2>2. Put(Out, f)
    BY <1>21 DEF OpenOutput, f
  <2>3. file' \in [Paths -> Files \cup {NONE}] /\ file'[Out] = f /\ file'[In] = file[In]
    BY <1>0, <2>1, <2>2, PutFacts DEF TypeOK
  <2>. QED
    BY <1>0, <1>21, <2>1, <2>3
      DEF OpenOutput, TypeInv, TypeOK, StreamInv, Exists
<1>22. CASE FirstWriteFails
  <2>3. ASSUME file' \in [Paths -> Files \cup {NONE}] PROVE TypeInv'
    <3>1. /\ pc = "first_write" /\ idx \in DOMAIN cmd.ops /\ Out \in Paths
          /\ UNCHANGED <<cmd, isreg, oreg, st, unreadable, kept, declined>>
          /\ leaked' = leaked \cup {Out}
      BY <1>0, <1>22 DEF FirstWriteFails, StreamInv
    <3>2. /\ cmd' \in Commands /\ isreg' \in BOOLEAN /\ oreg' \in BOOLEAN
          /\ st' \in [own : {"user", "other"}, setid : BOOLEAN]
          /\ leaked' \cup unreadable' \cup kept' \subseteq Paths /\ declined' \subseteq 1..Len(cmd'.ops)
      BY <1>0, <3>1 DEF TypeOK
    <3>3. /\ idx' \in 1..(Len(cmd.ops) + 1) /\ eval' \in 0..2 /\ nr' \in {-1, 0, 1} /\ pos' \in Nat
          /\ buf' \in Seq(Blocks)
          /\ {rd', wr'} \subseteq {"closed", "open", "freed"} /\ faults' \in 0..MaxFaults
      <4>1. /\ idx \in 1..(Len(cmd.ops) + 1) /\ eval \in 0..2 /\ nr \in {-1, 0, 1} /\ pos \in Nat
            /\ buf \in Seq(Blocks)
            /\ {rd, wr} \subseteq {"closed", "open", "freed"} /\ faults \in 0..MaxFaults
        BY <1>0 DEF TypeOK
      <4>2. idx' \in 1..(Len(cmd.ops) + 1)
        <5>1. idx' = idx \/ idx' = idx + 1
          BY <1>22 DEF FirstWriteFails
        <5>. QED
          BY <1>0, <3>1, <4>1, <5>1
      <4>3. /\ eval' \in 0..2 /\ nr' \in {-1, 0, 1} /\ pos' \in Nat /\ buf' \in Seq(Blocks)
            /\ {rd', wr'} \subseteq {"closed", "open", "freed"}
        <5>1. /\ eval' = eval \/ eval' = 1
              /\ UNCHANGED <<nr, pos, buf>>
              /\ rd' = rd \/ rd' = "closed"
              /\ wr' = wr \/ wr' = "closed"
          BY <1>22 DEF FirstWriteFails
        <5>. QED
          BY <4>1, <5>1
      <4>4. faults' \in 0..MaxFaults
        <5>1. Works \/ Fault
          BY <1>22 DEF FirstWriteFails
        <5>. QED
          BY <1>0, <4>1, <5>1 DEF Works, Fault
      <4>. QED
        BY <4>2, <4>3, <4>4
    <3>4. \/ pc' = "operand" /\ rd' = "closed" /\ wr' = "closed"
          \/ pc' = "crashed"
      BY <1>22 DEF FirstWriteFails
    <3>5. TypeOK'
      BY <2>3, <3>1, <3>2, <3>3, <3>4 DEF TypeOK
    <3>6. StreamInv'
      BY <3>4 DEF StreamInv
    <3>. QED
      BY <3>5, <3>6 DEF TypeInv
  <2>1. CASE UNCHANGED file
    <3>1. file' \in [Paths -> Files \cup {NONE}]
      BY <1>0, <2>1 DEF TypeOK
    <3>. QED
      BY <2>3, <3>1
  <2>2. CASE Put(Out, Garbled(file[Out]))
    <3>1. /\ Garbled(file[Out]) \in Files /\ pc = "first_write" /\ Out \in Paths
          /\ file' \in [Paths -> Files \cup {NONE}]
      BY <1>0, <1>22, <2>2, GarbledFacts, PutFacts
        DEF FirstWriteFails, StreamInv, TypeOK
    <3>. QED
      BY <2>3, <3>1
  <2>. QED
    BY <1>22, <2>1, <2>2 DEF FirstWriteFails
(* what the steps below make of the output is there as long as the output  *)
<1>50. ASSUME pc \in Busy, Exists(Out), NEW f \in Files, Put(Out, f)
       PROVE  /\ file' \in [Paths -> Files \cup {NONE}] /\ file'[Out] # NONE
              /\ file'[In] = file[In]
  BY <1>0, <1>50, PutFacts, CompressAssumption DEF TypeOK
<1>51. Exists(Out) /\ pc \in Busy => Flushed \in Files
  BY <1>0, ExtendedFacts DEF TypeOK, Flushed
<1>52. ASSUME pc \in Busy, Unlink(Out)
       PROVE  file' \in [Paths -> Files \cup {NONE}] /\ file'[In] = file[In]
  BY <1>0, <1>52, PutFacts DEF TypeOK, Unlink
<1>23. CASE FlushBuffer
  <2>1. /\ pc = "copy" /\ <<>> \in Seq(Blocks) /\ buf' = <<>>
        /\ file' \in [Paths -> Files \cup {NONE}] /\ file'[Out] # NONE /\ file'[In] = file[In]
    BY <1>0, <1>23, <1>50, <1>51 DEF FlushBuffer, StreamInv
  <2>. QED
    BY <1>0, <1>23, <2>1 DEF FlushBuffer, TypeInv, TypeOK, StreamInv, Exists
<1>24. CASE CloseOutput
  <2>0. pc = "close_out" /\ <<>> \in Seq(Blocks) /\ buf' = <<>>
    BY <1>24 DEF CloseOutput
  <2>1. CASE UNCHANGED file
    <3>8. TypeOK'
      BY <1>0, <1>24, <2>0, <2>1 DEF CloseOutput, TypeOK, StreamInv, Exists
    <3>9. StreamInv'
      BY <1>0, <1>24, <2>0, <2>1 DEF CloseOutput, TypeOK, StreamInv, Exists
    <3>. QED
      BY <3>8, <3>9 DEF TypeInv
  <2>2. CASE Put(Out, Flushed)
    <3>1. /\ file' \in [Paths -> Files \cup {NONE}] /\ file'[Out] # NONE /\ file'[In] = file[In]
      BY <1>0, <1>50, <1>51, <2>0, <2>2 DEF StreamInv
    <3>. QED
      <4>8. TypeOK'
        BY <1>0, <1>24, <2>0, <3>1 DEF CloseOutput, TypeOK, StreamInv, Exists
      <4>9. StreamInv'
        BY <1>0, <1>24, <2>0, <3>1 DEF CloseOutput, TypeOK, StreamInv, Exists
      <4>. QED
        BY <4>8, <4>9 DEF TypeInv
  <2>. QED
    BY <1>24, <2>1, <2>2 DEF CloseOutput
<1>25. CASE WouldGrow
  <2>1. pc = "stat_out" /\ file' \in [Paths -> Files \cup {NONE}]
    BY <1>0, <1>25, <1>52 DEF WouldGrow, TypeOK
  <2>. QED
    BY <1>0, <1>25, <2>1 DEF WouldGrow, TypeInv, TypeOK, StreamInv, Exists
<1>26. CASE SetOwner
  <2>1. pc = "chown" /\ st' \in [own : {"user", "other"}, setid : BOOLEAN]
    BY <1>0, <1>26 DEF SetOwner, TypeOK
  <2>2. CASE UNCHANGED file
    BY <1>0, <1>26, <2>1, <2>2 DEF SetOwner, TypeInv, TypeOK, StreamInv, Exists
  <2>3. CASE Put(Out, Owned(file[Out], st.own))
    <3>1. Owned(file[Out], st.own) \in Files
      BY <1>0, <2>1, OwnedFacts DEF TypeOK, StreamInv
    <3>2. /\ file' \in [Paths -> Files \cup {NONE}] /\ file'[Out] # NONE /\ file'[In] = file[In]
      BY <1>0, <1>50, <2>1, <2>3, <3>1 DEF StreamInv
    <3>. QED
      BY <1>0, <1>26, <2>1, <3>2
        DEF SetOwner, TypeInv, TypeOK, StreamInv, Exists
  <2>. QED
    BY <1>26, <2>2, <2>3 DEF SetOwner
<1>27. CASE SetMode
  <2>2. CASE UNCHANGED file
    BY <1>0, <1>27, <2>2 DEF SetMode, TypeInv, TypeOK, StreamInv, Exists
  <2>3. CASE Put(Out, Moded(file[Out], st.setid))
    <3>1. Moded(file[Out], st.setid) \in Files /\ pc = "chmod"
      BY <1>0, <1>27, ModedFacts DEF TypeOK, StreamInv, SetMode
    <3>2. /\ file' \in [Paths -> Files \cup {NONE}] /\ file'[Out] # NONE /\ file'[In] = file[In]
      BY <1>0, <1>50, <2>3, <3>1 DEF StreamInv
    <3>. QED
      BY <1>0, <1>27, <3>1, <3>2
        DEF SetMode, TypeInv, TypeOK, StreamInv, Exists
  <2>. QED
    BY <1>27, <2>2, <2>3 DEF SetMode
<1>28. CASE RemoveInput
  <2>1. pc = "unlink_in" /\ file' \in [Paths -> Files \cup {NONE}]
    BY <1>0, <1>28, PutFacts DEF RemoveInput, TypeOK, Unlink
  <2>. QED
    BY <1>0, <1>28, <2>1 DEF RemoveInput, TypeInv, TypeOK, StreamInv, Exists
<1>29. CASE CleanUp
  <2>0. pc = "err"
    BY <1>29 DEF CleanUp
  <2>4. Out \in Paths /\ idx \in DOMAIN cmd.ops
    BY <1>0, <2>0 DEF StreamInv
  <2>5. /\ idx' \in 1..(Len(cmd.ops) + 1) /\ faults' \in 0..MaxFaults /\ kept' \subseteq Paths
        /\ pc' \in {"operand", "crashed"}
    BY <1>0, <1>29, <2>4 DEF CleanUp, TypeOK
  <2>6. /\ {rd', wr'} \subseteq {"closed", "open", "freed"}
        /\ pc' = "operand" => rd' = "closed" /\ wr' = "closed"
    BY <1>0, <1>29 DEF CleanUp, TypeOK
  <2>7. ASSUME file' \in [Paths -> Files \cup {NONE}] PROVE TypeOK'
    BY <1>0, <1>29, <2>5, <2>6, <2>7 DEF CleanUp, TypeOK
  <2>1. CASE UNCHANGED file
    <3>8. TypeOK'
      BY <1>0, <2>1, <2>7 DEF TypeOK
    <3>9. StreamInv'
      BY <1>0, <1>29, <2>1 DEF CleanUp, TypeOK, StreamInv, Exists, Removing
    <3>. QED
      BY <3>8, <3>9 DEF TypeInv
  <2>2. CASE wr = "open" /\ Put(Out, Flushed)
    <3>1. /\ file' \in [Paths -> Files \cup {NONE}] /\ file'[Out] # NONE /\ file'[In] = file[In]
      BY <1>0, <1>50, <1>51, <2>0, <2>2 DEF StreamInv
    <3>. QED
      <4>8. TypeOK'
        BY <1>0, <1>29, <3>1 DEF CleanUp, TypeOK, StreamInv, Exists
      <4>9. StreamInv'
        BY <1>0, <1>29, <3>1 DEF CleanUp, TypeOK, StreamInv, Exists
      <4>. QED
        BY <4>8, <4>9 DEF TypeInv
  <2>3. CASE Unlink(Out)
    <3>1. file' \in [Paths -> Files \cup {NONE}]
      BY <1>0, <1>52, <2>0, <2>3
    <3>2. StreamInv'
      BY <1>0, <1>29, <3>1 DEF CleanUp, TypeOK, StreamInv, Exists
    <3>. QED
      BY <2>7, <3>1, <3>2 DEF TypeInv
  <2>. QED
    BY <1>29, <2>1, <2>2, <2>3 DEF CleanUp
<1>30. CASE UNCHANGED vars
  BY <1>0, <1>30 DEF vars, TypeInv, TypeOK, StreamInv, Exists
<1>. QED
  BY <1>1, <1>2, <1>3, <1>4, <1>5, <1>6, <1>7, <1>8, <1>9, <1>10, <1>11, <1>12,
    <1>13, <1>14, <1>15, <1>16, <1>17, <1>18, <1>19, <1>20, <1>21, <1>22,
    <1>23, <1>24, <1>25, <1>26, <1>27, <1>28, <1>29, <1>30
    DEF Next, Step, Done

LEMMA TypeInvariant == Spec => []TypeInv
BY InitType, NextType, PTL DEF Spec

(* Every reachable state is well typed, and between two operands neither   *)
(* stream is open, whichever call failed.                                  *)
THEOREM TypeCorrect == Spec => []TypeOK
BY TypeInvariant, PTL DEF TypeInv

-----------------------------------------------------------------------------
(* Files: a step changes the input only by removing it and otherwise only  *)
(* the output, which keeps its kind.                                       *)
AtOperand ==
  pc \in Busy => /\ idx \in DOMAIN cmd.ops /\ In \in Paths /\ Out \in Paths /\ In # Out
                 /\ In \notin Stdout
LEMMA OperandFacts ==
  ASSUME TypeInv
  PROVE  /\ AtOperand
         /\ \A p \in Paths : Exists(p) => file[p] \in Files
         /\ OutForm \in {"plain", "Z"} /\ NONE \notin Files
  BY PathFacts, CompressAssumption
  DEF TypeInv, TypeOK, StreamInv, In, Out, AtOperand, Exists, OutForm

Rewrites(f) ==  \* data and form
  /\ pc \in Writing \cup {"err"} /\ Exists(Out)
  /\ f.kind = file[Out].kind /\ f.own = file[Out].own /\ f.setid = file[Out].setid
LEMMA StepFiles ==
  ASSUME TypeInv, Step
  PROVE  \/ UNCHANGED file
         \/ RemoveInput /\ pc = "unlink_in" /\ Removable(In) /\ Unlink(In)
         \/ /\ WouldGrow \/ (CleanUp /\ Removing)
            /\ pc \in {"stat_out", "err"} /\ Removable(Out) /\ Unlink(Out)
         \/ OpenOutput
         \/ \E f \in Files : Rewrites(f) /\ Put(Out, f)
         \/ SetOwner /\ pc = "chown" /\ Exists(Out) /\ Put(Out, Owned(file[Out], st.own))
         \/ SetMode /\ pc = "chmod" /\ Exists(Out) /\ Put(Out, Moded(file[Out], st.setid))
<1>. USE DEF Writing, Closing, Busy
<1>1. /\ pc \in Busy /\ Exists(Out) => file[Out] \in Files
      /\ pc \in Writing \cup Closing => Exists(Out)
      /\ pc = "err" /\ wr # "closed" => Exists(Out)
      /\ buf \in Seq(Blocks)
  BY OperandFacts DEF TypeInv, TypeOK, StreamInv, AtOperand
<1>2. CASE FirstWriteFails
  <2>1. Rewrites(Garbled(file[Out])) /\ Garbled(file[Out]) \in Files
    BY <1>1, <1>2, GarbledFacts DEF Rewrites, FirstWriteFails
  <2>. QED
    BY <1>2, <2>1 DEF FirstWriteFails
<1>3. CASE FlushBuffer \/ CloseOutput \/ (CleanUp /\ wr = "open")
  <2>1. Rewrites(Flushed) /\ Flushed \in Files
    BY <1>1, <1>3, ExtendedFacts
      DEF Rewrites, FlushBuffer, CloseOutput, CleanUp, Flushed
  <2>. QED
    BY <1>3, <2>1 DEF FlushBuffer, CloseOutput, CleanUp, Removing
<1>4. CASE SetOwner
  BY <1>1, <1>4 DEF SetOwner
<1>5. CASE SetMode
  BY <1>1, <1>5 DEF SetMode
<1>6. CASE WouldGrow \/ RemoveInput \/ (CleanUp /\ wr # "open")
  BY <1>6 DEF WouldGrow, RemoveInput, CleanUp
<1>. QED
  BY <1>2, <1>3, <1>4, <1>5, <1>6
    DEF Step, RefuseOperand, StartOperand, PermissionGiven, PermissionDenied,
      OpenInput, OpenInputFails, StatInput, StatInputFails, FirstRead,
      OpenOutputFails, FirstWrite, CopyBlock, WriteFails, ReadEnds, ReadFails,
      CloseInput, StatOutput, StatOutputFails, SetTimes, Exit, OpenOutput,
      FirstWriteFails, FlushBuffer, CloseOutput, WouldGrow, SetOwner, SetMode,
      RemoveInput, CleanUp

(* The kinds of file, and what stays.                                      *)
LEMMA StepKinds ==
  ASSUME TypeInv, Step
  PROVE  /\ \A p \in Paths : p # In /\ p # Out => file'[p] = file[p]
         /\ pc \notin Busy => UNCHANGED file
         /\ pc \in Busy => \/ file'[In] = file[In]
                           \/ RemoveInput /\ Removable(In) /\ file'[In] = NONE
         /\ pc \in Busy /\ Exists(Out) /\ file'[Out] # NONE => file'[Out].kind = file[Out].kind
         /\ pc \in Busy /\ ~Exists(Out) => file'[Out] = NONE \/ file'[Out].kind = "file"
         /\ pc \in Busy /\ Exists(Out) /\ file'[Out] = NONE =>
              Removable(Out) /\ (WouldGrow \/ (CleanUp /\ Removing))
<1>. USE DEF Writing, Closing, Busy
<1>0. /\ AtOperand /\ file \in [Paths -> Files \cup {NONE}]
      /\ pc \in Busy /\ Exists(Out) => file[Out] \in Files
      /\ OutForm \in {"plain", "Z"} /\ NONE \notin Files
      /\ st \in [own : {"user", "other"}, setid : BOOLEAN]
  BY OperandFacts DEF TypeInv, TypeOK, AtOperand
<1>1. CASE UNCHANGED file
  BY <1>0, <1>1 DEF Exists
<1>2. CASE RemoveInput /\ pc = "unlink_in" /\ Removable(In) /\ Unlink(In)
  BY <1>0, <1>2, PutFacts DEF Unlink, AtOperand, Exists
<1>3. CASE /\ WouldGrow \/ (CleanUp /\ Removing)
           /\ pc \in {"stat_out", "err"} /\ Removable(Out) /\ Unlink(Out)
  BY <1>0, <1>3, PutFacts DEF Unlink, AtOperand, Exists
<1>4. ASSUME pc \in Busy, NEW f \in Files, Put(Out, f),
             f.kind = IF Exists(Out) THEN file[Out].kind ELSE "file"
      PROVE  /\ \A p \in Paths : p # In /\ p # Out => file'[p] = file[p]
             /\ file'[In] = file[In] /\ file'[Out] # NONE
             /\ Exists(Out) => file'[Out].kind = file[Out].kind
             /\ ~Exists(Out) => file'[Out].kind = "file"
  BY <1>0, <1>4, PutFacts DEF AtOperand
<1>5. CASE OpenOutput
  <2>. DEFINE f == IF Exists(Out) THEN Truncated(file[Out], OutForm) ELSE Created(OutForm)
  <2>1. f \in Files /\ f.kind = IF Exists(Out) THEN file[Out].kind ELSE "file"
    BY <1>0, <1>5, TruncatedFacts, CreatedFacts DEF OpenOutput
  <2>2. Put(Out, f) /\ pc \in Busy
    BY <1>5 DEF OpenOutput
  <2>. HIDE DEF f
  <2>. QED
    BY <1>4, <2>1, <2>2
<1>6. CASE \E f \in Files : Rewrites(f) /\ Put(Out, f)
  BY <1>4, <1>6 DEF Rewrites
<1>7. CASE SetOwner /\ pc = "chown" /\ Exists(Out) /\ Put(Out, Owned(file[Out], st.own))
  BY <1>0, <1>4, <1>7, OwnedFacts
<1>8. CASE SetMode /\ pc = "chmod" /\ Exists(Out) /\ Put(Out, Moded(file[Out], st.setid))
  BY <1>0, <1>4, <1>8, ModedFacts
<1>. QED
  BY <1>1, <1>2, <1>3, <1>5, <1>6, <1>7, <1>8, StepFiles

-----------------------------------------------------------------------------
(* Set-ID bits.  One is set only by the chmod() after the chown() that     *)
(* made its owner the one it was granted to.                               *)
LEMMA InitSetid == Init => SetidInv
<1>1. \A p \in Paths : Init => file[p] = StartFiles[p] /\ st.setid = FALSE /\ pc = "operand"
  BY DEF Init
<1>. QED
  BY <1>1 DEF Init, SetidInv, Granted, Exists

LEMMA NextSetid == TypeInv /\ SetidInv /\ [Next]_vars => SetidInv'
<1>. SUFFICES ASSUME TypeInv, SetidInv, [Next]_vars PROVE SetidInv'
  OBVIOUS
<1>. USE DEF Writing, Closing, Busy
<1>0. /\ AtOperand /\ file \in [Paths -> Files \cup {NONE}] /\ UNCHANGED cmd
      /\ \A p \in Paths : Exists(p) => file[p] \in Files
      /\ OutForm \in {"plain", "Z"} /\ NONE \notin Files
      /\ st.own \in {"user", "other"} /\ st.setid \in BOOLEAN
      /\ idx' = idx => Out' = Out
  BY OperandFacts, StepKeepsCmd, SameCmd DEF TypeInv, TypeOK
<1>1. \A own : Granted(own)' = Granted(own)
  BY DEF Granted
<1>2. \A p \in Paths : file[p] # NONE /\ file[p].setid => Granted(file[p].own)
  BY DEF SetidInv, Exists
<1>3. CASE UNCHANGED vars
  BY <1>0, <1>1, <1>3 DEF SetidInv, vars, Exists
<1>4. CASE Step
  <2>1. \A p \in Paths : file'[p] # NONE /\ file'[p].setid => Granted(file'[p].own)
    <3>1. CASE UNCHANGED file
      BY <1>2, <3>1 DEF Exists
    <3>2. CASE pc = "unlink_in" /\ Unlink(In)
      BY <1>0, <1>2, <3>2, PutFacts DEF Unlink, Exists, AtOperand
    <3>3. CASE pc \in {"stat_out", "err"} /\ Unlink(Out)
      BY <1>0, <1>2, <3>3, PutFacts DEF Unlink, Exists, AtOperand
    <3>4. ASSUME pc \in Busy, NEW f \in Files, Put(Out, f), f.setid => Granted(f.own)
          PROVE  \A p \in Paths : file'[p] # NONE /\ file'[p].setid => Granted(file'[p].own)
      <4>1. file'[Out] = f /\ \A p \in Paths \ {Out} : file'[p] = file[p]
        BY <1>0, <3>4, PutFacts DEF AtOperand
      <4>. QED
        BY <1>2, <3>4, <4>1
    <3>5. CASE OpenOutput
      <4>. DEFINE f == IF Exists(Out) THEN Truncated(file[Out], OutForm) ELSE Created(OutForm)
      <4>1. f \in Files /\ (f.setid => Granted(f.own))
        <5>1. CASE Exists(Out)
          BY <1>0, <3>5, <5>1, TruncatedFacts
            DEF OpenOutput, AtOperand, SetidInv
        <5>2. CASE ~Exists(Out)
          BY <1>0, <5>2, CreatedFacts
        <5>. QED
          BY <5>1, <5>2
      <4>2. Put(Out, f) /\ pc \in Busy
        BY <3>5 DEF OpenOutput
      <4>. HIDE DEF f
      <4>. QED
        BY <3>4, <4>1, <4>2
    <3>6. CASE \E f \in Files : Rewrites(f) /\ Put(Out, f)
      <4>. PICK f \in Files : Rewrites(f) /\ Put(Out, f)
        BY <3>6
      <4>1. pc \in Busy /\ (f.setid => Granted(f.own))
        BY <1>0 DEF Rewrites, SetidInv, AtOperand
      <4>. QED
        BY <3>4, <4>1
    <3>7. CASE pc = "chown" /\ Exists(Out) /\ Put(Out, Owned(file[Out], st.own))
      <4>. QED
        BY <1>0, <3>4, <3>7, OwnedFacts DEF AtOperand
    <3>8. CASE pc = "chmod" /\ Exists(Out) /\ Put(Out, Moded(file[Out], st.setid))
      <4>1. Moded(file[Out], st.setid) \in Files
        BY <1>0, <3>8, ModedFacts DEF AtOperand
      <4>2. st.setid => Granted(st.own) /\ file[Out].own = st.own
        BY <3>8 DEF SetidInv
      <4>3. Moded(file[Out], st.setid).setid => Granted(Moded(file[Out], st.setid).own)
        BY <1>0, <3>8, <4>2, ModedFacts DEF AtOperand
      <4>. QED
        BY <3>4, <3>8, <4>1, <4>3
    <3>. QED
      BY <1>4, <3>1, <3>2, <3>3, <3>5, <3>6, <3>7, <3>8, StepFiles
  <2>2. (st.setid => Granted(st.own))' /\ (pc = "chmod" /\ st.setid => file[Out].own = st.own)'
    <3>1. CASE StatInput
      <4>1. st'.own = file[In].own /\ st'.setid = file[In].setid /\ Exists(In) /\ pc' # "chmod"
        BY <3>1 DEF StatInput, Goto
      <4>2. In \in Paths
        BY <1>0, <3>1 DEF StatInput, AtOperand
      <4>. QED
        BY <1>1, <4>1, <4>2 DEF SetidInv
    <3>2. CASE SetOwner
      <4>1. pc = "chown" /\ UNCHANGED idx /\ Out \in Paths /\ Exists(Out)
        BY <1>0, <3>2 DEF SetOwner, Goto, AtOperand, TypeInv, StreamInv
      <4>2. CASE Put(Out, Owned(file[Out], st.own)) /\ UNCHANGED st
        <5>1. file'[Out].own = st.own
          <6>1. Owned(file[Out], st.own) \in Files /\ Owned(file[Out], st.own).own = st.own
            BY <1>0, <4>1, OwnedFacts
          <6>. QED
            BY <1>0, <4>1, <4>2, <6>1, PutFacts
        <5>. QED
          BY <1>0, <1>1, <4>1, <4>2, <5>1 DEF SetidInv
      <4>3. CASE st' = [st EXCEPT !.setid = FALSE]
        <5>1. st'.setid = FALSE
          BY <4>3 DEF TypeInv, TypeOK
        <5>. QED
          BY <5>1
      <4>. QED
        BY <3>2, <4>2, <4>3 DEF SetOwner
    <3>3. CASE ~StatInput /\ ~SetOwner
      <4>1. (UNCHANGED st /\ pc' # "chmod") \/ (UNCHANGED <<st, pc, idx, file>>)
        BY <1>4, <3>3
          DEF Step, NextOperand, Goto, RefuseOperand, StartOperand,
            PermissionGiven, PermissionDenied, OpenInput, OpenInputFails,
            StatInput, StatInputFails, FirstRead, OpenOutputFails, FirstWrite,
            CopyBlock, WriteFails, ReadEnds, ReadFails, CloseInput, StatOutput,
            StatOutputFails, SetTimes, Exit, OpenOutput, FirstWriteFails,
            FlushBuffer, CloseOutput, WouldGrow, SetOwner, SetMode,
            RemoveInput, CleanUp
      <4>. QED
        BY <1>0, <1>1, <4>1 DEF SetidInv
    <3>. QED
      BY <3>1, <3>2, <3>3
  <2>. QED
    BY <1>1, <2>1, <2>2 DEF SetidInv, Exists
<1>. QED
  BY <1>3, <1>4 DEF Next, Done

(* No output ever carries a set-ID bit under an owner it was not granted   *)
(* to, whatever chown() and chmod() return.                                *)
THEOREM SetidAlwaysGranted == Spec => []SetidOnlyForOwner
<1>2. SetidInv => SetidOnlyForOwner
  BY DEF SetidInv, SetidOnlyForOwner, Granted
<1>. QED
  BY InitSetid, NextSetid, TypeInvariant, <1>2, PTL DEF Spec

-----------------------------------------------------------------------------
(* What the files are, and what the flags say of them.                     *)
LEMMA InitFiles == Init => FilesInv
BY CompressAssumption
  DEF Init, FilesInv, Busy, Writing, Closing, Opened, Exists

LEMMA NextFiles == TypeInv /\ TypeInv' /\ FilesInv /\ [Next]_vars => FilesInv'
<1>. SUFFICES ASSUME TypeInv, TypeInv', FilesInv, [Next]_vars PROVE FilesInv'
  OBVIOUS
<1>. USE DEF Busy, Writing, Closing, Opened, Exists, IsFile
<1>0. /\ AtOperand /\ UNCHANGED cmd /\ DOMAIN cmd.ops = 1..Len(cmd.ops)
      /\ \A i : Source(i)' = Source(i) /\ Target(i)' = Target(i)
      /\ \A i \in DOMAIN cmd.ops : Source(i) \in Paths /\ (pc \in Busy => Source(i) # Out)
      /\ idx' = idx => In' = In /\ Out' = Out
      /\ Stdin \cup Stdout \subseteq Paths
  <2>1. TypeOK /\ AtOperand /\ UNCHANGED cmd
    BY OperandFacts, StepKeepsCmd DEF TypeInv
  <2>. QED
    BY <2>1, PathFacts, SameCmd DEF AtOperand, Out, Paths, Operands
<1>1. CASE UNCHANGED vars
  BY <1>0, <1>1 DEF FilesInv, vars
<1>2. CASE Step
  <2>1. \A i \in DOMAIN cmd.ops : file'[Source(i)] \in {NONE, StartFiles[Source(i)]}
    <3>. SUFFICES ASSUME NEW i \in DOMAIN cmd.ops
                  PROVE  file'[Source(i)] \in {NONE, StartFiles[Source(i)]}
      OBVIOUS
    <3>1. file'[Source(i)] = file[Source(i)] \/ file'[Source(i)] = NONE
      BY <1>0, <1>2, StepKinds
    <3>. QED
      BY <3>1 DEF FilesInv
  <2>2. \A p \in Paths : StartFiles[p] = NONE /\ file'[p] # NONE => file'[p].kind = "file"
    BY <1>0, <1>2, StepKinds DEF FilesInv, AtOperand
  <2>3. \A p \in Stdin \cup Stdout : file'[p] # NONE
    <3>. SUFFICES ASSUME NEW p \in Stdin \cup Stdout PROVE file'[p] # NONE
      OBVIOUS
    <3>1. p \in Paths /\ file[p] # NONE /\ ~Removable(p)
      BY <1>0 DEF FilesInv, Removable
    <3>2. CASE pc \in Busy /\ p = Out
      BY <1>2, <3>1, <3>2, StepKinds DEF TypeInv, StreamInv
    <3>3. CASE pc \in Busy /\ p = In
      BY <1>2, <3>1, <3>3, StepKinds
    <3>. QED
      BY <1>2, <3>1, <3>2, <3>3, StepKinds
  <2>4. CASE idx' = idx /\ pc' \in Busy /\ pc \in Busy /\ UNCHANGED oreg
    <3>1. ~(WouldGrow \/ (CleanUp /\ Removing)) /\ ~RemoveInput
      BY <2>4
        DEF WouldGrow, CleanUp, RemoveInput, NextOperand, Goto, TypeInv, TypeOK
    <3>2. oreg' <=> (file'[Out] # NONE => file'[Out].kind = "file")
      BY <1>2, <2>4, <3>1, StepKinds DEF FilesInv
    <3>3. file'[In] = file[In]
      BY <1>2, <2>4, <3>1, StepKinds
    <3>4. /\ pc' \in {"permission", "open_in", "stat_in"} => isreg' = oreg'
          /\ pc' \in Opened => (isreg' <=> oreg' /\ file'[In] # NONE /\ file'[In].kind = "file")
          /\ pc' \in Closing => isreg'
      BY <1>2, <2>4, <3>3
        DEF FilesInv, NextOperand, Goto, TypeInv, TypeOK, Step, RefuseOperand,
          StartOperand, PermissionGiven, PermissionDenied, OpenInput,
          OpenInputFails, StatInput, StatInputFails, FirstRead,
          OpenOutputFails, FirstWrite, CopyBlock, WriteFails, ReadEnds,
          ReadFails, CloseInput, StatOutput, StatOutputFails, SetTimes, Exit,
          OpenOutput, FirstWriteFails, FlushBuffer, CloseOutput, WouldGrow,
          SetOwner, SetMode, RemoveInput, CleanUp
    <3>. QED
      BY <1>0, <2>1, <2>2, <2>3, <2>4, <3>2, <3>4 DEF FilesInv
  <2>5. CASE StartOperand
    <3>1. oreg' = (file[Out] # NONE => file[Out].kind = "file") /\ isreg' = oreg'
      BY <2>5 DEF StartOperand
    <3>2. UNCHANGED file /\ pc' \in {"permission", "open_in"} /\ UNCHANGED idx
      BY <2>5 DEF StartOperand, Goto
    <3>. QED
      BY <1>0, <2>1, <2>2, <2>3, <3>1, <3>2 DEF FilesInv
  <2>6. CASE pc' \notin Busy
    BY <1>0, <2>1, <2>2, <2>3, <2>6 DEF FilesInv
  <2>. QED
    BY <1>2, <2>4, <2>5, <2>6
      DEF NextOperand, Goto, Step, RefuseOperand, StartOperand,
        PermissionGiven, PermissionDenied, OpenInput, OpenInputFails,
        StatInput, StatInputFails, FirstRead, OpenOutputFails, FirstWrite,
        CopyBlock, WriteFails, ReadEnds, ReadFails, CloseInput, StatOutput,
        StatOutputFails, SetTimes, Exit, OpenOutput, FirstWriteFails,
        FlushBuffer, CloseOutput, WouldGrow, SetOwner, SetMode, RemoveInput,
        CleanUp
<1>. QED
  BY <1>1, <1>2 DEF Next, Done

-----------------------------------------------------------------------------
(* Data.                                                                   *)
LEMMA SeqFacts ==
  ASSUME NEW a \in Seq(Blocks), NEW b \in Seq(Blocks), NEW x \in Blocks
  PROVE  /\ a \o <<>> = a /\ <<>> \o a = a
         /\ a \o Append(b, x) = Append(a \o b, x) /\ a \o b \in Seq(Blocks)
         /\ SubSeq(a, 1, Len(a)) = a /\ SubSeq(a, 1, 0) = <<>>
<1>1. /\ a \o b \in Seq(Blocks) /\ Len(a \o b) = Len(a) + Len(b)
      /\ Append(b, x) \in Seq(Blocks) /\ Len(Append(b, x)) = Len(b) + 1
  OBVIOUS
<1>2. a \o Append(b, x) = Append(a \o b, x)
  <2>. DEFINE l == a \o Append(b, x)
              r == Append(a \o b, x)
  <2>1. l \in Seq(Blocks) /\ r \in Seq(Blocks) /\ Len(l) = Len(r)
    BY <1>1
  <2>2. \A k \in 1..Len(l) : l[k] = r[k]
    BY <1>1
  <2>. HIDE DEF l, r
  <2>. QED
    BY <2>1, <2>2
<1>3. a \o <<>> = a /\ <<>> \o a = a
  OBVIOUS
<1>4. SubSeq(a, 1, Len(a)) = a /\ SubSeq(a, 1, 0) = <<>>
  OBVIOUS
<1>. QED
  BY <1>1, <1>2, <1>3, <1>4

LEMMA ConcatAppend ==
  \A a, b \in Seq(Blocks), x \in Blocks : a \o Append(b, x) = Append(a \o b, x)
BY SeqFacts

LEMMA SubSeqFacts ==
  ASSUME NEW a \in Seq(Blocks), NEW n \in 0..(Len(a) - 1)
  PROVE  SubSeq(a, 1, n + 1) = Append(SubSeq(a, 1, n), a[n + 1])
<1>. DEFINE l == SubSeq(a, 1, n + 1)
            r == Append(SubSeq(a, 1, n), a[n + 1])
<1>1. l \in Seq(Blocks) /\ r \in Seq(Blocks) /\ Len(l) = n + 1 /\ Len(r) = n + 1
  OBVIOUS
<1>2. \A k \in 1..(n + 1) : l[k] = r[k]
  OBVIOUS
<1>. HIDE DEF l, r
<1>. QED
  BY <1>1, <1>2

LEMMA NextData == TypeInv /\ DataInv /\ [Next]_vars => DataInv'
<1>. SUFFICES ASSUME TypeInv, DataInv, [Next]_vars PROVE DataInv'
  OBVIOUS
<1>. USE
  DEF Busy, Writing, Closing, Exists, Goto, NextOperand, Warn, CloseAll, Works,
    Fault,
             hist, streams
<1>0. /\ AtOperand /\ UNCHANGED cmd /\ Compressing' = Compressing /\ OutForm' = OutForm
      /\ idx' = idx => In' = In /\ Out' = Out
      /\ file \in [Paths -> Files \cup {NONE}]
      /\ \A p \in Paths : file[p] # NONE => file[p] \in Files /\ file[p].data \in Seq(Blocks)
      /\ OutForm \in {"plain", "Z"} /\ NONE \notin Files
      /\ pos \in Nat /\ buf \in Seq(Blocks) /\ <<>> \in Seq(Blocks)
  <2>1. AtOperand /\ UNCHANGED cmd /\ TypeOK
    BY OperandFacts, StepKeepsCmd DEF TypeInv
  <2>2. \A f \in Files : f.data \in Seq(Blocks)
    BY DEF Files
  <2>. QED
    BY <2>1, <2>2, OperandFacts, SameCmd DEF TypeOK
<1>1. CASE UNCHANGED vars
  BY <1>0, <1>1 DEF DataInv, vars, Written
<1>2. pc \in Busy \ {"permission", "open_in"} => file[In] # NONE /\ file[In].data \in Seq(Blocks)
  BY <1>0 DEF TypeInv, StreamInv, AtOperand
<1>3. pc \in Writing \cup Closing => file[Out] \in Files /\ file[Out].data \in Seq(Blocks)
  BY <1>0 DEF TypeInv, StreamInv, AtOperand
<1>4. ASSUME pc \in Busy, NEW f \in Files, Put(Out, f)
      PROVE  file'[Out] = f /\ file'[In] = file[In]
  BY <1>0, <1>4, PutFacts DEF AtOperand
<1>5. CASE OpenInput
  BY <1>0, <1>5 DEF OpenInput, DataInv
<1>6. CASE FirstRead
  BY <1>0, <1>6 DEF FirstRead, DataInv
<1>7. CASE OpenOutput
  <2>. DEFINE f == IF Exists(Out) THEN Truncated(file[Out], OutForm) ELSE Created(OutForm)
  <2>1. f \in Files /\ f.data = <<>> /\ f.form = OutForm
    BY <1>0, <1>7, TruncatedFacts, CreatedFacts DEF OpenOutput, AtOperand
  <2>2. Put(Out, f)
    BY <1>7 DEF OpenOutput
  <2>. HIDE DEF f
  <2>3. /\ file'[Out].data = <<>> /\ file'[Out].form = OutForm /\ file'[In] = file[In]
        /\ pc = "open_out" /\ UNCHANGED <<idx, buf, pos, nr, unreadable>>
        /\ pc' = IF Compressing THEN "copy" ELSE "first_write"
    BY <1>4, <1>7, <2>1, <2>2 DEF OpenOutput
  <2>4. <<>> \o <<>> = SubSeq(file[In].data, 1, 0)
    BY <1>0, <1>2, <2>3, SeqFacts
  <2>. QED
    BY <1>0, <1>2, <2>3, <2>4 DEF DataInv, Written
<1>8. CASE FirstWrite
  <2>1. /\ pc = "first_write" /\ nr = 1 /\ pos = 1 /\ file[Out].data = <<>> /\ pc' = "copy"
        /\ buf' = <<file[In].data[1]>> /\ UNCHANGED <<idx, file, pos>>
        /\ file[In].data # <<>> /\ file[Out].form = OutForm
    BY <1>8 DEF FirstWrite, DataInv, TypeInv, StreamInv
  <2>2. Len(file[In].data) \in Nat /\ Len(file[In].data) >= 1 /\ file[In].data[1] \in Blocks
    BY <1>2, <2>1
  <2>3. <<>> \o <<file[In].data[1]>> = SubSeq(file[In].data, 1, 1)
    BY <1>2, <2>1, <2>2
  <2>. QED
    BY <1>0, <2>1, <2>2, <2>3 DEF DataInv, Written
<1>9. CASE CopyBlock
  <2>. DEFINE s == file[In].data
              x == file[In].data[pos + 1]
  <2>1. /\ pc = "copy" /\ pc' = pc /\ pos < Len(s) /\ pos' = pos + 1 /\ buf' = Append(buf, x)
        /\ UNCHANGED <<idx, file>> /\ file[Out].form = OutForm
        /\ file[Out].data \o buf = SubSeq(s, 1, pos)
    BY <1>9 DEF CopyBlock, DataInv, Written
  <2>2. s \in Seq(Blocks) /\ x \in Blocks /\ pos \in 0..(Len(s) - 1)
    BY <1>0, <1>2, <2>1
  <2>. HIDE DEF x
  <2>3. file[Out].data \o Append(buf, x) = Append(SubSeq(s, 1, pos), x)
    <3>1. file[Out].data \in Seq(Blocks) /\ buf \in Seq(Blocks)
      BY <1>0, <1>3, <2>1
    <3>2. PICK a, b, y : a = file[Out].data /\ b = buf /\ y = x
      OBVIOUS
    <3>3. a \o Append(b, y) = Append(a \o b, y)
      <4>1. a \in Seq(Blocks) /\ b \in Seq(Blocks) /\ y \in Blocks
        BY <2>2, <3>1, <3>2
      <4>. QED
        BY <4>1, ConcatAppend
    <3>. QED
      BY <2>1, <3>2, <3>3
  <2>4. Append(SubSeq(s, 1, pos), x) = SubSeq(s, 1, pos + 1)
    BY <2>2, SubSeqFacts DEF x
  <2>5. pos + 1 <= Len(s)
    BY <2>2
  <2>. QED
    BY <1>0, <2>1, <2>3, <2>4, <2>5 DEF DataInv, Written
<1>10. ASSUME pc \in Writing, Put(Out, Flushed), UNCHANGED idx, buf' = <<>>
       PROVE  /\ file'[Out].data = Written /\ file'[Out].form = file[Out].form
              /\ file'[In] = file[In] /\ Written \in Seq(Blocks)
              /\ Written' = Written
  <2>1. Flushed \in Files /\ Flushed.data = Written /\ Flushed.form = file[Out].form
    BY <1>0, <1>3, <1>10, ExtendedFacts DEF Flushed, Written
  <2>2. file'[Out] = Flushed /\ file'[In] = file[In] /\ Written \in Seq(Blocks)
    BY <1>0, <1>3, <1>4, <1>10, <2>1 DEF Written
  <2>3. Written \o <<>> = Written
    BY <2>2
  <2>. QED
    BY <1>0, <1>10, <2>1, <2>2, <2>3 DEF Written
<1>11. CASE FlushBuffer
  BY <1>0, <1>10, <1>11 DEF FlushBuffer, DataInv
<1>12. CASE ReadEnds
  <2>1. SubSeq(file[In].data, 1, Len(file[In].data)) = file[In].data
    BY <1>2, <1>12 DEF ReadEnds
  <2>. QED
    BY <1>0, <1>12, <2>1 DEF ReadEnds, DataInv, Written
<1>13. CASE ReadFails
  BY <1>0, <1>13 DEF ReadFails, DataInv, Written
<1>14. CASE CloseOutput
  <2>1. CASE pc' \in {"err", "operand"}
    BY <2>1 DEF DataInv
  <2>2. CASE pc' \in Closing
    BY <1>0, <1>10, <1>14, <2>2 DEF CloseOutput, DataInv
  <2>. QED
    BY <1>14, <2>1, <2>2 DEF CloseOutput
<1>15. ASSUME pc \in Closing, NEW f \in Files, Put(Out, f), f.data = file[Out].data,
              f.form = file[Out].form, UNCHANGED <<idx, unreadable>>, pc' \in Closing
       PROVE  DataInv'
  BY <1>0, <1>4, <1>15 DEF DataInv
<1>16. CASE SetOwner
  <2>1. CASE UNCHANGED file
    BY <1>0, <1>16, <2>1 DEF SetOwner, DataInv
  <2>2. CASE Put(Out, Owned(file[Out], st.own))
    <3>1. st.own \in {"user", "other"}
      BY DEF TypeInv, TypeOK
    <3>2. pc = "chown" /\ file[Out] \in Files /\ pc' = "chmod" /\ UNCHANGED <<idx, unreadable>>
      BY <1>3, <1>16 DEF SetOwner
    <3>. QED
      BY <1>15, <2>2, <3>1, <3>2, OwnedFacts
  <2>. QED
    BY <1>16, <2>1, <2>2 DEF SetOwner
<1>17. CASE SetMode
  <2>1. CASE UNCHANGED file
    BY <1>0, <1>17, <2>1 DEF SetMode, DataInv
  <2>2. CASE Put(Out, Moded(file[Out], st.setid))
    <3>1. st.setid \in BOOLEAN
      BY DEF TypeInv, TypeOK
    <3>2. /\ pc = "chmod" /\ file[Out] \in Files /\ pc' = "unlink_in"
          /\ UNCHANGED <<idx, unreadable>>
      BY <1>3, <1>17 DEF SetMode
    <3>. QED
      BY <1>15, <2>2, <3>1, <3>2, ModedFacts
  <2>. QED
    BY <1>17, <2>1, <2>2 DEF SetMode
<1>18. CASE StatInput \/ CloseInput \/ StatOutput \/ SetTimes
  <2>1. CASE StatInput
    <3>1. nr = 0 /\ pos = 0 /\ buf = <<>> /\ UNCHANGED <<idx, file, buf, pos, nr>>
      BY <2>1 DEF StatInput, TypeInv, StreamInv, DataInv
    <3>. QED
      BY <1>0, <2>1, <3>1 DEF StatInput, DataInv
  <2>2. CASE CloseInput \/ StatOutput \/ SetTimes
    BY <1>0, <2>2 DEF CloseInput, StatOutput, SetTimes, DataInv, Written
  <2>. QED
    BY <1>18, <2>1, <2>2
<1>19. CASE pc' \notin {"stat_in", "first", "open_out"} \cup Writing \cup Closing
  BY <1>19 DEF DataInv
<1>. QED
  BY <1>1, <1>5, <1>6, <1>7, <1>8, <1>9, <1>11, <1>12, <1>13, <1>14, <1>16, <1>17, <1>18, <1>19
  DEF Next, Step, Done, RefuseOperand, StartOperand, PermissionGiven,
    PermissionDenied, OpenInputFails, StatInputFails, OpenOutputFails,
    WriteFails, StatOutputFails, Exit, FirstWriteFails, WouldGrow, RemoveInput,
    CleanUp

-----------------------------------------------------------------------------
(* Outputs.                                                                *)
LEMMA Apart ==
  ASSUME TypeInv, NEW i \in DOMAIN cmd.ops
  PROVE  /\ Source(i) \in Paths /\ Target(i) \in Paths
         /\ pc \in Busy => /\ Source(i) = In <=> Target(i) = Out
                           /\ Source(i) # Out /\ Target(i) # In
BY PathFacts DEF TypeInv, StreamInv, In, Out

(* The close that succeeds leaves all of the input in the output.          *)
LEMMA Complete ==
  ASSUME TypeInv, FilesInv, DataInv, In \notin unreadable, pc \in {"close_out"} \cup Closing,
         NEW i \in DOMAIN cmd.ops, Target(i) = Out, UNCHANGED cmd,
         NEW f \in Files, f.form = file[Out].form,
         f.data = IF pc = "close_out" THEN Written ELSE file[Out].data,
         file'[Out] = f
  PROVE  Holds(Target(i), i)'
<1>. USE DEF Busy, Writing, Closing
<1>1. /\ Target(i)' = Target(i) /\ Source(i)' = Source(i) /\ OutForm' = OutForm
      /\ Source(i) = In /\ NONE \notin Files
  BY Apart, SameCmd, OperandFacts
<1>2. file[In] = StartFiles[Source(i)]
  BY <1>1 DEF FilesInv, TypeInv, StreamInv, Exists
<1>3. f.data = file[In].data /\ f.form = OutForm
  BY DEF DataInv
<1>. QED
  BY <1>1, <1>2, <1>3 DEF Holds, Exists

LEMMA StepOutput ==
  ASSUME TypeInv, TypeInv', FilesInv, DataInv, OutputInv, Step,
         NEW i \in DOMAIN cmd.ops, StartFiles[Target(i)] = NONE,
         NEW t, t = Target(i), t = Out, pc \in Busy, wr' = "closed"
  PROVE  WholeOrAbsent(i)'
<1>. USE DEF Busy, Writing, Closing, Goto, NextOperand, CloseAll, hist, streams
<1>0. /\ UNCHANGED cmd /\ t' = t /\ Target(i)' = t /\ Source(i)' = Source(i)
      /\ OutForm' = OutForm /\ Source(i) = In /\ t # In /\ t \in Paths /\ i' = i
      /\ file \in [Paths -> Files \cup {NONE}] /\ NONE \notin Files
      /\ Exists(Out) => file[Out] \in Files
  BY StepKeepsCmd, SameCmd, Apart, OperandFacts DEF Next, TypeInv, TypeOK
<1>1. unreadable \subseteq unreadable' /\ leaked \cup kept \subseteq leaked' \cup kept'
  BY
    DEF Step, RefuseOperand, StartOperand, PermissionGiven, PermissionDenied,
      OpenInput, OpenInputFails, StatInput, StatInputFails, FirstRead,
      OpenOutputFails, FirstWrite, CopyBlock, WriteFails, ReadEnds, ReadFails,
      CloseInput, StatOutput, StatOutputFails, SetTimes, Exit, OpenOutput,
      FirstWriteFails, FlushBuffer, CloseOutput, WouldGrow, SetOwner, SetMode,
      RemoveInput, CleanUp
<1>2. CASE wr = "closed"
  <2>1. WholeOrAbsent(i)
    BY <1>2 DEF OutputInv
  <2>2. ASSUME file'[t] = file[t] PROVE WholeOrAbsent(i)'
    BY <1>0, <1>1, <2>1, <2>2 DEF WholeOrAbsent, Holds, Exists
  <2>3. CASE file'[t] = NONE
    BY <1>0, <2>3 DEF WholeOrAbsent, Exists
  <2>4. ASSUME Exists(Out), NEW f \in Files, Put(Out, f), f.data = file[Out].data,
               f.form = file[Out].form
        PROVE  WholeOrAbsent(i)'
    <3>1. file'[t] = f
      BY <1>0, <2>4, PutFacts
    <3>. QED
      BY <1>0, <1>1, <2>1, <2>4, <3>1 DEF WholeOrAbsent, Holds, Exists
  <2>5. CASE UNCHANGED file
    BY <2>2, <2>5
  <2>6. CASE Unlink(Out)
    BY <1>0, <2>3, <2>6, PutFacts DEF Unlink
  <2>7. CASE Unlink(In) /\ RemoveInput
    BY <1>0, <2>2, <2>7, StepKinds, PutFacts, Apart, OperandFacts
      DEF Unlink, AtOperand
  <2>8. CASE OpenOutput \/ FlushBuffer \/ CloseOutput \/ FirstWriteFails
    BY <1>2, <2>8
      DEF OpenOutput, FlushBuffer, CloseOutput, FirstWriteFails, TypeInv,
        StreamInv
  <2>9. CASE SetOwner /\ Put(Out, Owned(file[Out], st.own))
    <3>1. st.own \in {"user", "other"} /\ Exists(Out)
      BY <2>9 DEF TypeInv, TypeOK, StreamInv, SetOwner
    <3>. QED
      BY <1>0, <2>4, <2>9, <3>1, OwnedFacts
  <2>10. CASE SetMode /\ Put(Out, Moded(file[Out], st.setid))
    <3>1. st.setid \in BOOLEAN /\ Exists(Out)
      BY <2>10 DEF TypeInv, TypeOK, StreamInv, SetMode
    <3>. QED
      BY <1>0, <2>4, <2>10, <3>1, ModedFacts
  <2>. QED
    BY <1>2, <2>5, <2>6, <2>7, <2>8, <2>9, <2>10
    DEF Step, RefuseOperand, StartOperand, PermissionGiven, PermissionDenied,
      OpenInput, OpenInputFails, StatInput, StatInputFails, FirstRead,
      OpenOutputFails, FirstWrite, CopyBlock, WriteFails, ReadEnds, ReadFails,
      CloseInput, StatOutput, StatOutputFails, SetTimes, Exit, OpenOutput,
      FirstWriteFails, FlushBuffer, CloseOutput, WouldGrow, SetOwner, SetMode,
      RemoveInput, CleanUp, Removing
<1>3. CASE wr # "closed"
  <2>1. CASE FirstWriteFails
    BY <1>0, <2>1 DEF FirstWriteFails, WholeOrAbsent
  <2>2. CASE CloseOutput
    <3>1. /\ Put(Out, Flushed) /\ pc = "close_out" /\ UNCHANGED unreadable
      BY <1>3, <2>2 DEF CloseOutput
    <3>2. CASE In \in unreadable
      BY <1>0, <3>1, <3>2 DEF WholeOrAbsent
    <3>3. CASE In \notin unreadable
      <4>1. Exists(Out) /\ buf \in Seq(Blocks)
        BY <3>1 DEF TypeInv, TypeOK, StreamInv
      <4>2. Flushed \in Files /\ Flushed.data = Written /\ Flushed.form = file[Out].form
        BY <1>0, <4>1, ExtendedFacts DEF Flushed, Written
      <4>3. file'[Out] = Flushed
        BY <1>0, <3>1, <4>2, PutFacts
      <4>4. Holds(Target(i), i)'
        BY <1>0, <3>1, <3>3, <4>2, <4>3, Complete
      <4>. QED
        BY <4>4 DEF WholeOrAbsent
    <3>. QED
      BY <3>2, <3>3
  <2>3. CASE CleanUp
    <3>1. Removing /\ Removable(Out)
      <4>1. wr # "closed" /\ oreg
        BY <1>0, <1>3 DEF FilesInv, IsFile, Exists
      <4>2. Out \notin Stdin \cup Stdout
        BY CompressAssumption
      <4>. QED
        BY <4>1, <4>2 DEF Removing, Removable
    <3>2. Unlink(Out) \/ t \in kept'
      BY <2>3, <3>1 DEF CleanUp
    <3>3. CASE Unlink(Out)
      <4>1. file'[t] = NONE
        BY <1>0, <3>3, PutFacts DEF Unlink
      <4>. QED
        BY <1>0, <4>1 DEF WholeOrAbsent, Exists
    <3>. QED
      BY <1>0, <3>2, <3>3 DEF WholeOrAbsent
  <2>4. CASE ~FirstWriteFails /\ ~CloseOutput /\ ~CleanUp
    BY <1>3, <2>4
      DEF Step, RefuseOperand, StartOperand, PermissionGiven, PermissionDenied,
        OpenInput, OpenInputFails, StatInput, StatInputFails, FirstRead,
        OpenOutputFails, FirstWrite, CopyBlock, WriteFails, ReadEnds,
        ReadFails, CloseInput, StatOutput, StatOutputFails, SetTimes, Exit,
        OpenOutput, FirstWriteFails, FlushBuffer, CloseOutput, WouldGrow,
        SetOwner, SetMode, RemoveInput, CleanUp, TypeInv, TypeOK, StreamInv
  <2>. QED
    BY <2>1, <2>2, <2>3, <2>4
<1>. QED
  BY <1>2, <1>3

LEMMA NextOutput ==
  TypeInv /\ TypeInv' /\ FilesInv /\ DataInv /\ OutputInv /\ [Next]_vars => OutputInv'
<1>. SUFFICES ASSUME TypeInv, TypeInv', FilesInv, DataInv, OutputInv, [Next]_vars
              PROVE  OutputInv'
  OBVIOUS
<1>0. UNCHANGED cmd /\ \A i : Source(i)' = Source(i) /\ Target(i)' = Target(i)
  BY StepKeepsCmd, SameCmd
<1>1. CASE UNCHANGED vars
  BY <1>0, <1>1
  DEF OutputInv, WholeOrAbsent, Holds, Exists, vars, hist, streams, OutForm,
    Compressing, Out
<1>2. CASE Step
  <2>. SUFFICES ASSUME NEW i \in DOMAIN cmd.ops, NEW t, t = Target(i), StartFiles[t] = NONE,
                       ~(wr' # "closed" /\ t = Out')
                PROVE  WholeOrAbsent(i)'
    BY <1>0 DEF OutputInv
  <2>0. t \in Paths /\ (pc \in Busy => t # In) /\ OutForm' = OutForm
    BY <1>0, Apart, SameCmd
  <2>1. wr' # "closed" => UNCHANGED idx /\ (pc \in Busy \/ (wr # "closed" /\ pc = "crashed"))
    BY <1>2
      DEF Step, RefuseOperand, StartOperand, PermissionGiven, PermissionDenied,
        OpenInput, OpenInputFails, StatInput, StatInputFails, FirstRead,
        OpenOutputFails, FirstWrite, CopyBlock, WriteFails, ReadEnds,
        ReadFails, CloseInput, StatOutput, StatOutputFails, SetTimes, Exit,
        OpenOutput, FirstWriteFails, FlushBuffer, CloseOutput, WouldGrow,
        SetOwner, SetMode, RemoveInput, CleanUp, NextOperand, Goto, CloseAll,
        streams, Busy, Writing, Closing,
      TypeInv, TypeOK, StreamInv
  <2>2. CASE pc \in Busy /\ t = Out
    <3>1. wr' = "closed"
      <4>1. wr' # "closed" => Out' = Out
        BY <1>0, <2>1, SameCmd
      <4>2. wr' # "closed" => t # Out
        BY <2>1, <4>1
      <4>. QED
        BY <2>2, <4>2
    <3>. QED
      BY <1>2, <2>2, <3>1, StepOutput
  <2>3. CASE ~(pc \in Busy /\ t = Out)
    <3>1. file'[t] = file[t]
      BY <1>2, <2>0, <2>3, StepKinds
    <3>2. WholeOrAbsent(i)
      <4>1. wr # "closed" => pc \in Busy
        BY <1>2
          DEF Step, RefuseOperand, StartOperand, PermissionGiven,
            PermissionDenied, OpenInput, OpenInputFails, StatInput,
            StatInputFails, FirstRead, OpenOutputFails, FirstWrite, CopyBlock,
            WriteFails, ReadEnds, ReadFails, CloseInput, StatOutput,
            StatOutputFails, SetTimes, Exit, OpenOutput, FirstWriteFails,
            FlushBuffer, CloseOutput, WouldGrow, SetOwner, SetMode,
            RemoveInput, CleanUp, Busy, Writing, Closing, TypeInv, TypeOK
      <4>. QED
        BY <2>3, <4>1 DEF OutputInv
    <3>3. unreadable \subseteq unreadable' /\ leaked \cup kept \subseteq leaked' \cup kept'
      BY <1>2
        DEF Step, hist, RefuseOperand, StartOperand, PermissionGiven,
          PermissionDenied, OpenInput, OpenInputFails, StatInput,
          StatInputFails, FirstRead, OpenOutputFails, FirstWrite, CopyBlock,
          WriteFails, ReadEnds, ReadFails, CloseInput, StatOutput,
          StatOutputFails, SetTimes, Exit, OpenOutput, FirstWriteFails,
          FlushBuffer, CloseOutput, WouldGrow, SetOwner, SetMode, RemoveInput,
          CleanUp
    <3>. QED
      BY <1>0, <2>0, <3>1, <3>2, <3>3 DEF WholeOrAbsent, Holds, Exists
  <2>. QED
    BY <2>2, <2>3
<1>. QED
  BY <1>1, <1>2 DEF Next, Done

-----------------------------------------------------------------------------
(* Operands with status 0.                                                 *)

(* compress() and decompress() return without a complaint after the user   *)
(* declined, or the output is complete and the input gone or one of them   *)
(* no file.                                                                *)
Returns ==
  \/ PermissionDenied
  \/ /\ CloseOutput /\ pc = "close_out" /\ ~isreg /\ Put(Out, Flushed)
     /\ NextOperand /\ UNCHANGED eval
  \/ /\ RemoveInput /\ pc = "unlink_in" /\ Removable(In) /\ Unlink(In)
     /\ NextOperand /\ UNCHANGED eval

LEMMA StepReturns ==
  ASSUME TypeInv, Step, pc \in Busy, idx' # idx
  PROVE  /\ idx' = idx + 1 /\ pc' = "operand" /\ wr' = "closed"
         /\ eval' = eval \/ eval' # 0
         /\ eval' = 0 => Returns
<1>. USE
  DEF Busy, Writing, Closing, NextOperand, Goto, Warn, CloseAll, Returns,
    streams
<1>1. /\ idx \in Nat /\ eval \in 0..2 /\ (pc = "err" => eval # 0)
      /\ pc \notin Writing \cup {"err"} => wr = "closed"
  BY PathFacts DEF TypeInv, TypeOK, StreamInv
<1>. QED
  BY <1>1
    DEF Step, RefuseOperand, StartOperand, PermissionGiven, PermissionDenied,
      OpenInput, OpenInputFails, StatInput, StatInputFails, FirstRead,
      OpenOutputFails, FirstWrite, CopyBlock, WriteFails, ReadEnds, ReadFails,
      CloseInput, StatOutput, StatOutputFails, SetTimes, Exit, OpenOutput,
      FirstWriteFails, FlushBuffer, CloseOutput, WouldGrow, SetOwner, SetMode,
      RemoveInput, CleanUp

(* What is returned from without a complaint is replaced.                  *)
LEMMA ReturnReplaces ==
  ASSUME TypeInv, FilesInv, DataInv, Returns, ~PermissionDenied, UNCHANGED cmd,
         In \notin unreadable, NEW i \in DOMAIN cmd.ops, Source(i) = In
  PROVE  Replaced(i)'
<1>. USE DEF Busy, Writing, Closing
<1>0. /\ Source(i)' = In /\ Target(i)' = Out /\ Target(i) = Out /\ pc \in Busy
      /\ In # Out /\ In \in Paths /\ Out \in Paths
      /\ file \in [Paths -> Files \cup {NONE}] /\ NONE \notin Files
      /\ Exists(Out) /\ file[Out] \in Files /\ buf \in Seq(Blocks)
  <2>1. pc \in {"close_out", "unlink_in"}
    BY DEF Returns
  <2>. QED
    BY <2>1, SameCmd, Apart, OperandFacts
      DEF AtOperand, TypeInv, TypeOK, StreamInv
<1>1. CASE CloseOutput /\ pc = "close_out" /\ ~isreg /\ Put(Out, Flushed)
  <2>1. Flushed \in Files /\ Flushed.data = Written /\ Flushed.form = file[Out].form
        /\ Flushed.kind = file[Out].kind
    BY <1>0, ExtendedFacts DEF Flushed, Written
  <2>2. file'[Out] = Flushed /\ file'[In] = file[In]
    BY <1>0, <1>1, <2>1, PutFacts
  <2>3. Holds(Target(i), i)'
    BY <1>0, <1>1, <2>1, <2>2, Complete
  <2>4. ~(IsFile(Out) /\ IsFile(In))
    BY <1>1 DEF FilesInv, Opened
  <2>. QED
    BY <1>0, <2>1, <2>2, <2>3, <2>4 DEF Replaced, IsFile, Exists
<1>2. CASE RemoveInput /\ pc = "unlink_in" /\ Removable(In) /\ Unlink(In)
  <2>1. file'[In] = NONE /\ file'[Out] = file[Out]
    BY <1>0, <1>2, PutFacts DEF Unlink
  <2>2. Holds(Target(i), i)'
    BY <1>0, <1>2, <2>1, Complete
  <2>. QED
    BY <1>0, <2>1, <2>2 DEF Replaced, IsFile, Exists
<1>. QED
  BY <1>1, <1>2 DEF Returns

LEMMA NextReplaced ==
  TypeInv /\ TypeInv' /\ FilesInv /\ DataInv /\ ReplacedInv /\ [Next]_vars => ReplacedInv'
<1>. SUFFICES ASSUME TypeInv, TypeInv', FilesInv, DataInv, ReplacedInv, [Next]_vars
              PROVE  ReplacedInv'
  OBVIOUS
<1>. USE DEF Busy, Writing, Closing
<1>0. UNCHANGED cmd /\ \A i : Source(i)' = Source(i) /\ Target(i)' = Target(i)
  BY StepKeepsCmd, SameCmd
<1>1. CASE UNCHANGED vars
  BY <1>0, <1>1
  DEF ReplacedInv, Replaced, Holds, Exists, IsFile, vars, hist, streams,
    OutForm, Compressing, In
<1>2. CASE Step
  <2>. SUFFICES ASSUME eval' = 0, NEW i \in DOMAIN cmd.ops, i < idx', i \notin declined',
                       Source(i) \notin unreadable',
                       NEW s, s = Source(i), NEW t, t = Target(i)
                PROVE  Replaced(i)' \/ (pc' \in Writing \cup Closing \cup {"crashed"} /\ s = In')
    BY <1>0 DEF ReplacedInv
  <2>0. /\ s \in Paths /\ t \in Paths /\ OutForm' = OutForm /\ idx \in Nat
        /\ pc \in Busy => (s = In <=> t = Out) /\ s # Out /\ t # In
        /\ DOMAIN cmd.ops = 1..Len(cmd.ops) /\ Len(cmd.ops) \in Nat
        /\ eval \in 0..2 /\ (pc = "err" => eval # 0) /\ (pc \in Busy => idx \in DOMAIN cmd.ops)
    <3>1. TypeOK /\ StreamInv /\ UNCHANGED cmd
      BY <1>0 DEF TypeInv
    <3>2. s \in Paths /\ t \in Paths /\ (pc \in Busy => (s = In <=> t = Out) /\ s # Out /\ t # In)
      BY Apart
    <3>3. OutForm' = OutForm
      BY <3>1, SameCmd
    <3>4. DOMAIN cmd.ops = 1..Len(cmd.ops) /\ Len(cmd.ops) \in Nat
      BY <3>1, PathFacts
    <3>5. idx \in Nat /\ eval \in 0..2
      BY <3>1, <3>4 DEF TypeOK
    <3>6. (pc = "err" => eval # 0) /\ (pc \in Busy => idx \in DOMAIN cmd.ops)
      BY <3>1 DEF StreamInv
    <3>. QED
      BY <3>2, <3>3, <3>4, <3>5, <3>6
  <2>1. /\ unreadable \subseteq unreadable' /\ declined \subseteq declined' /\ eval = 0
        /\ pc \in Busy => pc' # "err"
    BY <1>2, <2>0
      DEF Step, hist, RefuseOperand, StartOperand, PermissionGiven,
        PermissionDenied, OpenInput, OpenInputFails, StatInput, StatInputFails,
        FirstRead, OpenOutputFails, FirstWrite, CopyBlock, WriteFails,
        ReadEnds, ReadFails, CloseInput, StatOutput, StatOutputFails, SetTimes,
        Exit, OpenOutput, FirstWriteFails, FlushBuffer, CloseOutput, WouldGrow,
        SetOwner, SetMode, RemoveInput, CleanUp, Warn, Goto, NextOperand
  <2>2. ASSUME i < idx, file'[s] = file[s], file'[t] = file[t],
               ~(pc \in Writing \cup Closing \cup {"crashed"} /\ s = In)
        PROVE  Replaced(i)'
    <3>1. Replaced(i)
      BY <2>1, <2>2 DEF ReplacedInv
    <3>. QED
      BY <1>0, <2>0, <2>2, <3>1 DEF Replaced, Holds, Exists, IsFile
  <2>3. CASE pc \notin Busy
    <3>1. UNCHANGED file /\ pc # "crashed"
      BY <1>2, <2>3, StepKinds
        DEF Step, RefuseOperand, StartOperand, PermissionGiven,
          PermissionDenied, OpenInput, OpenInputFails, StatInput,
          StatInputFails, FirstRead, OpenOutputFails, FirstWrite, CopyBlock,
          WriteFails, ReadEnds, ReadFails, CloseInput, StatOutput,
          StatOutputFails, SetTimes, Exit, OpenOutput, FirstWriteFails,
          FlushBuffer, CloseOutput, WouldGrow, SetOwner, SetMode, RemoveInput,
          CleanUp
    <3>2. idx' = idx
      BY <1>2, <2>3
        DEF Step, RefuseOperand, StartOperand, PermissionGiven,
          PermissionDenied, OpenInput, OpenInputFails, StatInput,
          StatInputFails, FirstRead, OpenOutputFails, FirstWrite, CopyBlock,
          WriteFails, ReadEnds, ReadFails, CloseInput, StatOutput,
          StatOutputFails, SetTimes, Exit, OpenOutput, FirstWriteFails,
          FlushBuffer, CloseOutput, WouldGrow, SetOwner, SetMode, RemoveInput,
          CleanUp, Warn, Goto
    <3>. QED
      BY <2>2, <2>3, <3>1, <3>2
  <2>4. CASE pc \in Busy /\ s # In
    <3>1. i < idx
      <4>1. i # idx
        BY <2>4 DEF In
      <4>. QED
        BY <1>2, <2>0, <2>4, <4>1, StepReturns
    <3>. QED
      BY <1>2, <2>0, <2>2, <2>4, <3>1, StepKinds
  <2>5. CASE pc \in Busy /\ s = In /\ idx' # idx
    <3>1. Returns /\ idx' = idx + 1
      BY <1>2, <2>5, StepReturns
    <3>2. CASE PermissionDenied
      <4>1. i # idx /\ UNCHANGED file /\ pc = "permission"
        BY <3>2 DEF PermissionDenied
      <4>. QED
        BY <2>0, <2>2, <3>1, <4>1
    <3>3. CASE ~PermissionDenied
      BY <1>0, <2>1, <2>5, <3>1, <3>3, ReturnReplaces
    <3>. QED
      BY <3>2, <3>3
  <2>6. CASE pc \in Busy /\ s = In /\ idx' = idx
    <3>1. In' = In
      BY <1>0, <2>6, SameCmd
    <3>2. \/ pc' \in Writing \cup Closing \cup {"crashed"}
          \/ UNCHANGED file /\ pc \notin Writing \cup Closing \cup {"crashed"}
      BY <1>2, <2>0, <2>1, <2>6
        DEF Step, RefuseOperand, StartOperand, PermissionGiven,
          PermissionDenied, OpenInput, OpenInputFails, StatInput,
          StatInputFails, FirstRead, OpenOutputFails, FirstWrite, CopyBlock,
          WriteFails, ReadEnds, ReadFails, CloseInput, StatOutput,
          StatOutputFails, SetTimes, Exit, OpenOutput, FirstWriteFails,
          FlushBuffer, CloseOutput, WouldGrow, SetOwner, SetMode, RemoveInput,
          CleanUp, Goto, NextOperand, Warn
    <3>. QED
      BY <2>2, <2>6, <3>1, <3>2
  <2>. QED
    BY <2>3, <2>4, <2>5, <2>6
<1>. QED
  BY <1>1, <1>2 DEF Next, Done

LEMMA Invariant == Spec => []IInv
<1>1. Init => IInv
  <2>. SUFFICES ASSUME Init PROVE IInv
    OBVIOUS
  <2>1. TypeInv /\ SetidInv /\ FilesInv
    BY InitType, InitSetid, InitFiles
  <2>2. DataInv
    BY DEF Init, DataInv, Writing, Closing
  <2>3. OutputInv
    <3>1. \A i \in DOMAIN cmd.ops : file[Target(i)] = StartFiles[Target(i)]
      BY DEF Init
    <3>. QED
      BY <3>1 DEF OutputInv, WholeOrAbsent, Exists
  <2>4. ReplacedInv
    BY <2>1, PathFacts DEF Init, ReplacedInv, TypeInv
  <2>. QED
    BY <2>1, <2>2, <2>3, <2>4 DEF IInv
<1>2. IInv /\ [Next]_vars => IInv'
  BY NextType, NextSetid, NextFiles, NextData, NextOutput, NextReplaced
    DEF IInv
<1>. QED
  BY <1>1, <1>2, PTL DEF Spec

(* Between operands an output that was not there at the start is complete  *)
(* or absent, whichever call failed, with the exceptions that are stated.  *)
THEOREM NoHalfIsLeft == Spec => []NoHalfOutput
<1>1. IInv => NoHalfOutput
  BY DEF IInv, TypeInv, TypeOK, OutputInv, WholeOrAbsent, NoHalfOutput
<1>. QED
  BY Invariant, <1>1, PTL

(* Exit status 0 means that every operand was replaced by its output, or   *)
(* that the user declined.                                                 *)
THEOREM StatusZeroReplaces == Spec => []StatusZeroMeansReplaced
<1>1. IInv => StatusZeroMeansReplaced
  <2>. SUFFICES ASSUME IInv, pc = "done", eval = 0, NEW i \in DOMAIN cmd.ops \ declined,
                       Source(i) \notin unreadable
                PROVE  Replaced(i)
    BY DEF StatusZeroMeansReplaced, Replaced
  <2>1. i < idx
    BY PathFacts DEF IInv, TypeInv, TypeOK, StreamInv
  <2>. QED
    BY <2>1 DEF IInv, ReplacedInv, Writing, Closing
<1>. QED
  BY Invariant, <1>1, PTL

-----------------------------------------------------------------------------
(* Replacement: each step of compress is one of its steps.                 *)
PlaceOf(i) ==
  {w \in {"source", "target", "sent"} :
     \/ ~Alone(i) \/ Source(i) \in unreadable
     \/ /\ StartFiles[Source(i)] # NONE
        /\ \/ w = "source" /\ IsFile(Source(i)) /\ Holds(Source(i), i)
           \/ w = "target" /\ Keeps(i) /\ Holds(Target(i), i)
           \/ w = "sent" /\ ~Keeps(i) /\ Holds(Target(i), i)}

LEMMA PlaceFacts ==
  ASSUME TypeInv
  PROVE  /\ place = [i \in 1..Len(cmd.ops) |-> PlaceOf(i)]
         /\ place \in Seq(SUBSET replacement!Places) /\ Len(place) = Len(cmd.ops)
         /\ \A i \in 1..Len(cmd.ops) :
              place[i] = PlaceOf(i) /\ PlaceOf(i) \in SUBSET replacement!Places
<1>1. Len(cmd.ops) \in Nat /\ DOMAIN cmd.ops = 1..Len(cmd.ops)
  BY PathFacts DEF TypeInv
<1>2. place = [i \in 1..Len(cmd.ops) |-> PlaceOf(i)]
  BY <1>1 DEF place, PlaceOf
<1>3. \A i \in 1..Len(cmd.ops) : PlaceOf(i) \in SUBSET replacement!Places
  BY DEF PlaceOf, replacement!Places, replacement!Kept
<1>. HIDE DEF place, PlaceOf
<1>4. place \in Seq(SUBSET replacement!Places) /\ Len(place) = Len(cmd.ops)
  BY <1>1, <1>2, <1>3
<1>. QED
  BY <1>2, <1>3, <1>4

(* A place depends on nothing but what is at the operand's two paths.      *)
LEMMA SamePlace ==
  ASSUME UNCHANGED cmd, NEW i, NEW s, s = Source(i), NEW t, t = Target(i),
         file'[s] = file[s], file'[t] = file[t], s \in unreadable' <=> s \in unreadable
  PROVE  PlaceOf(i)' = PlaceOf(i)
<1>1. /\ Source(i)' = s /\ Target(i)' = t /\ OutForm' = OutForm /\ Alone(i)' = Alone(i)
  BY SameCmd DEF Alone
<1>. QED
  BY <1>1 DEF PlaceOf, IsFile, Holds, Keeps, Exists

LEMMA OthersInPlace ==
  ASSUME TypeInv, Step, NEW i \in DOMAIN cmd.ops, i # idx \/ pc \notin Busy
  PROVE  PlaceOf(i)' = PlaceOf(i)
<1>0. UNCHANGED cmd /\ Source(i) \in Paths /\ Target(i) \in Paths
  BY StepKeepsCmd, Apart DEF Next
<1>1. unreadable' = unreadable \/ (pc \in Busy /\ unreadable' = unreadable \cup {In})
  BY
    DEF Step, RefuseOperand, StartOperand, PermissionGiven, PermissionDenied,
      OpenInput, OpenInputFails, StatInput, StatInputFails, FirstRead,
      OpenOutputFails, FirstWrite, CopyBlock, WriteFails, ReadEnds, ReadFails,
      CloseInput, StatOutput, StatOutputFails, SetTimes, Exit, OpenOutput,
      FirstWriteFails, FlushBuffer, CloseOutput, WouldGrow, SetOwner, SetMode,
      RemoveInput, CleanUp, hist, Busy, Writing, Closing
<1>2. CASE pc \notin Busy
  BY <1>0, <1>1, <1>2, StepKinds, SamePlace
<1>3. CASE pc \in Busy /\ i # idx /\ Alone(i)
  <2>1. Source(i) # In /\ Target(i) # Out /\ Source(i) # Out /\ Target(i) # In
    BY <1>3, Apart DEF Alone, TypeInv, StreamInv, In
  <2>. QED
    BY <1>0, <1>1, <2>1, StepKinds, SamePlace
<1>4. CASE ~Alone(i)
  <2>1. Alone(i)' = Alone(i)
    BY <1>0, SameCmd DEF Alone
  <2>. QED
    BY <1>4, <2>1 DEF PlaceOf
<1>. QED
  BY <1>2, <1>3, <1>4

(* The operand compress is at keeps its source unless it is removed.       *)
LEMMA OperandKept ==
  ASSUME IInv, Step, pc \in Busy, NEW i \in DOMAIN cmd.ops, i = idx
  PROVE  /\ ~Returns /\ "source" \in PlaceOf(i) => "source" \in PlaceOf(i)'
         /\ (PermissionDenied \/ pc \in {"permission", "open_in"}) => PlaceOf(i)' = PlaceOf(i)
         /\ ~Returns /\ PlaceOf(i) \cap {"source", "target"} # {}
              => PlaceOf(i)' \cap {"source", "target"} # {}
<1>. USE DEF Busy, Writing, Closing
<1>0. /\ TypeInv /\ FilesInv /\ UNCHANGED cmd /\ Source(i) = In /\ Target(i) = Out
      /\ Source(i)' = In /\ Target(i)' = Out /\ OutForm' = OutForm /\ Alone(i)' = Alone(i)
      /\ unreadable \subseteq unreadable' /\ In \in Paths /\ Out \in Paths
  <2>1. UNCHANGED cmd /\ TypeInv /\ FilesInv
    BY StepKeepsCmd DEF Next, IInv
  <2>2. unreadable \subseteq unreadable'
    BY
      DEF Step, RefuseOperand, StartOperand, PermissionGiven, PermissionDenied,
        OpenInput, OpenInputFails, StatInput, StatInputFails, FirstRead,
        OpenOutputFails, FirstWrite, CopyBlock, WriteFails, ReadEnds,
        ReadFails, CloseInput, StatOutput, StatOutputFails, SetTimes, Exit,
        OpenOutput, FirstWriteFails, FlushBuffer, CloseOutput, WouldGrow,
        SetOwner, SetMode, RemoveInput, CleanUp, hist
  <2>. QED
    BY <2>1, <2>2, SameCmd, OperandFacts DEF AtOperand, Alone, In, Out
<1>1. ~Returns /\ "source" \in PlaceOf(i) => "source" \in PlaceOf(i)'
  <2>. SUFFICES ASSUME ~Returns, "source" \in PlaceOf(i) PROVE "source" \in PlaceOf(i)'
    OBVIOUS
  <2>1. file'[In] = file[In]
    <3>1. RemoveInput => UNCHANGED file
      BY DEF Returns, RemoveInput
    <3>. QED
      BY <1>0, <3>1, StepKinds
  <2>. QED
    BY <1>0, <2>1 DEF PlaceOf, IsFile, Exists, Holds
<1>2. PermissionDenied \/ pc \in {"permission", "open_in"} => PlaceOf(i)' = PlaceOf(i)
  <2>1. PermissionDenied \/ pc \in {"permission", "open_in"} => UNCHANGED <<file, unreadable>>
    BY
      DEF Step, RefuseOperand, StartOperand, PermissionGiven, PermissionDenied,
        OpenInput, OpenInputFails, StatInput, StatInputFails, FirstRead,
        OpenOutputFails, FirstWrite, CopyBlock, WriteFails, ReadEnds,
        ReadFails, CloseInput, StatOutput, StatOutputFails, SetTimes, Exit,
        OpenOutput, FirstWriteFails, FlushBuffer, CloseOutput, WouldGrow,
        SetOwner, SetMode, RemoveInput, CleanUp, hist
  <2>. QED
    BY <1>0, <2>1, SamePlace
<1>3. ASSUME "target" \in PlaceOf(i), pc \notin {"permission", "open_in"}
      PROVE  "source" \in PlaceOf(i)
  <2>1. CASE ~Alone(i) \/ In \in unreadable
    BY <1>0, <2>1 DEF PlaceOf
  <2>2. CASE ~(~Alone(i) \/ In \in unreadable)
    <3>1. StartFiles[In] # NONE /\ StartFiles[In].kind = "file"
      BY <1>0, <1>3, <2>2 DEF PlaceOf, Keeps
    <3>2. file[In] = StartFiles[In]
      BY <1>0, <1>3 DEF FilesInv, TypeInv, StreamInv, Exists
    <3>. QED
      BY <1>0, <3>1, <3>2 DEF PlaceOf, IsFile, Exists, Holds
  <2>. QED
    BY <2>1, <2>2
<1>. QED
  BY <1>1, <1>2, <1>3

(* What is returned from without a complaint is where it should be.        *)
LEMMA ReturnArrives ==
  ASSUME IInv, Returns, ~PermissionDenied, UNCHANGED cmd, NEW i \in DOMAIN cmd.ops, i = idx
  PROVE  /\ PlaceOf(i)' \cap {"target", "sent"} # {}
         /\ PlaceOf(i) \cap {"source", "target"} # {} => PlaceOf(i)' \cap {"source", "target"} # {}
<1>. USE DEF Busy, Writing, Closing
<1>0. /\ TypeInv /\ FilesInv /\ DataInv /\ Source(i) = In /\ Target(i) = Out
      /\ Source(i)' = In /\ Target(i)' = Out /\ Alone(i)' = Alone(i)
      /\ UNCHANGED unreadable /\ pc \in {"close_out", "unlink_in"}
      /\ In \in Paths /\ Out \in Paths /\ In # Out /\ OutForm' = OutForm
      /\ file \in [Paths -> Files \cup {NONE}]
  <2>1. TypeInv /\ FilesInv /\ DataInv /\ pc \in {"close_out", "unlink_in"}
    BY DEF IInv, Returns
  <2>2. UNCHANGED unreadable
    BY DEF Returns, CloseOutput, RemoveInput, hist
  <2>. QED
    BY <2>1, <2>2, SameCmd, OperandFacts
      DEF AtOperand, Alone, In, Out, TypeInv, TypeOK
<1>1. CASE ~Alone(i) \/ In \in unreadable
  BY <1>0, <1>1 DEF PlaceOf
<1>2. CASE Alone(i) /\ In \notin unreadable
  <2>1. Replaced(i)'
    BY <1>0, <1>2, ReturnReplaces
  <2>2. /\ Exists(In) /\ file[In] = StartFiles[In] /\ StartFiles[In] # NONE
        /\ (isreg <=> oreg /\ IsFile(In)) /\ Exists(Out)
    BY <1>0 DEF FilesInv, TypeInv, StreamInv, Exists, Opened
  <2>3. Keeps(i)' => "target" \in PlaceOf(i)'
    BY <1>0, <2>1, <2>2 DEF PlaceOf, Replaced
  <2>4. ~Keeps(i)' => "sent" \in PlaceOf(i)'
    BY <1>0, <2>1, <2>2 DEF PlaceOf, Replaced
  <2>5. PlaceOf(i) \cap {"source", "target"} # {} => PlaceOf(i)' \cap {"source", "target"} # {}
    <3>1. CASE pc = "unlink_in"
      <4>1. Unlink(In)
        BY <3>1 DEF Returns, CloseOutput
      <4>2. isreg /\ oreg /\ IsFile(In) /\ IsFile(Out)
        BY <1>0, <2>2, <3>1 DEF FilesInv
      <4>3. file'[Out] = file[Out]
        BY <1>0, <4>1, PutFacts DEF Unlink
      <4>4. Keeps(i)'
        BY <1>0, <2>2, <4>2, <4>3 DEF Keeps, IsFile, Exists
      <4>. QED
        BY <2>3, <4>4
    <3>2. CASE pc = "close_out"
      <4>1. "target" \in PlaceOf(i) => "source" \in PlaceOf(i)
        BY <1>0, <1>2, <2>2 DEF PlaceOf, Keeps, IsFile, Exists, Holds
      <4>2. file'[In] = file[In]
        <5>1. Put(Out, Flushed)
          BY <3>2 DEF Returns
        <5>2. buf \in Seq(Blocks) /\ file[Out] \in Files
          <6>1. buf \in Seq(Blocks)
            BY <1>0 DEF TypeInv, TypeOK
          <6>2. file[Out] \in Files
            BY <1>0, <2>2 DEF Exists
          <6>. QED
            BY <6>1, <6>2
        <5>. QED
          BY <1>0, <5>1, <5>2, PutFacts, ExtendedFacts DEF Flushed
      <4>3. "source" \in PlaceOf(i) => "source" \in PlaceOf(i)'
        BY <1>0, <4>2 DEF PlaceOf, IsFile, Exists, Holds
      <4>. QED
        BY <4>1, <4>3
    <3>. QED
      BY <1>0, <3>1, <3>2
  <2>. QED
    BY <2>3, <2>4, <2>5
<1>. QED
  BY <1>1, <1>2

LEMMA StepReplaces ==
  ASSUME IInv, IInv', Step
  PROVE  replacement!Next \/ UNCHANGED replacement!vars
<1>0. /\ TypeInv /\ TypeInv' /\ UNCHANGED cmd
      /\ Len(cmd.ops) \in Nat /\ DOMAIN cmd.ops = 1..Len(cmd.ops) /\ idx \in Nat
      /\ eval \in 0..2 /\ eval' \in 0..2 /\ (pc \in Busy => idx \in DOMAIN cmd.ops)
  BY StepKeepsCmd, PathFacts DEF Next, IInv, TypeInv, TypeOK, StreamInv
<1>1. /\ place = [i \in 1..Len(cmd.ops) |-> PlaceOf(i)]
      /\ place' = [i \in 1..Len(cmd.ops) |-> PlaceOf(i)']
      /\ Len(place) = Len(cmd.ops)
      /\ \A i \in 1..Len(cmd.ops) :
           /\ place[i] = PlaceOf(i) /\ place'[i] = PlaceOf(i)'
           /\ PlaceOf(i)' \in SUBSET replacement!Places
  <2>1. place' = [i \in 1..Len(cmd.ops) |-> PlaceOf(i)']
    BY <1>0 DEF place, PlaceOf
  <2>2. \A i \in 1..Len(cmd.ops) : PlaceOf(i)' \in SUBSET replacement!Places
    BY DEF PlaceOf, replacement!Places, replacement!Kept
  <2>. QED
    BY <1>0, <2>1, <2>2, PlaceFacts
<1>2. \A i \in 1..Len(cmd.ops) : i # idx \/ pc \notin Busy => PlaceOf(i)' = PlaceOf(i)
  BY <1>0, OthersInPlace
<1>. HIDE DEF place, PlaceOf
<1>3. CASE pc \notin Busy
  <2>1. place' = place
    BY <1>0, <1>1, <1>2, <1>3
  <2>2. UNCHANGED <<idx, eval, declined>> \/ RefuseOperand
    BY <1>3
      DEF Step, RefuseOperand, StartOperand, PermissionGiven, PermissionDenied,
        OpenInput, OpenInputFails, StatInput, StatInputFails, FirstRead,
        OpenOutputFails, FirstWrite, CopyBlock, WriteFails, ReadEnds,
        ReadFails, CloseInput, StatOutput, StatOutputFails, SetTimes, Exit,
        OpenOutput, FirstWriteFails, FlushBuffer, CloseOutput, WouldGrow,
        SetOwner, SetMode, RemoveInput, CleanUp, Busy, Writing, Closing, Goto,
        hist
  <2>3. CASE RefuseOperand
    <3>1. /\ idx <= Len(place) /\ idx' = idx + 1 /\ eval' = 1 /\ declined' = declined
      BY <1>0, <1>1, <2>3 DEF RefuseOperand, Warn, NextOperand, hist
    <3>2. idx \in 1..Len(cmd.ops)
      BY <1>0, <1>1, <3>1 DEF TypeInv, TypeOK
    <3>. DEFINE same == place[idx]
    <3>3. place' = [place EXCEPT ![idx] = same] /\ same \in SUBSET replacement!Places
      BY <1>0, <1>1, <2>1, <3>2, PlaceFacts
    <3>4. replacement!Put(same) /\ ("source" \in place[idx] => "source" \in same)
      BY <3>1, <3>3 DEF replacement!Put, replacement!Safely
    <3>. HIDE DEF same
    <3>5. \E p \in SUBSET replacement!Places :
             replacement!Put(p) /\ ("source" \in place[idx] => "source" \in p)
      BY <3>3, <3>4
    <3>6. replacement!Refuse
      BY <3>1, <3>5 DEF replacement!Refuse, replacement!Advance
    <3>. QED
      BY <3>6 DEF replacement!Next
  <2>. QED
    BY <2>1, <2>2, <2>3 DEF replacement!vars
<1>4. CASE pc \in Busy
  <2>0. idx \in 1..Len(cmd.ops) /\ idx <= Len(place)
    BY <1>0, <1>1, <1>4
  <2>. DEFINE new == place'[idx]
  <2>1. PICK k \in DOMAIN cmd.ops : k = idx
    BY <1>0, <1>4
  <2>2. /\ place' = [place EXCEPT ![idx] = new] /\ new \in SUBSET replacement!Places
        /\ place[idx] = PlaceOf(k) /\ new = PlaceOf(k)'
    BY <1>0, <1>1, <1>2, <2>0, <2>1
  <2>3. /\ ~Returns /\ "source" \in place[idx] => "source" \in new
        /\ (PermissionDenied \/ pc \in {"permission", "open_in"}) => new = place[idx]
        /\ ~Returns /\ place[idx] \cap {"source", "target"} # {}
             => new \cap {"source", "target"} # {}
    BY <1>4, <2>1, <2>2, OperandKept
  <2>. HIDE DEF new
  <2>4. CASE PermissionDenied
    <3>1. place' = place
      BY <1>1, <2>0, <2>2, <2>3, <2>4
    <3>2. idx' = idx + 1 /\ UNCHANGED eval /\ declined' = declined \cup {idx}
      BY <2>4 DEF PermissionDenied, NextOperand
    <3>3. replacement!Decline
      BY <2>0, <3>1, <3>2 DEF replacement!Decline, replacement!Advance
    <3>. QED
      BY <3>3 DEF replacement!Next
  <2>5. CASE ~PermissionDenied /\ Returns
    <3>1. /\ new \cap {"target", "sent"} # {}
          /\ place[idx] \cap {"source", "target"} # {} => new \cap {"source", "target"} # {}
      BY <1>0, <2>1, <2>2, <2>5, ReturnArrives
    <3>2. idx' = idx + 1 /\ UNCHANGED <<eval, declined>>
      BY <2>5 DEF Returns, NextOperand, CloseOutput, RemoveInput, hist
    <3>3. replacement!Put(new)
      BY <2>0, <2>2, <3>1
        DEF replacement!Put, replacement!Safely, replacement!Kept
    <3>4. replacement!Arrive
      BY <2>2, <3>1, <3>2, <3>3 DEF replacement!Arrive, replacement!Advance
    <3>. QED
      BY <3>4 DEF replacement!Next
  <2>6. CASE ~PermissionDenied /\ ~Returns
    <3>1. replacement!Put(new)
      BY <2>0, <2>2, <2>3, <2>6
        DEF replacement!Put, replacement!Safely, replacement!Kept
    <3>2. declined' = declined
      BY <1>4, <2>6
        DEF Step, RefuseOperand, StartOperand, PermissionGiven,
          PermissionDenied, OpenInput, OpenInputFails, StatInput,
          StatInputFails, FirstRead, OpenOutputFails, FirstWrite, CopyBlock,
          WriteFails, ReadEnds, ReadFails, CloseInput, StatOutput,
          StatOutputFails, SetTimes, Exit, OpenOutput, FirstWriteFails,
          FlushBuffer, CloseOutput, WouldGrow, SetOwner, SetMode, RemoveInput,
          CleanUp, hist, Busy, Writing, Closing
    <3>3. CASE idx' = idx
      <4>1. eval' = eval \/ eval' # 0
        BY
          DEF Step, RefuseOperand, StartOperand, PermissionGiven,
            PermissionDenied, OpenInput, OpenInputFails, StatInput,
            StatInputFails, FirstRead, OpenOutputFails, FirstWrite, CopyBlock,
            WriteFails, ReadEnds, ReadFails, CloseInput, StatOutput,
            StatOutputFails, SetTimes, Exit, OpenOutput, FirstWriteFails,
            FlushBuffer, CloseOutput, WouldGrow, SetOwner, SetMode,
            RemoveInput, CleanUp, Warn
      <4>2. replacement!Work
        BY <2>2, <3>1, <3>2, <3>3, <4>1 DEF replacement!Work
      <4>. QED
        BY <4>2 DEF replacement!Next
    <3>4. CASE idx' # idx
      <4>1. idx' = idx + 1 /\ eval' # 0
        BY <1>0, <1>4, <2>6, <3>4, StepReturns
      <4>2. replacement!Refuse
        BY <2>2, <2>3, <2>6, <3>1, <3>2, <4>1
          DEF replacement!Refuse, replacement!Advance
      <4>. QED
        BY <4>2 DEF replacement!Next
    <3>. QED
      BY <3>3, <3>4
  <2>. QED
    BY <2>4, <2>5, <2>6
<1>. QED
  BY <1>3, <1>4

(* compress implements Replacement: at every moment, whatever fails and    *)
(* whenever it is killed, a file is whole at its source or in its target;  *)
(* an operand that fails keeps its source and does not disturb another;    *)
(* and the status tells.                                                   *)
THEOREM CompressReplaces == Spec => Replaces
<1>1. Init /\ IInv => replacement!Init
  BY PlaceFacts DEF Init, IInv, replacement!Init
<1>2. IInv /\ IInv' /\ [Next]_vars => [replacement!Next]_(replacement!vars)
  <2>. SUFFICES ASSUME IInv, IInv', [Next]_vars
                PROVE  replacement!Next \/ UNCHANGED replacement!vars
    OBVIOUS
  <2>1. CASE Step
    BY <2>1, StepReplaces
  <2>2. CASE UNCHANGED vars
    <3>1. UNCHANGED <<place, idx, eval, declined>>
      BY <2>2
        DEF vars, hist, streams, place, Alone, Source, Target, Compressing,
          OutForm,
        Holds, Keeps, IsFile, Exists
    <3>. QED
      BY <3>1 DEF replacement!vars
  <2>. QED
    BY <2>1, <2>2 DEF Next, Done
<1>. QED
  BY <1>1, <1>2, Invariant, PTL DEF Spec, Replaces, replacement!Spec
=============================================================================
