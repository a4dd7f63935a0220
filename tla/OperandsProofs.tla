---------------------------- MODULE OperandsProofs ----------------------------
(***************************************************************************)
(* Theorems about Operands, for every set of paths, every command line and *)
(* tree, and any number of refused calls and steps of other processes.     *)
(***************************************************************************)
EXTENDS Operands, FiniteSetTheorems, TLAPS

Parts == UNION {ToSet(p) : p \in Paths}
AnyPath == Seq(Parts)
Contents == Paths \cup {<<>>}
Times == {"other", Asked}
Types == {"file", "dir", "link", "fifo"}
Inodes ==
  [type : Types, content : Contents, atime : Times, mtime : Times, data : BOOLEAN]
Objects == [id : Nat, key : Int, there : BOOLEAN]

(* What each utility keeps in state.                                       *)
DirStates == [pc : {"stat", "mkdir", "made", "parents"}, stack : Seq(AnyPath), dn : AnyPath]
LnStates ==
  [pc : {"pre_walk", "access", "unlink", "link", "hard"}, have_2arg_form : BOOLEAN,
   target : Contents, linkbuf : SUBSET Nat]
TouchStates ==
  [pc : {"stat", "utime", "creat"}, second_time : BOOLEAN, seen : Nat,
   ut : {<<>>} \cup (Times \X Times)]
PathchkStates == [pc : {"lstat", "find", "pathconf"}, handle : AnyPath]
IpcrmStates == [pc : {"push", "lookup", "rmid"}, id : Int]
IpcsStates ==
  [pc : {"info", "stat", "printed"}, index : Nat, max : Nat,
   listed : SUBSET Objects, before : SUBSET Objects]
StateOK ==
  /\ cmd.util \in DirUtils => state \in DirStates
  /\ cmd.util \in {"ln", "link"} => state \in LnStates
  /\ cmd.util = "touch" =>
       state \in TouchStates /\ (state.pc # "stat" => state.ut \in Times \X Times)
  /\ cmd.util = "pathchk" => state \in PathchkStates
  /\ cmd.util = "ipcrm" => state \in IpcrmStates
  /\ cmd.util = "ipcs" => state \in IpcsStates

FilesOK ==
  /\ inode \in Seq(Inodes)
  /\ \A n \in DOMAIN inode : inode[n].type = "link" => inode[n].content # <<>>
  /\ name \in [Paths -> Nat] /\ \A p \in Paths : name[p] <= Len(inode)
(* An identifier is given once, and it is given out in order.              *)
ObjectsOK ==
  /\ ipc \subseteq Objects /\ IsFiniteSet(ipc)
  /\ \A o \in ipc : o.id < Cardinality(ipc)
  /\ \A o, q \in ipc : o.id = q.id => o = q
TypeInv ==
  /\ IsCommand(cmd) /\ FilesOK /\ ObjectsOK
  /\ arg \in 1..(Len(cmd.args) + 1) /\ exit_status \in {0, 1}
  /\ status \in {"running", "ok", "error", "aborted"}
  /\ status = "ok" => exit_status = 0 /\ arg = Len(cmd.args) + 1
  /\ StateOK
  /\ refused \subseteq DOMAIN cmd.args /\ others \in Nat

-----------------------------------------------------------------------------
(* The strengthening of StatusTells: the exit status is not 0 from a       *)
(* refusal to the end of the walk, save where the utility gives up at once *)
(* or ln counts the last operand only.                                     *)
OneOperand ==
  \/ cmd.util \in {"link", "unlink", "ipcs"}
  \/ cmd.util = "ln" /\ state.have_2arg_form
StatusInv ==
  /\ cmd.util = "ln" /\ state.pc = "pre_walk" => arg = 1 /\ state.have_2arg_form
  /\ cmd.util = "ln" /\ state.have_2arg_form /\ state.pc # "pre_walk" => Len(cmd.args) = 1
  /\ OneOperand /\ arg = 1 /\ status = "running" => exit_status = 0 /\ refused = {}
  /\ exit_status = 1 \/ status \in {"error", "aborted"} => refused # {}
  /\ exit_status = 0 /\ status \in {"running", "ok"} =>
       IF LastCounts THEN arg - 1 \notin refused ELSE refused = {}
  /\ LastCounts => refused \subseteq 1..(arg - 1)

-----------------------------------------------------------------------------
(* The strengthening of RemovesOnlyNamed: what is about to be removed was  *)
(* named, and what touch is about to truncate is new.                      *)
NewTo(p) == Type(p) = "file" => Number(p) > state.seen
RmdirNamed ==
  cmd.util = "rmdir" =>
    \/ state.pc = "stat"
    \/ state.pc = "parents" /\ cmd.opt_recurse /\ IsPrefix(state.dn, Operand)
LnNamed == cmd.util = "ln" /\ state.pc = "unlink" => cmd.opt_force
TouchNamed ==
  cmd.util = "touch" /\ state.pc = "creat" =>
    state.seen <= Len(inode) /\ NewTo(Operand) /\ NewTo(Follow(Operand))
IpcrmNamed ==
  cmd.util = "ipcrm" /\ state.pc = "rmid" =>
    IF Operand.kind = "id" THEN state.id = int(Operand.n)
    ELSE \E o \in ipc : o.id = state.id /\ o.key = int(Operand.n)
NamedInv ==
  status = "running" /\ arg <= Len(cmd.args) =>
    RmdirNamed /\ LnNamed /\ TouchNamed /\ IpcrmNamed

-----------------------------------------------------------------------------
(* The strengthening of OperandsSettled.                                   *)
Settled(i) == i \in reached \cup refused \/ FromText(i)
(* ln: what the link is made to is the operand, or the text of one.        *)
LnInv ==
  cmd.util = "ln" /\ state.pc = "hard" =>
    ~cmd.opt_symlink /\ (arg \in state.linkbuf \/ state.target = Operand)
(* rmdir: the operand itself is gone when the turn is its parents'.        *)
RmdirInv == cmd.util = "rmdir" /\ state.pc = "parents" => arg \in reached
TouchInv ==
  cmd.util = "touch" /\ state.pc # "stat" =>
    /\ cmd.opt_atime => state.ut[1] = Asked
    /\ cmd.opt_mtime => state.ut[2] = Asked
(* ipcrm: no two objects have one key; of the private ones there was none. *)
KeysInv == \A o, q \in Live : o.key = q.key /\ o.key # IPC_PRIVATE => o = q
Private(i) == cmd.args[i].kind = "key" /\ int(cmd.args[i].n) = IPC_PRIVATE
IpcrmInv ==
  cmd.util = "ipcrm" =>
    /\ \A i \in DOMAIN cmd.args : Private(i) /\ ~Invalid(i) => i \in reached
    /\ state.pc # "push" => \A i \in DOMAIN cmd.args : Invalid(i) => i \in refused
    /\ state.pc = "push" => arg = 1
    /\ state.pc = "rmid" => ~Invalid(arg)
(* ipcs: what was there from the start is listed up to the index.          *)
IpcsInv ==
  cmd.util = "ipcs" =>
    /\ \A o \in state.before : o.id <= state.max /\ o.id < Cardinality(ipc)
    /\ \A o \in state.before \cap Live : o.id < state.index => o \in state.listed
    /\ state.pc = "info" => state.index = 0 /\ state.before = {}
    /\ state.pc = "stat" => state.index <= state.max
    /\ state.pc = "printed" => 1 \in reached
SettledInv ==
  /\ \A i \in DOMAIN cmd.args :
       i < arg \/ (status = "error" /\ state.pc # "pre_walk") => Settled(i)
  /\ status = "running" => LnInv /\ RmdirInv /\ TouchInv /\ IpcrmInv /\ IpcsInv
  /\ KeysInv

-----------------------------------------------------------------------------
(* Operators of the model.                                                 *)

LEMMA PrefixLength ==
  ASSUME NEW S, NEW s \in Seq(S), NEW n \in 0..Len(s)
  PROVE  Len(SubSeq(s, 1, n)) = n
OBVIOUS

LEMMA PathFacts ==
  ASSUME NEW p \in AnyPath
  PROVE  /\ Front(p) \in AnyPath /\ <<>> \in AnyPath
         /\ p # <<>> => Len(Front(p)) = Len(p) - 1 /\ IsPrefix(Front(p), p)
         /\ IsPrefix(p, p)
<1>1. p \in Seq(Parts) /\ Len(p) \in Nat /\ (p # <<>> => Len(p) > 0)
  BY DEF AnyPath
<1>2. CASE p = <<>>
  <2>1. Len(p) = 0 /\ SubSeq(p, 1, 0 - 1) = <<>>
    BY <1>2
  <2>. QED
    BY <1>2, <2>1 DEF AnyPath, Front, IsPrefix
<1>3. CASE p # <<>>
  <2>1. Front(p) \in Seq(Parts) /\ Len(Front(p)) = Len(p) - 1
    <3>1. 1 \in 1..(Len(p) + 1) /\ Len(p) - 1 \in 0..Len(p)
      BY <1>1, <1>3
    <3>2. SubSeq(p, 1, Len(p) - 1) \in Seq(Parts)
      BY <1>1, <3>1
    <3>3. Len(SubSeq(p, 1, Len(p) - 1)) = Len(p) - 1
      BY <1>1, <1>3, <3>1, PrefixLength
    <3>. QED
      BY <3>2, <3>3 DEF Front
  <2>2. \A i \in 1..(Len(p) - 1) : Front(p)[i] = p[i]
    BY <1>1, <1>3 DEF Front
  <2>3. SubSeq(Front(p), 1, Len(Front(p))) = SubSeq(p, 1, Len(Front(p)))
    BY <1>1, <2>1, <2>2
  <2>. QED
    BY <1>1, <1>3, <2>1, <2>3 DEF AnyPath, IsPrefix
<1>. QED
  BY <1>2, <1>3

LEMMA PathsArePaths == Paths \subseteq AnyPath /\ Contents \subseteq AnyPath
<1>1. ASSUME NEW p \in Paths PROVE p \in AnyPath
  <2>1. p \in Seq(ToSet(p)) /\ ToSet(p) \subseteq Parts
    BY OperandsAssumption DEF Parts
  <2>. QED
    BY <2>1 DEF AnyPath
<1>2. <<>> \in AnyPath
  BY DEF AnyPath
<1>. QED
  BY <1>1, <1>2 DEF Contents

LEMMA NumberFacts ==
  ASSUME FilesOK, NEW p
  PROVE  /\ Number(p) \in Nat /\ Number(p) <= Len(inode)
         /\ Type(p) \in Types \cup {"none"}
         /\ Type(p) \in {"file", "link", "fifo"} =>
              p \in Paths /\ Number(p) \in DOMAIN inode /\ Type(p) = inode[Number(p)].type
         /\ p # <<>> /\ Number(p) # NoFile => Type(p) = inode[Number(p)].type /\ Exists(p)
         /\ p # <<>> /\ Number(p) = NoFile => Type(p) = "none"
         /\ p \in Paths => p # <<>> /\ Number(p) = name[p]
<1>1. Number(p) \in Nat /\ Number(p) <= Len(inode) /\ Len(inode) \in Nat
  BY DEF FilesOK, Number, NoFile
<1>2. Number(p) # NoFile => Number(p) \in DOMAIN inode /\ inode[Number(p)].type \in Types
  <2>1. inode \in Seq(Inodes) /\ DOMAIN inode = 1..Len(inode)
    BY DEF FilesOK
  <2>2. Number(p) # NoFile => Number(p) \in 1..Len(inode)
    BY <1>1 DEF NoFile
  <2>3. \A n \in DOMAIN inode : inode[n] \in Inodes
    BY <2>1
  <2>. QED
    BY <2>1, <2>2, <2>3 DEF Inodes
<1>3. Number(p) # NoFile => p \in Paths
  BY DEF Number
<1>. QED
  BY <1>1, <1>2, <1>3, OperandsAssumption DEF Type, Types, Exists, Number, NoFile

LEMMA FollowFacts ==
  ASSUME FilesOK, NEW p \in Paths
  PROVE  /\ Follow(p) # <<>>
         /\ Type(p) # "link" => Follow(p) = p
         /\ Accessible(p) =>
              /\ Number(Follow(p)) \in DOMAIN inode
              /\ Type(Follow(p)) = inode[Number(Follow(p))].type
<1>1. p # <<>> /\ p \in AnyPath /\ Front(p) \in AnyPath
  BY PathFacts, PathsArePaths, OperandsAssumption
<1>2. Follow(p) # <<>>
  <2>1. CASE Type(p) = "link"
    <3>0. /\ Number(p) \in DOMAIN inode /\ inode[Number(p)].type = "link"
          /\ inode[Number(p)] \in Inodes
      BY <2>1, NumberFacts DEF FilesOK
    <3>1. inode[Number(p)].content \in AnyPath /\ inode[Number(p)].content # <<>>
      BY <3>0, PathsArePaths DEF FilesOK, Inodes
    <3>. QED
      BY <1>1, <2>1, <3>1 DEF Follow, AnyPath
  <2>. QED
    BY <1>1, <2>1 DEF Follow
<1>3. Accessible(p) => Number(Follow(p)) # NoFile
  BY <1>2, NumberFacts DEF Accessible
<1>4. Number(Follow(p)) # NoFile => Number(Follow(p)) \in DOMAIN inode
  BY NumberFacts DEF FilesOK, NoFile
<1>. QED
  BY <1>2, <1>3, <1>4, NumberFacts DEF Follow

LEMMA CreateFacts ==
  ASSUME FilesOK, NEW p, CanCreate(p), NEW node \in Inodes, Create(p, node),
         node.type = "link" => node.content # <<>>
  PROVE  /\ FilesOK'
         /\ p \in Paths /\ Number(p) = NoFile /\ Type(p) = "none"
         /\ Len(inode') = Len(inode) + 1 /\ Len(inode) \in Nat
         /\ inode'[Len(inode) + 1] = node
         /\ \A n \in DOMAIN inode : n \in DOMAIN inode' /\ inode'[n] = inode[n]
         /\ \A q : Number(q)' = IF q = p THEN Len(inode) + 1 ELSE Number(q)
         /\ \A q : Type(q)' = IF q = p THEN node.type ELSE Type(q)
<1>1. p \in Paths /\ Number(p) = NoFile /\ Type(p) = "none" /\ p # <<>>
  BY NumberFacts DEF CanCreate, Exists
<1>2. inode' = Append(inode, node) /\ inode \in Seq(Inodes) /\ Len(inode) \in Nat
  BY DEF Create, FilesOK
<1>3. /\ inode' \in Seq(Inodes) /\ Len(inode') = Len(inode) + 1
      /\ DOMAIN inode' = DOMAIN inode \cup {Len(inode) + 1}
      /\ inode'[Len(inode) + 1] = node
      /\ \A n \in DOMAIN inode : inode'[n] = inode[n]
  BY <1>2
<1>4. /\ name' \in [Paths -> Nat] /\ name'[p] = Len(inode) + 1
      /\ \A q \in Paths : q # p => name'[q] = name[q]
  BY <1>1, <1>2 DEF Create, FilesOK
<1>5. FilesOK'
  BY <1>3, <1>4 DEF FilesOK
<1>6. \A q : Number(q)' = IF q = p THEN Len(inode) + 1 ELSE Number(q)
  BY <1>1, <1>4 DEF Number
<1>7. ASSUME NEW q PROVE Type(q)' = IF q = p THEN node.type ELSE Type(q)
  <2>1. Number(q) # NoFile => Number(q) \in DOMAIN inode
    BY NumberFacts DEF NoFile, FilesOK
  <2>. QED
    BY <1>1, <1>2, <1>3, <1>6, <2>1 DEF Type, NoFile
<1>. QED
  BY <1>1, <1>2, <1>3, <1>5, <1>6, <1>7

LEMMA UnnameFacts ==
  ASSUME FilesOK, NEW p \in Paths, Unname(p)
  PROVE  /\ FilesOK' /\ inode' = inode
         /\ \A q : Number(q)' = IF q = p THEN NoFile ELSE Number(q)
         /\ \A q : Type(q)' = IF q = p THEN "none" ELSE Type(q)
<1>1. name' \in [Paths -> Nat] /\ name'[p] = 0 /\ \A q \in Paths : q # p => name'[q] = name[q]
  BY DEF Unname, FilesOK, NoFile
<1>2. FilesOK' /\ inode' = inode
  BY <1>1 DEF FilesOK, Unname
<1>3. \A q : Number(q)' = IF q = p THEN NoFile ELSE Number(q)
  BY <1>1 DEF Number, NoFile
<1>. QED
  BY <1>2, <1>3, OperandsAssumption DEF Type

LEMMA LinkFacts ==
  ASSUME FilesOK, NEW p, NEW q, CanLink(q, p),
         name' = [name EXCEPT ![p] = Number(q)], inode' = inode
  PROVE  /\ FilesOK' /\ p \in Paths /\ q # p /\ Number(p) = NoFile /\ Type(p) = "none"
         /\ \A r : Number(r)' = IF r = p THEN Number(q) ELSE Number(r)
         /\ \A r : Type(r)' = IF r = p THEN Type(q) ELSE Type(r)
<1>1. /\ p \in Paths /\ Number(p) = NoFile /\ Type(p) = "none" /\ p # <<>>
      /\ Type(q) # "none" /\ q \in Paths /\ q # <<>>
  BY NumberFacts DEF CanLink, CanCreate, CanUnlink, Exists
<1>2. Number(q) \in Nat /\ Number(q) <= Len(inode)
  BY NumberFacts
<1>3. /\ name' \in [Paths -> Nat] /\ name'[p] = Number(q)
      /\ \A r \in Paths : r # p => name'[r] = name[r]
  BY <1>1, <1>2 DEF FilesOK
<1>4. FilesOK'
  BY <1>2, <1>3 DEF FilesOK
<1>5. \A r : Number(r)' = IF r = p THEN Number(q) ELSE Number(r)
  BY <1>1, <1>3 DEF Number
<1>. QED
  BY <1>1, <1>4, <1>5 DEF Type

(* touch changes what an inode holds, not what it is.                      *)
LEMMA RetouchFacts ==
  ASSUME FilesOK, UNCHANGED name, NEW n \in DOMAIN inode, NEW node \in Inodes,
         inode' = [inode EXCEPT ![n] = node],
         node.type = inode[n].type, node.content = inode[n].content
  PROVE  /\ FilesOK' /\ DOMAIN inode' = DOMAIN inode
         /\ \A p : Number(p)' = Number(p) /\ Type(p)' = Type(p) /\ Follow(p)' = Follow(p)
<1>1. inode' \in Seq(Inodes) /\ Len(inode') = Len(inode) /\ DOMAIN inode' = DOMAIN inode
  BY DEF FilesOK
<1>2. \A m \in DOMAIN inode : /\ inode'[m].type = inode[m].type
                              /\ inode'[m].content = inode[m].content
  BY DEF FilesOK
<1>3. FilesOK'
  BY <1>1, <1>2 DEF FilesOK
<1>4. \A p : Number(p)' = Number(p)
  BY DEF Number
<1>5. ASSUME NEW p PROVE Type(p)' = Type(p)
  <2>1. Number(p) # NoFile => Number(p) \in DOMAIN inode
    BY NumberFacts DEF NoFile, FilesOK
  <2>. QED
    BY <1>2, <1>4, <2>1 DEF Type
<1>6. ASSUME NEW p PROVE Follow(p)' = Follow(p)
  BY <1>2, <1>4, <1>5, NumberFacts DEF Follow
<1>. QED
  BY <1>1, <1>3, <1>4, <1>5, <1>6

Add(k) == ipc' = ipc \cup {[id |-> Fresh, key |-> k, there |-> TRUE]}
LEMMA AddObject ==
  ASSUME ObjectsOK, NEW k \in Int, Add(k)
  PROVE  /\ ObjectsOK' /\ Fresh \in Nat /\ Cardinality(ipc') = Cardinality(ipc) + 1
         /\ \A o \in ipc : o.id # Fresh
<1>. DEFINE new == [id |-> Fresh, key |-> k, there |-> TRUE]
<1>1. Cardinality(ipc) \in Nat /\ new \in Objects /\ new \notin ipc
  BY FS_CardinalityType DEF ObjectsOK, Fresh, Objects
<1>2. IsFiniteSet(ipc') /\ Cardinality(ipc') = Cardinality(ipc) + 1
  BY <1>1, FS_AddElement DEF ObjectsOK, Add
<1>3. \A o \in ipc : o.id \in Nat /\ o.id < Cardinality(ipc)
  BY DEF ObjectsOK, Objects
<1>4. new.id = Cardinality(ipc)
  BY DEF Fresh
<1>5. ipc' = ipc \cup {new}
  BY DEF Add
<1>. HIDE DEF new
<1>. QED
  BY <1>1, <1>2, <1>3, <1>4, <1>5 DEF ObjectsOK, Fresh

LEMMA GoneObject ==
  ASSUME ObjectsOK, NEW o \in Live, Gone(o)
  PROVE  /\ ObjectsOK' /\ Cardinality(ipc') = Cardinality(ipc)
         /\ \A q \in ipc : \E r \in ipc' : r.id = q.id /\ r.key = q.key
         /\ \A q \in Live' : q \in Live /\ q # o
         /\ \A q \in ipc : q # o => q \in ipc'
<1>. DEFINE gone == [o EXCEPT !.there = FALSE]
<1>1. o \in ipc /\ o.there /\ o \in Objects
  BY DEF Live, ObjectsOK
<1>2. gone \in Objects /\ gone.id = o.id /\ gone.key = o.key /\ ~gone.there
  BY <1>1 DEF Objects
<1>3. gone \notin ipc
  BY <1>1, <1>2 DEF ObjectsOK
<1>4. ipc' = (ipc \ {o}) \cup {gone}
  BY DEF Gone
<1>. HIDE DEF gone
<1>5. IsFiniteSet(ipc \ {o}) /\ Cardinality(ipc \ {o}) = Cardinality(ipc) - 1
  BY <1>1, FS_RemoveElement DEF ObjectsOK
<1>6. IsFiniteSet(ipc') /\ Cardinality(ipc') = Cardinality(ipc)
  <2>1. gone \notin ipc \ {o} /\ Cardinality(ipc) \in Nat
    BY <1>3, FS_CardinalityType DEF ObjectsOK
  <2>2. /\ IsFiniteSet((ipc \ {o}) \cup {gone})
        /\ Cardinality((ipc \ {o}) \cup {gone}) = Cardinality(ipc \ {o}) + 1
    BY <1>5, <2>1, FS_AddElement
  <2>. QED
    BY <1>4, <1>5, <2>1, <2>2
<1>7. ObjectsOK'
  BY <1>1, <1>2, <1>4, <1>6 DEF ObjectsOK
<1>8. \A q \in Live' : q \in Live /\ q # o
  BY <1>1, <1>2, <1>4 DEF Live
<1>. QED
  BY <1>2, <1>4, <1>6, <1>7, <1>8

LEMMA SetToSeqFacts ==
  ASSUME NEW S, IsFiniteSet(S)
  PROVE  Cardinality(S) \in Nat /\ SetToSeq(S) \in [1..Cardinality(S) -> S]
<1>1. Cardinality(S) \in Nat /\ ExistsBijection(1..Cardinality(S), S)
  BY FS_CardinalityType
<1>2. \E f \in [1..Cardinality(S) -> S] : IsInjective(f)
  <2>1. PICK f \in Bijection(1..Cardinality(S), S) : TRUE
    BY <1>1 DEF ExistsBijection
  <2>2. f \in [1..Cardinality(S) -> S]
    BY <2>1 DEF Bijection, Injection
  <2>3. \A a, b \in 1..Cardinality(S) : f[a] = f[b] => a = b
    BY <2>1, <2>2 DEF Bijection, Injection, IsInjective
  <2>. QED
    BY <2>2, <2>3 DEF IsInjective
<1>. QED
  BY <1>1, <1>2 DEF SetToSeq

LEMMA InitFiles == Init => FilesOK
<1>. SUFFICES ASSUME Init PROVE FilesOK
  OBVIOUS
<1>. DEFINE Nodes_(t) == SetToSeq(t)
            At(t, p) == {n \in DOMAIN SetToSeq(t) : SetToSeq(t)[n].path = p}
<1>1. PICK tree \in Trees :
        /\ name = [p \in Paths |-> IF At(tree, p) = {} THEN NoFile
                                   ELSE CHOOSE n \in At(tree, p) : TRUE]
        /\ inode = [n \in DOMAIN SetToSeq(tree) |->
             [Inode(SetToSeq(tree)[n].type, SetToSeq(tree)[n].content)
                EXCEPT !.data = SetToSeq(tree)[n].type = "file"]]
  BY DEF Init
<1>. DEFINE nodes == SetToSeq(tree)
            N == Cardinality(tree)
<1>2. /\ IsFiniteSet(tree) /\ tree \subseteq Nodes
      /\ \A node \in tree : node.type = "link" => node.content # <<>>
  BY OperandsAssumption
<1>3. N \in Nat /\ nodes \in [1..N -> tree]
  BY <1>2, SetToSeqFacts
<1>4. \A n \in 1..N : /\ nodes[n].type \in Types /\ nodes[n].content \in Contents
                      /\ nodes[n].type = "link" => nodes[n].content # <<>>
  BY <1>2, <1>3 DEF Nodes, Types, Contents
<1>5. /\ DOMAIN inode = 1..N
      /\ \A n \in 1..N : inode[n] = [Inode(nodes[n].type, nodes[n].content)
                                       EXCEPT !.data = nodes[n].type = "file"]
  BY <1>1, <1>3
<1>6. \A p \in Paths : At(tree, p) \subseteq 1..N
  BY <1>3
<1>. HIDE DEF nodes, N, At
<1>7. ASSUME NEW n \in 1..N
      PROVE  inode[n] \in Inodes /\ inode[n].type = nodes[n].type
             /\ inode[n].content = nodes[n].content
  <2>1. inode[n] = [type |-> nodes[n].type, content |-> nodes[n].content, atime |-> "other",
                    mtime |-> "other", data |-> nodes[n].type = "file"]
    <3>1. PICK t, c, d : t = nodes[n].type /\ c = nodes[n].content /\ d = (nodes[n].type = "file")
      OBVIOUS
    <3>2. inode[n] = [Inode(t, c) EXCEPT !.data = d]
      BY <1>5, <3>1
    <3>. QED
      BY <3>1, <3>2 DEF Inode
  <2>2. inode[n].type = nodes[n].type /\ inode[n].content = nodes[n].content
    BY <2>1
  <2>3. inode[n] \in Inodes
    BY <1>4, <2>1 DEF Inodes, Times
  <2>. QED
    BY <2>2, <2>3
<1>8. inode \in Seq(Inodes) /\ Len(inode) = N
  <2>1. inode \in [1..N -> Inodes]
    BY <1>1, <1>5, <1>7
  <2>. QED
    BY <1>3, <2>1
<1>9. \A n \in DOMAIN inode : inode[n].type = "link" => inode[n].content # <<>>
  BY <1>4, <1>5, <1>7
<1>10. name \in [Paths -> Nat] /\ \A p \in Paths : name[p] <= N
  <2>1. ASSUME NEW p \in Paths PROVE name[p] \in Nat /\ name[p] <= N
    <3>1. CASE At(tree, p) = {}
      BY <1>1, <1>3, <3>1 DEF NoFile
    <3>2. CASE At(tree, p) # {}
      <4>1. name[p] \in At(tree, p)
        BY <1>1, <3>2
      <4>. QED
        BY <1>3, <1>6, <4>1
    <3>. QED
      BY <3>1, <3>2
  <2>. QED
    BY <1>1, <2>1
<1>. QED
  BY <1>8, <1>9, <1>10 DEF FilesOK

LEMMA InitStart ==
  ASSUME Init
  PROVE  /\ IsCommand(cmd) /\ ObjectsOK /\ Cardinality(ipc) = 1
         /\ arg = 1 /\ exit_status = 0 /\ status = "running" /\ refused = {}
         /\ Len(cmd.args) \in Nat /\ DOMAIN cmd.args = 1..Len(cmd.args)
         /\ cmd.util \in FileUtils \cup IpcUtils
         /\ cmd.util \in DirUtils => state = DirStart
         /\ cmd.util \in {"ln", "link"} => state = LnStart
         /\ cmd.util = "touch" => state = TouchStart
         /\ cmd.util = "pathchk" => state = PathchkStart
         /\ cmd.util = "ipcrm" => state = RmStart
         /\ cmd.util = "ipcs" => state = LsStart
<1>1. IsCommand(cmd)
  BY OperandsAssumption DEF Init
<1>2. Len(cmd.args) \in Nat /\ DOMAIN cmd.args = 1..Len(cmd.args)
  BY <1>1 DEF IsCommand, FileUtils, DirUtils, IpcUtils
<1>3. /\ cmd.util \in DirUtils => state = DirStart
      /\ cmd.util \in {"ln", "link"} => state = LnStart
      /\ cmd.util = "touch" => state = TouchStart
      /\ cmd.util = "pathchk" => state = PathchkStart
      /\ cmd.util = "ipcrm" => state = RmStart
      /\ cmd.util = "ipcs" => state = LsStart
  BY DEF Init, Start, FileStart, IpcStart, FileUtils, DirUtils
<1>4. ObjectsOK /\ Cardinality(ipc) = 1
  <2>. DEFINE o == [id |-> 0, key |-> 1, there |-> TRUE]
  <2>1. ipc = {o} /\ o \in Objects /\ o.id = 0
    BY DEF Init, Objects
  <2>. HIDE DEF o
  <2>. QED
    BY <2>1, FS_Singleton DEF ObjectsOK
<1>. QED
  BY <1>1, <1>2, <1>3, <1>4 DEF Init, IsCommand

LEMMA InitType == Init => TypeInv
<1>. SUFFICES ASSUME Init PROVE TypeInv
  OBVIOUS
<1>1. StateOK
  <2>1. DirStart \in DirStates
    <3>1. <<>> \in AnyPath /\ <<>> \in Seq(AnyPath)
      BY DEF AnyPath
    <3>. QED
      BY <3>1 DEF DirStart, DirStates
  <2>2. LnStart \in LnStates
    BY DEF LnStart, LnStates, Contents
  <2>3. TouchStart \in TouchStates
    BY DEF TouchStart, TouchStates
  <2>6. TouchStart.pc = "stat"
    BY DEF TouchStart
  <2>4. PathchkStart \in PathchkStates
    BY DEF PathchkStart, PathchkStates, AnyPath
  <2>5. RmStart \in IpcrmStates /\ LsStart \in IpcsStates
    BY DEF RmStart, IpcrmStates, LsStart, IpcsStates
  <2>. QED
    BY <2>1, <2>2, <2>3, <2>4, <2>5, <2>6, InitStart DEF StateOK
<1>. QED
  <2>1. others \in Nat
    BY DEF Init
  <2>. QED
    BY <1>1, <2>1, InitStart, InitFiles DEF TypeInv

-----------------------------------------------------------------------------
(* TypeInv is an invariant.                                                *)

LEMMA CmdFacts ==
  ASSUME TypeInv
  PROVE  /\ Len(cmd.args) \in Nat /\ DOMAIN cmd.args = 1..Len(cmd.args)
         /\ cmd.util \in FileUtils \cup IpcUtils
         /\ cmd.util \in FileUtils =>
              \A i \in DOMAIN cmd.args : cmd.args[i] \in Paths /\ cmd.args[i] # <<>>
         /\ cmd.util = "ipcrm" => \A i \in DOMAIN cmd.args : cmd.args[i] \in IpcOperands
         /\ cmd.util \in {"link", "unlink", "ipcs"} => Len(cmd.args) = 1
         /\ arg <= Len(cmd.args) => arg \in DOMAIN cmd.args
<1>1. IsCommand(cmd) /\ arg \in 1..(Len(cmd.args) + 1)
  BY DEF TypeInv
<1>2. cmd.util \in FileUtils =>
        cmd.args \in Seq(Paths) /\ \A i \in DOMAIN cmd.args : cmd.args[i] \in Paths
  BY <1>1 DEF IsCommand
<1>3. cmd.util = "ipcrm" => cmd.args \in Seq(IpcOperands)
  BY <1>1 DEF IsCommand
<1>4. cmd.util = "ipcs" => cmd.args = <<"all">>
  BY <1>1 DEF IsCommand
<1>5. Len(cmd.args) \in Nat /\ DOMAIN cmd.args = 1..Len(cmd.args)
  BY <1>1, <1>2, <1>3, <1>4 DEF IsCommand, IpcUtils
<1>6. cmd.util \in FileUtils \cup IpcUtils
  BY <1>1 DEF IsCommand
<1>7. cmd.util \in {"link", "unlink", "ipcs"} => Len(cmd.args) = 1
  <2>1. Len(<<"all">>) = 1
    OBVIOUS
  <2>. QED
    BY <1>1, <1>4, <2>1 DEF IsCommand
<1>8. cmd.util = "ipcrm" => \A i \in DOMAIN cmd.args : cmd.args[i] \in IpcOperands
  BY <1>3
<1>9. <<>> \notin Paths
  BY OperandsAssumption
<1>. QED
  BY <1>1, <1>2, <1>5, <1>6, <1>7, <1>8, <1>9

LEMMA intType == \A n \in Nat : int(n) \in Int
BY OperandsAssumption DEF int

LEMMA FilesStep ==
  ASSUME TypeInv, Program
  PROVE  FilesOK'
<1>1. FilesOK
  BY DEF TypeInv
<1>2. CASE UNCHANGED files
  BY <1>1, <1>2 DEF FilesOK, files
<1>3. ASSUME NEW p, NEW t \in Types \ {"link"}, CanCreate(p), Create(p, Inode(t, <<>>))
      PROVE  FilesOK'
  <2>1. Inode(t, <<>>) \in Inodes /\ Inode(t, <<>>).type # "link"
    BY DEF Inode, Inodes, Contents, Times
  <2>. QED
    BY <1>1, <1>3, <2>1, CreateFacts
<1>4. ASSUME NEW p, CanUnlink(p) \/ CanRmdir(p), Unname(p)
      PROVE  FilesOK'
  <2>1. p \in Paths
    BY <1>1, <1>4, NumberFacts DEF CanUnlink, CanRmdir, Number
  <2>. QED
    BY <1>1, <1>4, <2>1, UnnameFacts
<1>5. ASSUME NEW p, NEW q, CanLink(q, p), name' = [name EXCEPT ![p] = Number(q)], UNCHANGED inode
      PROVE  FilesOK'
  BY <1>1, <1>5, LinkFacts
<1>6. CASE mkdir \/ mkfifo_arg
  BY <1>2, <1>3, <1>6 DEF mkdir, mkfifo_arg, Types
<1>7. CASE rmdir_fn_actor \/ unlink \/ Unlink
  BY <1>2, <1>4, <1>7 DEF rmdir_fn_actor, unlink, Unlink
<1>8. CASE Symlink
  <2>1. Operand \in Paths /\ Operand # <<>>
    BY <1>8, CmdFacts DEF Symlink, AtOperand, Running, FileUtils, Operand
  <2>2. /\ Inode("link", Operand) \in Inodes
        /\ Inode("link", Operand).content = Operand
    BY <2>1 DEF Inode, Inodes, Contents, Times, Types
  <2>3. UNCHANGED files \/ (CanCreate(link_name) /\ Create(link_name, Inode("link", Operand)))
    BY <1>8 DEF Symlink
  <2>. QED
    BY <1>1, <1>2, <2>1, <2>2, <2>3, CreateFacts
<1>9. CASE Link \/ link
  BY <1>2, <1>5, <1>9 DEF Link, link
<1>10. CASE again_butthead
  <2>. SUFFICES ASSUME ~UNCHANGED files PROVE FilesOK'
    BY <1>2
  <2>. DEFINE n == Number(Follow(Operand))
              new == [inode[n] EXCEPT !.atime = state.ut[1], !.mtime = state.ut[2]]
  <2>1. /\ Operand \in Paths /\ Accessible(Operand) /\ UNCHANGED name
        /\ inode' = [inode EXCEPT ![n].atime = state.ut[1], ![n].mtime = state.ut[2]]
    BY <1>10, CmdFacts DEF again_butthead, AtOperand, Running, FileUtils, Operand
  <2>2. n \in DOMAIN inode /\ inode[n] \in Inodes
    BY <1>1, <2>1, FollowFacts DEF FilesOK
  <2>3. inode' = [inode EXCEPT ![n] = new]
    BY <2>1, <2>2
  <2>4. new \in Inodes /\ new.type = inode[n].type /\ new.content = inode[n].content
    <3>1. state.ut[1] \in Times /\ state.ut[2] \in Times
      BY <1>10 DEF again_butthead, AtOperand, Running, TypeInv, StateOK
    <3>. QED
      BY <2>2, <3>1 DEF Inodes
  <2>. HIDE DEF n, new
  <2>. QED
    BY <1>1, <2>1, <2>2, <2>3, <2>4, RetouchFacts
<1>11. CASE creat
  <2>. DEFINE to == Follow(Operand)
              n == Number(to)
              new == [inode[n] EXCEPT !.data = FALSE]
  <2>1. \/ UNCHANGED files
        \/ CanCreate(to) /\ Create(to, Inode("file", <<>>))
        \/ Type(to) = "file" /\ UNCHANGED name /\ inode' = [inode EXCEPT ![n].data = FALSE]
    BY <1>11 DEF creat
  <2>2. CASE Type(to) = "file" /\ UNCHANGED name /\ inode' = [inode EXCEPT ![n].data = FALSE]
    <3>1. n \in DOMAIN inode /\ inode[n] \in Inodes
      BY <1>1, <2>2, NumberFacts DEF FilesOK
    <3>2. inode' = [inode EXCEPT ![n] = new]
      BY <2>2, <3>1
    <3>3. new \in Inodes /\ new.type = inode[n].type /\ new.content = inode[n].content
      BY <3>1 DEF Inodes
    <3>. HIDE DEF n, new
    <3>. QED
      BY <1>1, <2>2, <3>1, <3>2, <3>3, RetouchFacts
  <2>. HIDE DEF to
  <2>. QED
    BY <1>2, <1>3, <2>1, <2>2 DEF Types
<1>12. CASE mkdir_arg \/ S_ISDIR \/ ln_pre_walk \/ Access \/ Readlink \/ touch_fn_actor
            \/ PathchkStep \/ IpcStep \/ \E util \in FileUtils : Finish(util)
  <2>1. UNCHANGED files
    BY <1>12 DEF mkdir_arg, S_ISDIR, ln_pre_walk, Access, Readlink, touch_fn_actor, PathchkStep,
         actor, find_fshandle, pathconf, IpcStep, ipcrm, push_arg_opt, Skip, remove_one, IPC_RMID,
         ipcs, IPC_INFO, IPC_STAT, Listed, Finish
  <2>. QED
    BY <1>2, <2>1
<1>. QED
  BY <1>6, <1>7, <1>8, <1>9, <1>10, <1>11, <1>12
     DEF Program, FileStep, DirStep, LnStep, TouchStep, FileUtils, DirUtils

LEMMA ObjectsStep ==
  ASSUME TypeInv, Program
  PROVE  /\ ObjectsOK'
         /\ ~remove_one /\ ~IPC_RMID => UNCHANGED ipc
<1>1. ObjectsOK
  BY DEF TypeInv
<1>2. CASE remove_one
  <2>1. CASE UNCHANGED ipc
    BY <1>1, <2>1 DEF ObjectsOK
  <2>2. CASE ipc' = ipc \cup {[id |-> Fresh, key |-> IPC_PRIVATE, there |-> TRUE]}
    <3>1. IPC_PRIVATE \in Int
      BY DEF IPC_PRIVATE
    <3>2. Add(IPC_PRIVATE)
      BY <2>2 DEF Add
    <3>. QED
      BY <1>1, <1>2, <3>1, <3>2, AddObject
  <2>. QED
    BY <1>2, <2>1, <2>2 DEF remove_one
<1>3. CASE IPC_RMID
  <2>1. CASE UNCHANGED ipc
    BY <1>1, <2>1 DEF ObjectsOK
  <2>2. ASSUME NEW o \in Live, Gone(o) PROVE ObjectsOK'
    BY <1>1, <2>2, GoneObject
  <2>. QED
    BY <1>3, <2>1, <2>2 DEF IPC_RMID
<1>4. CASE ~remove_one /\ ~IPC_RMID
  <2>1. UNCHANGED ipc
    BY <1>4 DEF Program, FileStep, DirStep, LnStep, TouchStep, PathchkStep, IpcStep,
         mkdir_arg, S_ISDIR, mkdir, rmdir_fn_actor, mkfifo_arg, unlink, ln_pre_walk, Access,
         Unlink, Symlink, Readlink, Link, link, touch_fn_actor, again_butthead, creat,
         actor, find_fshandle, pathconf, ipcrm, push_arg_opt, Skip, ipcs, IPC_INFO, IPC_STAT,
         Listed, Finish
  <2>. QED
    BY <1>1, <2>1 DEF ObjectsOK
<1>5. (remove_one \/ IPC_RMID) => ObjectsOK'
  BY <1>2, <1>3
<1>. QED
  BY <1>4, <1>5

(* A step of a utility is at an operand, or the walk is at its end.        *)
AtEnd == arg > Len(cmd.args) /\ Exit(exit_status) /\ UNCHANGED refused
Refusing == refused' = refused \cup {arg}
Outcome ==
  \/ UNCHANGED <<cmd, arg, status>> /\ exit_status' \in {0, 1, exit_status}
  \/ \E rc \in {0, 1, exit_status} : arg' = arg + 1 /\ exit_status' = rc /\ UNCHANGED <<cmd, status>>
  \/ status' = "aborted" /\ UNCHANGED <<cmd, arg, exit_status>>
  \/ Exit(1)

LEMMA OutcomeStep ==
  ASSUME TypeInv, Program
  PROVE  /\ status = "running"
         /\ \/ AtEnd
            \/ cmd.util = "ipcrm" /\ push_arg_opt
            \/ arg <= Len(cmd.args) /\ Outcome /\ (Refusing \/ UNCHANGED refused)
<1>1. CASE DirStep
  BY <1>1 DEF DirStep, mkdir_arg, S_ISDIR, mkdir, rmdir_fn_actor, mkfifo_arg, unlink, mkdir_fails,
     mkdir_return, Finish, AtOperand, Running, Goto, NextOperand, Abort, Granted, Deny, Refused,
     AtEnd, Outcome, Refusing
<1>2. CASE LnStep
  BY <1>2 DEF LnStep, ln_pre_walk, Access, Unlink, Symlink, Readlink, Link, link, LinkDone,
     Finish, AtOperand, Running, Goto, NextOperand, Abort, Granted, Deny, Refused,
     AtEnd, Outcome, Refusing
<1>3. CASE TouchStep
  BY <1>3 DEF TouchStep, touch_fn_actor, again_butthead, creat,
     Finish, AtOperand, Running, Goto, NextOperand, Abort, Granted, Deny, Refused,
     AtEnd, Outcome, Refusing
<1>4. CASE PathchkStep
  BY <1>4 DEF PathchkStep, actor, find_fshandle, pathconf,
     Finish, AtOperand, Running, Goto, NextOperand, Abort, Granted, Deny, Refused,
     AtEnd, Outcome, Refusing
<1>5. CASE IpcStep
  BY <1>5 DEF IpcStep, ipcrm, Skip, remove_one, IPC_RMID, ipcs, IPC_INFO, IPC_STAT, Listed,
     Found, Failed, push_arg_opt,
     Finish, AtOperand, Running, Goto, NextOperand, Abort, Granted, Deny, Refused,
     AtEnd, Outcome, Refusing
<1>. QED
  BY <1>1, <1>2, <1>3, <1>4, <1>5 DEF Program, FileStep

LEMMA WalkStep ==
  ASSUME TypeInv, Program
  PROVE  /\ cmd' = cmd /\ IsCommand(cmd)'
         /\ arg' \in 1..(Len(cmd.args) + 1) /\ arg' \in {arg, arg + 1}
         /\ exit_status' \in {0, 1} /\ status' \in {"running", "ok", "error", "aborted"}
         /\ status' = "ok" => exit_status' = 0 /\ arg' = Len(cmd.args) + 1
         /\ refused' \subseteq DOMAIN cmd.args
<1>1. /\ Len(cmd.args) \in Nat /\ DOMAIN cmd.args = 1..Len(cmd.args)
      /\ arg \in 1..(Len(cmd.args) + 1) /\ exit_status \in {0, 1} /\ refused \subseteq DOMAIN cmd.args
      /\ IsCommand(cmd)
  BY CmdFacts DEF TypeInv
<1>2. CASE AtEnd
  BY <1>1, <1>2 DEF AtEnd, Exit
<1>3. CASE cmd.util = "ipcrm" /\ push_arg_opt
  <2>1. /\ UNCHANGED <<cmd, arg, status>> /\ exit_status' \in {0, 1}
        /\ refused' \subseteq DOMAIN cmd.args
    BY <1>3 DEF push_arg_opt
  <2>. QED
    BY <1>1, <1>3, <2>1, OutcomeStep
<1>4. CASE arg <= Len(cmd.args) /\ Outcome /\ (Refusing \/ UNCHANGED refused)
  <2>1. arg \in DOMAIN cmd.args /\ arg + 1 \in 1..(Len(cmd.args) + 1)
    BY <1>1, <1>4
  <2>2. refused' \subseteq DOMAIN cmd.args
    BY <1>1, <1>4, <2>1 DEF Refusing
  <2>3. status = "running"
    BY OutcomeStep
  <2>. QED
    BY <1>1, <1>4, <2>1, <2>2, <2>3 DEF Outcome, Exit
<1>. QED
  BY <1>2, <1>3, <1>4, OutcomeStep

(* Only the steps of the utility itself are taken.                         *)
LEMMA UtilityStep ==
  ASSUME Program
  PROVE  /\ cmd.util \in DirUtils => DirStep
         /\ cmd.util \in {"ln", "link"} => LnStep
         /\ cmd.util = "touch" => TouchStep
         /\ cmd.util = "pathchk" => PathchkStep
         /\ cmd.util = "ipcrm" => ipcrm
         /\ cmd.util = "ipcs" => ipcs
<1>1. DirStep => cmd.util \in DirUtils
  BY DEF DirStep, mkdir_arg, S_ISDIR, mkdir, rmdir_fn_actor, mkfifo_arg, unlink, Finish,
     AtOperand, Running, DirUtils
<1>2. LnStep => cmd.util \in {"ln", "link"}
  BY DEF LnStep, ln_pre_walk, Access, Unlink, Symlink, Readlink, Link, link, Finish,
     AtOperand, Running
<1>3. TouchStep => cmd.util = "touch"
  BY DEF TouchStep, touch_fn_actor, again_butthead, creat, Finish, AtOperand, Running
<1>4. PathchkStep => cmd.util = "pathchk"
  BY DEF PathchkStep, actor, find_fshandle, pathconf, Finish, AtOperand, Running
<1>5. ipcrm => cmd.util = "ipcrm"
  BY DEF ipcrm, push_arg_opt, Skip, remove_one, IPC_RMID, Finish, AtOperand, Running
<1>6. ipcs => cmd.util = "ipcs"
  BY DEF ipcs, IPC_INFO, IPC_STAT, Listed, Finish, AtOperand, Running
<1>. QED
  BY <1>1, <1>2, <1>3, <1>4, <1>5, <1>6 DEF Program, FileStep, IpcStep, DirUtils

LEMMA DirState ==
  ASSUME TypeInv, DirStep
  PROVE  state' \in DirStates
<1>1. state \in DirStates /\ cmd.util \in DirUtils
  BY DEF TypeInv, StateOK, DirStep, DirUtils, mkdir_arg, S_ISDIR, mkdir, rmdir_fn_actor, mkfifo_arg,
     unlink, Finish, AtOperand, Running
<1>. DEFINE pcs == {"stat", "mkdir", "made", "parents"}
<1>2. state.pc \in pcs /\ state.stack \in Seq(AnyPath) /\ state.dn \in AnyPath
  BY <1>1 DEF DirStates
<1>3. DirStart \in DirStates
  BY DEF DirStart, DirStates, AnyPath
<1>4. ASSUME NEW pc \in pcs, Goto(pc) PROVE state' \in DirStates
  BY <1>1, <1>4 DEF DirStates, Goto
<1>5. ASSUME NEW pc \in pcs, ReturnsTo(pc) PROVE state' \in DirStates
  <2>1. state.stack # <<>> => Front(state.stack) \in Seq(AnyPath)
    <3>1. ASSUME state.stack # <<>> PROVE Front(state.stack) \in Seq(AnyPath)
      <4>1. Len(state.stack) \in Nat /\ Len(state.stack) > 0
        BY <1>2, <3>1
      <4>. QED
        BY <1>2, <4>1 DEF Front
    <3>. QED
      BY <3>1
  <2>. QED
    BY <1>1, <1>5, <2>1 DEF DirStates, ReturnsTo
<1>6. ASSUME NEW rc, mkdir_return(rc) PROVE state' \in DirStates
  BY <1>3, <1>5, <1>6 DEF mkdir_return, NextOperand
<1>7. ASSUME NEW rc, NextOperand(rc, DirStart) PROVE state' \in DirStates
  BY <1>3, <1>7 DEF NextOperand
<1>8. CASE UNCHANGED state
  BY <1>1, <1>8
<1>9. CASE mkdir_arg
  <2>1. CASE state' = [state EXCEPT !.stack = Append(@, dirn)]
    <3>1. fn \in AnyPath
      <4>1. CASE state.stack = <<>>
        BY <1>9, <4>1, CmdFacts, PathsArePaths
           DEF fn, mkdir_arg, AtOperand, Running, FileUtils, DirUtils, Operand
      <4>2. CASE state.stack # <<>>
        BY <1>2, <4>2 DEF fn, Last
      <4>. QED
        BY <4>1, <4>2
    <3>2. dirn \in AnyPath
      BY <3>1, PathFacts DEF dirn
    <3>. QED
      <4>1. Append(state.stack, dirn) \in Seq(AnyPath)
        BY <1>2, <3>2
      <4>. QED
        BY <1>1, <2>1, <4>1 DEF DirStates
  <2>. QED
    BY <1>4, <1>6, <1>9, <2>1 DEF mkdir_arg, mkdir_fails
<1>10. CASE S_ISDIR \/ mkdir
  BY <1>4, <1>6, <1>10 DEF S_ISDIR, mkdir, mkdir_fails
<1>11. CASE rmdir_fn_actor
  <2>. DEFINE dn == IF state.pc = "stat" THEN Operand ELSE state.dn
  <2>1. CASE state' = [state EXCEPT !.pc = "parents", !.dn = Front(dn)]
    <3>1. dn \in AnyPath
      BY <1>2, <1>11, CmdFacts, PathsArePaths DEF rmdir_fn_actor, Running, FileUtils, DirUtils, Operand
    <3>2. Front(dn) \in AnyPath
      BY <3>1, PathFacts
    <3>. QED
      BY <1>1, <2>1, <3>2 DEF DirStates
  <2>. QED
    BY <1>7, <1>8, <1>11, <2>1 DEF rmdir_fn_actor, Abort
<1>12. CASE mkfifo_arg \/ unlink
  BY <1>7, <1>12 DEF mkfifo_arg, unlink
<1>. QED
  BY <1>8, <1>9, <1>10, <1>11, <1>12 DEF DirStep, Finish, Exit

LEMMA LnState ==
  ASSUME TypeInv, LnStep
  PROVE  state' \in LnStates
<1>1. state \in LnStates /\ cmd.util \in {"ln", "link"}
  BY DEF TypeInv, StateOK, LnStep, ln_pre_walk, Access, Unlink, Symlink, Readlink, Link, link,
     Finish, AtOperand, Running
<1>2. LnAgain \in LnStates
  BY <1>1 DEF LnAgain, LnStates
<1>3. ASSUME NEW rc, NextOperand(rc, LnAgain) PROVE state' \in LnStates
  BY <1>2, <1>3 DEF NextOperand
<1>4. ASSUME NEW pc \in {"link", "unlink"}, Goto(pc) PROVE state' \in LnStates
  BY <1>1, <1>4 DEF Goto, LnStates
<1>5. CASE ln_pre_walk
  <2>. DEFINE two == ~(Accessible(cmd.target) /\ Type(Follow(cmd.target)) = "dir")
  <2>1. UNCHANGED state \/ state' = [LnAgain EXCEPT !.have_2arg_form = two]
    BY <1>5 DEF ln_pre_walk, Exit
  <2>2. two \in BOOLEAN
    OBVIOUS
  <2>. HIDE DEF two
  <2>. QED
    BY <1>1, <1>2, <2>1, <2>2 DEF LnStates
<1>6. CASE Readlink
  <2>1. Operand \in Paths /\ arg \in Nat /\ Operand \in Contents
    BY <1>6, CmdFacts DEF Readlink, AtOperand, Running, FileUtils, Operand, TypeInv, Contents
  <2>2. Type(Operand) = "link" => inode[Number(Operand)].content \in Contents
    <3>1. FilesOK
      BY DEF TypeInv
    <3>2. Type(Operand) = "link" => Number(Operand) \in DOMAIN inode
      BY <3>1, NumberFacts
    <3>3. \A n \in DOMAIN inode : inode[n] \in Inodes
      BY <3>1 DEF FilesOK
    <3>. QED
      BY <3>2, <3>3 DEF Inodes
  <2>3. /\ state' = [state EXCEPT !.pc = "hard", !.target = state'.target, !.linkbuf = state'.linkbuf]
        /\ state'.target \in Contents /\ state'.linkbuf \in SUBSET Nat
    BY <1>1, <1>6, <2>1, <2>2 DEF Readlink, LnStates
  <2>. QED
    BY <1>1, <2>3 DEF LnStates
<1>7. CASE Access \/ Unlink \/ Symlink \/ Link \/ link
  BY <1>3, <1>4, <1>7 DEF Access, Unlink, Symlink, Link, link, LinkDone
<1>. QED
  BY <1>1, <1>5, <1>6, <1>7 DEF LnStep, Finish, Exit

LEMMA TouchState ==
  ASSUME TypeInv, TouchStep
  PROVE  state' \in TouchStates /\ (state'.pc # "stat" => state'.ut \in Times \X Times)
<1>1. /\ cmd.util = "touch" /\ state \in TouchStates
      /\ state.pc # "stat" => state.ut \in Times \X Times
  BY DEF TypeInv, StateOK, TouchStep, touch_fn_actor, again_butthead, creat, Finish, AtOperand, Running
<1>2. TouchStart \in TouchStates /\ TouchStart.pc = "stat"
  BY DEF TouchStart, TouchStates
<1>3. CASE touch_fn_actor
  <2>1. CASE UNCHANGED state
    BY <1>1, <2>1
  <2>2. ASSUME NEW u \in Times \X Times, state' = [state EXCEPT !.pc = "utime", !.ut = u]
        PROVE  state' \in TouchStates /\ state'.ut \in Times \X Times
    BY <1>1, <2>2 DEF TouchStates
  <2>3. Accessible(Operand) => Existing.atime \in Times /\ Existing.mtime \in Times
    <3>1. Operand \in Paths
      BY <1>3, CmdFacts DEF touch_fn_actor, AtOperand, Running, FileUtils, Operand
    <3>2. Accessible(Operand) => Number(Follow(Operand)) \in DOMAIN inode
      BY <3>1, FollowFacts DEF TypeInv
    <3>. QED
      <4>1. \A n \in DOMAIN inode : inode[n] \in Inodes
        BY DEF TypeInv, FilesOK
      <4>. QED
        BY <3>2, <4>1 DEF Existing, Inodes
  <2>4. Asked \in Times
    BY DEF Times
  <2>5. CASE cmd.opt_atime /\ cmd.opt_mtime
    <3>1. <<Asked, Asked>> \in Times \X Times
      BY <2>4
    <3>2. UNCHANGED state \/ state' = [state EXCEPT !.pc = "utime", !.ut = <<Asked, Asked>>]
      BY <1>3, <2>5 DEF touch_fn_actor, Abort
    <3>. QED
      BY <2>1, <2>2, <3>1, <3>2
  <2>6. CASE ~(cmd.opt_atime /\ cmd.opt_mtime)
    <3>1. UNCHANGED state \/ Accessible(Operand)
      BY <1>3, <2>6 DEF touch_fn_actor, Abort
    <3>2. CASE Accessible(Operand)
      <4>. DEFINE u == <<IF cmd.opt_atime THEN Asked ELSE Existing.atime,
                         IF cmd.opt_mtime THEN Asked ELSE Existing.mtime>>
      <4>1. u \in Times \X Times
        BY <2>3, <2>4, <3>2
      <4>2. UNCHANGED state \/ state' = [state EXCEPT !.pc = "utime", !.ut = u]
        BY <1>3, <2>6 DEF touch_fn_actor, Abort
      <4>. HIDE DEF u
      <4>. QED
        BY <2>1, <2>2, <4>1, <4>2
    <3>. QED
      BY <2>1, <3>1, <3>2
  <2>. QED
    BY <2>5, <2>6
<1>4. CASE again_butthead
  <2>1. Len(inode) \in Nat
    BY DEF TypeInv, FilesOK
  <2>2. \/ UNCHANGED state
        \/ state' = TouchStart
        \/ state.pc = "utime" /\ state' = [state EXCEPT !.pc = "creat", !.seen = Len(inode)]
    BY <1>4 DEF again_butthead, NextOperand, Abort, AtOperand
  <2>. QED
    BY <1>1, <1>2, <2>1, <2>2 DEF TouchStates
<1>5. CASE creat
  <2>1. \/ UNCHANGED state
        \/ state.pc = "creat" /\ state' = [state EXCEPT !.pc = "utime", !.second_time = TRUE]
    BY <1>5 DEF creat, Abort, AtOperand
  <2>. QED
    BY <1>1, <2>1 DEF TouchStates
<1>. QED
  BY <1>1, <1>3, <1>4, <1>5 DEF TouchStep, Finish, Exit

LEMMA PathchkState ==
  ASSUME TypeInv, PathchkStep
  PROVE  state' \in PathchkStates
<1>1. cmd.util = "pathchk" /\ state \in PathchkStates
  BY DEF TypeInv, StateOK, PathchkStep, actor, find_fshandle, pathconf, Finish, AtOperand, Running,
     DirUtils
<1>2. PathchkStart \in PathchkStates
  BY DEF PathchkStart, PathchkStates, AnyPath
<1>3. CASE actor
  <2>1. Operand \in AnyPath
    BY <1>3, CmdFacts, PathsArePaths DEF actor, AtOperand, Running, FileUtils, Operand
  <2>. QED
    BY <1>1, <1>3, <2>1 DEF actor, PathchkStates
<1>4. CASE find_fshandle
  <2>1. Front(state.handle) \in AnyPath
    BY <1>1, PathFacts DEF PathchkStates
  <2>. QED
    BY <1>1, <1>4, <2>1 DEF find_fshandle, PathchkStates, Goto
<1>5. CASE pathconf
  BY <1>1, <1>2, <1>5 DEF pathconf, NextOperand, Abort
<1>. QED
  BY <1>1, <1>3, <1>4, <1>5 DEF PathchkStep, Finish, Exit

LEMMA IpcrmState ==
  ASSUME TypeInv, ipcrm
  PROVE  state' \in IpcrmStates
<1>1. cmd.util = "ipcrm" /\ state \in IpcrmStates
  BY DEF TypeInv, StateOK, ipcrm, push_arg_opt, Skip, remove_one, IPC_RMID, Finish, AtOperand, Running
<1>2. [RmStart EXCEPT !.pc = "lookup"] \in IpcrmStates
  BY DEF RmStart, IpcrmStates
<1>3. CASE push_arg_opt \/ Skip
  BY <1>1, <1>3 DEF push_arg_opt, Skip, NextOperand, IpcrmStates
<1>4. CASE remove_one
  <2>1. ASSUME NEW id \in Int, Found(id) PROVE state' \in IpcrmStates
    BY <1>1, <2>1 DEF Found, IpcrmStates
  <2>2. int(Operand.n) \in Int
    BY <1>4, CmdFacts, intType DEF remove_one, AtOperand, Running, Operand, IpcOperands
  <2>3. Fresh \in Int /\ \A o \in Live : o.id \in Int
    BY FS_CardinalityType DEF TypeInv, ObjectsOK, Fresh, Live, Objects
  <2>4. CASE Failed
    BY <1>2, <2>4 DEF Failed, NextOperand
  <2>. QED
    BY <1>4, <2>1, <2>2, <2>3, <2>4 DEF remove_one
<1>5. CASE IPC_RMID
  BY <1>2, <1>5 DEF IPC_RMID, Failed, NextOperand
<1>. QED
  BY <1>1, <1>3, <1>4, <1>5 DEF ipcrm, Finish, Exit

LEMMA IpcsState ==
  ASSUME TypeInv, ipcs
  PROVE  state' \in IpcsStates
<1>1. cmd.util = "ipcs" /\ state \in IpcsStates
  BY DEF TypeInv, StateOK, ipcs, IPC_INFO, IPC_STAT, Listed, Finish, AtOperand, Running
<1>2. Live \subseteq Objects /\ \A o \in Live : o.id \in Nat
  BY DEF TypeInv, ObjectsOK, Live, Objects
<1>3. CASE IPC_INFO
  <2>1. UNCHANGED state \/ \E m \in Nat :
          state' = [state EXCEPT !.pc = "stat", !.before = Live, !.max = m]
    BY <1>2, <1>3 DEF IPC_INFO, Exit
  <2>. QED
    BY <1>1, <1>2, <2>1 DEF IpcsStates
<1>4. CASE IPC_STAT
  <2>1. state.listed \cup {o \in Live : o.id = state.index} \in SUBSET Objects
    BY <1>1, <1>2 DEF IpcsStates
  <2>2. PICK l \in SUBSET Objects, pc \in {"stat", "printed"} :
          state' = [state EXCEPT !.pc = pc, !.index = @ + 1, !.listed = l]
    BY <1>4, <2>1 DEF IPC_STAT, AtOperand
  <2>3. state.index + 1 \in Nat
    BY <1>1 DEF IpcsStates
  <2>4. state' = [pc |-> pc, index |-> state.index + 1, max |-> state.max,
                  listed |-> l, before |-> state.before]
    BY <1>1, <2>2 DEF IpcsStates
  <2>. QED
    BY <1>1, <2>3, <2>4 DEF IpcsStates
<1>. QED
  BY <1>1, <1>3, <1>4 DEF ipcs, Listed, Finish, NextOperand, Exit

LEMMA StateStep ==
  ASSUME TypeInv, Program
  PROVE  StateOK'
<1>1. cmd' = cmd
  BY WalkStep
<1>2. cmd.util \in DirUtils => state' \in DirStates
  BY UtilityStep, DirState
<1>3. cmd.util \in {"ln", "link"} => state' \in LnStates
  BY UtilityStep, LnState
<1>4. cmd.util = "touch" =>
        state' \in TouchStates /\ (state'.pc # "stat" => state'.ut \in Times \X Times)
  BY UtilityStep, TouchState
<1>5. cmd.util = "pathchk" => state' \in PathchkStates
  BY UtilityStep, PathchkState
<1>6. cmd.util = "ipcrm" => state' \in IpcrmStates
  BY UtilityStep, IpcrmState
<1>7. cmd.util = "ipcs" => state' \in IpcsStates
  BY UtilityStep, IpcsState
<1>. QED
  BY <1>1, <1>2, <1>3, <1>4, <1>5, <1>6, <1>7 DEF StateOK

(* What other processes do to files and objects.                           *)
Made(t) == \E p : CanCreate(p) /\ \E node \in Inodes : node.type = t /\ Create(p, node)
Removed == \E p \in Paths : Unname(p)
LEMMA OtherFacts ==
  ASSUME TypeInv, Other
  PROVE  /\ UNCHANGED <<process, refused>> /\ status = "running"
         /\ FilesOK' /\ ObjectsOK'
         /\ \/ UNCHANGED ipc /\ (Made("file") \/ Made("dir") \/ Removed)
            \/ /\ UNCHANGED files
               /\ \/ \E o \in Live : Gone(o)
                  \/ Add(1) /\ \A o \in Live : o.key # 1
<1>1. FilesOK /\ ObjectsOK
  BY DEF TypeInv
<1>2. CASE OtherMakes
  <2>1. \A b \in BOOLEAN, t \in {"file", "dir"} :
          LET node == [Inode(t, <<>>) EXCEPT !.data = b]
          IN node \in Inodes /\ node.type = t
    BY DEF Inode, Inodes, Types, Contents, Times
  <2>2. /\ [Inode("file", <<>>) EXCEPT !.data = TRUE] \in Inodes
        /\ [Inode("file", <<>>) EXCEPT !.data = TRUE].type = "file"
        /\ Inode("dir", <<>>) \in Inodes /\ Inode("dir", <<>>).type = "dir"
    BY DEF Inode, Inodes, Types, Contents, Times
  <2>3. Made("file") \/ Made("dir")
    BY <1>2, <2>2 DEF OtherMakes, Made
  <2>4. FilesOK'
    BY <1>1, <2>3, CreateFacts DEF Made
  <2>5. UNCHANGED ipc /\ ObjectsOK'
    BY <1>1, <1>2 DEF OtherMakes, ObjectsOK
  <2>. QED
    BY <2>3, <2>4, <2>5 DEF Other
<1>3. CASE OtherRemoves
  <2>1. Removed
    BY <1>3 DEF OtherRemoves, Removed
  <2>2. FilesOK'
    BY <1>1, <2>1, UnnameFacts DEF Removed
  <2>3. UNCHANGED ipc /\ ObjectsOK'
    BY <1>1, <1>3 DEF OtherRemoves, ObjectsOK
  <2>. QED
    BY <2>1, <2>2, <2>3 DEF Other
<1>4. CASE OtherUsesIpc
  <2>1. UNCHANGED files /\ FilesOK'
    BY <1>1, <1>4 DEF OtherUsesIpc, FilesOK, files
  <2>2. (\E o \in Live : Gone(o)) \/ (Add(1) /\ \A o \in Live : o.key # 1)
    BY <1>4 DEF OtherUsesIpc, Add
  <2>3. ObjectsOK'
    BY <1>1, <2>2, AddObject, GoneObject
  <2>. QED
    BY <2>1, <2>2, <2>3 DEF Other
<1>. QED
  BY <1>2, <1>3, <1>4 DEF Other

LEMMA TypeStep == TypeInv /\ [Next]_vars => TypeInv'
<1>. SUFFICES ASSUME TypeInv, [Next]_vars PROVE TypeInv'
  OBVIOUS
<1>1. CASE Program
  BY <1>1, FilesStep, ObjectsStep, WalkStep, StateStep DEF TypeInv, Program
<1>2. CASE Other
  <2>1. UNCHANGED <<cmd, arg, state, exit_status, status, refused>> /\ FilesOK' /\ ObjectsOK'
    BY <1>2, OtherFacts DEF process
  <2>. QED
    BY <1>2, <2>1 DEF TypeInv, StateOK, Other
<1>3. CASE UNCHANGED vars
  BY <1>3 DEF vars, process, files, TypeInv, StateOK, FilesOK, ObjectsOK
<1>. QED
  BY <1>1, <1>2, <1>3 DEF Next, Done

LEMMA TypeInvariant == Spec => []TypeInv
BY InitType, TypeStep, PTL DEF Spec

-----------------------------------------------------------------------------
(* StatusTells.                                                            *)

(* What a step does to the exit status, to the walk and to what is refused. *)
Quiet == UNCHANGED <<arg, exit_status, status, refused>>
Passes == arg' = arg + 1 /\ UNCHANGED <<exit_status, status, refused>> /\ cmd.util # "ln"
PassesZero ==
  /\ arg' = arg + 1 /\ exit_status' = 0 /\ UNCHANGED <<status, refused>>
  /\ cmd.util \in {"ln", "link", "unlink", "ipcs"}
Fails ==
  /\ exit_status' = 1 /\ Refusing /\ UNCHANGED status
  /\ arg' = arg + 1 \/ (arg' = arg /\ cmd.util = "mkdir")
GivesUp ==
  /\ status' \in {"error", "aborted"} /\ Refusing /\ UNCHANGED arg
  /\ cmd.util = "ln" => state.pc = "pre_walk" /\ UNCHANGED state
  /\ status' = "error" => cmd.util \in {"ln", "ipcs"}
Told == arg <= Len(cmd.args) /\ (Quiet \/ Passes \/ PassesZero \/ Fails \/ GivesUp)

LEMMA ToldStep ==
  ASSUME TypeInv, Program
  PROVE  (AtEnd /\ UNCHANGED state) \/ (cmd.util = "ipcrm" /\ push_arg_opt) \/ Told
<1>1. CASE DirStep
  BY <1>1 DEF DirStep, mkdir_arg, S_ISDIR, mkdir, rmdir_fn_actor, mkfifo_arg, unlink, mkdir_fails,
     mkdir_return, Finish, Exit, AtOperand, Running, Goto, NextOperand, Abort, Granted, Deny, Refused,
     AtEnd, Refusing, Told, Quiet, Passes, PassesZero, Fails, GivesUp
<1>2. CASE LnStep
  BY <1>2 DEF LnStep, ln_pre_walk, Access, Unlink, Symlink, Readlink, Link, link, LinkDone,
     Finish, Exit, AtOperand, Running, Goto, NextOperand, Abort, Granted, Deny, Refused,
     AtEnd, Refusing, Told, Quiet, Passes, PassesZero, Fails, GivesUp
<1>3. CASE TouchStep
  BY <1>3 DEF TouchStep, touch_fn_actor, again_butthead, creat,
     Finish, Exit, AtOperand, Running, Goto, NextOperand, Abort, Granted, Deny, Refused,
     AtEnd, Refusing, Told, Quiet, Passes, PassesZero, Fails, GivesUp
<1>4. CASE PathchkStep
  BY <1>4 DEF PathchkStep, actor, find_fshandle, pathconf,
     Finish, Exit, AtOperand, Running, Goto, NextOperand, Abort, Granted, Deny, Refused,
     AtEnd, Refusing, Told, Quiet, Passes, PassesZero, Fails, GivesUp
<1>5. CASE ipcrm
  <2>1. CASE Skip
    BY <2>1 DEF Skip, AtOperand, Running, NextOperand, Granted, Told, Passes
  <2>2. CASE remove_one
    BY <2>2 DEF remove_one, Found, Failed, AtOperand, Running, NextOperand, Granted, Deny, Refused,
       Refusing, Told, Quiet, Fails
  <2>3. CASE IPC_RMID
    BY <2>3 DEF IPC_RMID, Failed, AtOperand, Running, NextOperand, Granted, Refused,
       Refusing, Told, Passes, Fails
  <2>4. CASE Finish("ipcrm")
    BY <2>4 DEF Finish, Exit, AtEnd, Granted
  <2>5. push_arg_opt => cmd.util = "ipcrm"
    BY DEF push_arg_opt, Running
  <2>. QED
    BY <1>5, <2>1, <2>2, <2>3, <2>4, <2>5 DEF ipcrm
<1>6. CASE ipcs
  <2>1. CASE IPC_INFO
    <3>1. arg <= Len(cmd.args) /\ cmd.util = "ipcs"
      BY <2>1 DEF IPC_INFO, AtOperand, Running
    <3>2. \/ UNCHANGED <<arg, exit_status, status>> /\ Granted
          \/ Refused(TRUE) /\ Exit(1)
      BY <2>1 DEF IPC_INFO
    <3>3. CASE UNCHANGED <<arg, exit_status, status>> /\ Granted
      BY <3>1, <3>3 DEF Granted, Told, Quiet
    <3>4. CASE Refused(TRUE) /\ Exit(1)
      BY <3>1, <3>4 DEF Refused, Exit, Refusing, Told, GivesUp
    <3>. QED
      BY <3>2, <3>3, <3>4
  <2>. QED
    BY <1>6, <2>1 DEF ipcs, IPC_STAT, Listed, Finish, Exit, AtOperand, Running, NextOperand,
       Granted, AtEnd, Told, Quiet, PassesZero
<1>. QED
  BY <1>1, <1>2, <1>3, <1>4, <1>5, <1>6 DEF Program, FileStep, IpcStep

(* Which form of the command ln has is found when it starts.               *)
LEMMA FormStep ==
  ASSUME TypeInv, Program, cmd.util = "ln"
  PROVE  /\ state.pc # "pre_walk" =>
              /\ state'.pc # "pre_walk"
              /\ state'.have_2arg_form = state.have_2arg_form
         /\ state.pc = "pre_walk" =>
              \/ UNCHANGED state /\ (AtEnd \/ GivesUp)
              \/ /\ Quiet /\ state'.pc # "pre_walk"
                 /\ state'.have_2arg_form => Len(cmd.args) = 1
<1>1. state \in LnStates
  BY DEF TypeInv, StateOK
<1>2. LnStep
  BY UtilityStep
<1>3. CASE ln_pre_walk
  <2>1. state.pc = "pre_walk"
    BY <1>3 DEF ln_pre_walk, AtOperand
  <2>3. ASSUME NEW two \in BOOLEAN, state' = [LnAgain EXCEPT !.have_2arg_form = two]
        PROVE  state'.pc = "access" /\ state'.have_2arg_form = two
    BY <1>1, <2>3 DEF LnAgain, LnStates
  <2>. DEFINE two == ~(Accessible(cmd.target) /\ Type(Follow(cmd.target)) = "dir")
  <2>4. \/ UNCHANGED state /\ GivesUp
        \/ /\ state' = [LnAgain EXCEPT !.have_2arg_form = two]
           /\ two => Len(cmd.args) = 1
           /\ UNCHANGED <<arg, exit_status, status, refused>>
    BY <1>3, <2>1 DEF ln_pre_walk, Exit, Granted, Deny, GivesUp, Refusing
  <2>5. two \in BOOLEAN
    OBVIOUS
  <2>. HIDE DEF two
  <2>. QED
    BY <2>1, <2>3, <2>4, <2>5 DEF Quiet
<1>4. CASE Access \/ Unlink \/ Symlink \/ Readlink \/ Link
  <2>1. state.pc # "pre_walk"
    BY <1>4 DEF Access, Unlink, Symlink, Readlink, Link, AtOperand
  <2>2. \/ \E pc \in {"access", "unlink", "link"} : state' = [state EXCEPT !.pc = pc]
        \/ \E t, l : state' = [state EXCEPT !.pc = "hard", !.target = t, !.linkbuf = l]
    BY <1>4 DEF Access, Unlink, Symlink, Readlink, Link, LinkDone, LnAgain, NextOperand, Goto
  <2>3. state'.pc # "pre_walk" /\ state'.have_2arg_form = state.have_2arg_form
    BY <1>1, <2>2 DEF LnStates
  <2>. QED
    BY <2>1, <2>3
<1>5. CASE Finish("ln")
  BY <1>1, <1>5 DEF Finish, Exit, AtEnd, Granted
<1>. QED
  BY <1>2, <1>3, <1>4, <1>5 DEF LnStep, link, Finish, AtOperand, Running

LEMMA StatusStep == TypeInv /\ StatusInv /\ [Next]_vars => StatusInv'
<1>. SUFFICES ASSUME TypeInv, StatusInv, [Next]_vars PROVE StatusInv'
  OBVIOUS
<1>1. ASSUME UNCHANGED <<cmd, arg, state, exit_status, status, refused>> PROVE StatusInv'
  BY <1>1 DEF StatusInv, OneOperand, LastCounts
<1>2. CASE Program
  <2>1. /\ status = "running" /\ cmd' = cmd /\ Len(cmd.args) \in Nat
        /\ arg \in 1..(Len(cmd.args) + 1) /\ exit_status \in {0, 1}
        /\ (cmd.util \in {"link", "unlink", "ipcs"}) => Len(cmd.args) = 1
    BY <1>2, OutcomeStep, WalkStep, CmdFacts DEF TypeInv
  <2>2. CASE cmd.util = "ln"
    <3>1. CASE state.pc = "pre_walk"
      <4>1. arg = 1 /\ exit_status = 0 /\ refused = {} /\ state.have_2arg_form
        BY <2>1, <2>2, <3>1 DEF StatusInv, OneOperand
      <4>2. CASE UNCHANGED state /\ AtEnd
        BY <2>1, <2>2, <3>1, <4>1, <4>2 DEF AtEnd, Exit, StatusInv, OneOperand, LastCounts
      <4>3. CASE UNCHANGED state /\ GivesUp
        BY <2>1, <2>2, <3>1, <4>1, <4>3 DEF GivesUp, Refusing, StatusInv, OneOperand, LastCounts
      <4>4. CASE Quiet /\ state'.pc # "pre_walk" /\ (state'.have_2arg_form => Len(cmd.args) = 1)
        BY <2>1, <2>2, <3>1, <4>1, <4>4 DEF Quiet, StatusInv, OneOperand, LastCounts
      <4>. QED
        BY <1>2, <2>2, <3>1, <4>2, <4>3, <4>4, FormStep
    <3>2. CASE state.pc # "pre_walk"
      <4>1. state'.pc # "pre_walk" /\ state'.have_2arg_form = state.have_2arg_form
        BY <1>2, <2>2, <3>2, FormStep
      <4>2. CASE AtEnd
        BY <2>1, <2>2, <3>2, <4>1, <4>2 DEF AtEnd, Exit, StatusInv, OneOperand, LastCounts
      <4>3. CASE Told
        <5>1. CASE Quiet
          BY <2>1, <2>2, <3>2, <4>1, <5>1 DEF Quiet, StatusInv, OneOperand, LastCounts
        <5>2. CASE PassesZero
          <6>1. CASE state.have_2arg_form
            <7>2. Len(cmd.args) = 1
              BY <2>2, <3>2, <6>1 DEF StatusInv
            <7>3. arg = 1
              BY <2>1, <4>3, <7>2 DEF Told
            <7>1. arg = 1 /\ refused = {}
              BY <2>1, <2>2, <6>1, <7>3 DEF StatusInv, OneOperand
            <7>. QED
              BY <2>1, <2>2, <3>2, <4>1, <5>2, <6>1, <7>1
                 DEF PassesZero, StatusInv, OneOperand, LastCounts
          <6>2. CASE ~state.have_2arg_form
            <7>1. refused \subseteq 1..(arg - 1) /\ arg' - 1 \notin refused
              BY <2>1, <2>2, <5>2, <6>2 DEF StatusInv, LastCounts, PassesZero
            <7>2. refused \subseteq 1..(arg' - 1)
              BY <2>1, <5>2, <7>1 DEF PassesZero
            <7>. QED
              BY <2>1, <2>2, <3>2, <4>1, <5>2, <6>2, <7>1, <7>2
                 DEF PassesZero, StatusInv, OneOperand, LastCounts
          <6>. QED
            BY <6>1, <6>2
        <5>3. CASE Fails
          BY <2>1, <2>2, <3>2, <4>1, <5>3 DEF Fails, Refusing, StatusInv, OneOperand, LastCounts
        <5>. QED
          BY <2>2, <3>2, <4>3, <5>1, <5>2, <5>3 DEF Told, Passes, GivesUp
      <4>. QED
        BY <1>2, <2>2, <4>2, <4>3, ToldStep
    <3>. QED
      BY <3>1, <3>2
  <2>3. CASE cmd.util # "ln"
    <3>1. CASE AtEnd
      BY <2>1, <2>3, <3>1 DEF AtEnd, Exit, StatusInv, OneOperand, LastCounts
    <3>2. CASE cmd.util = "ipcrm" /\ push_arg_opt
      BY <2>1, <2>3, <3>2 DEF push_arg_opt, StatusInv, OneOperand, LastCounts
    <3>3. CASE Told
      <4>1. CASE Quiet
        BY <2>1, <2>3, <4>1 DEF Quiet, StatusInv, OneOperand, LastCounts
      <4>2. CASE Passes
        BY <2>1, <2>3, <4>2 DEF Passes, StatusInv, OneOperand, LastCounts
      <4>3. CASE PassesZero
        <5>2. OneOperand /\ Len(cmd.args) = 1
          BY <2>1, <2>3, <4>3 DEF PassesZero, OneOperand
        <5>3. arg = 1
          BY <2>1, <3>3, <5>2 DEF Told
        <5>1. arg = 1 /\ refused = {}
          BY <2>1, <5>2, <5>3 DEF StatusInv
        <5>. QED
          BY <2>1, <2>3, <4>3, <5>1 DEF PassesZero, StatusInv, OneOperand, LastCounts
      <4>4. CASE Fails
        BY <2>1, <2>3, <4>4 DEF Fails, Refusing, StatusInv, OneOperand, LastCounts
      <4>5. CASE GivesUp
        BY <2>1, <2>3, <4>5 DEF GivesUp, Refusing, StatusInv, OneOperand, LastCounts
      <4>. QED
        BY <3>3, <4>1, <4>2, <4>3, <4>4, <4>5 DEF Told
    <3>. QED
      BY <1>2, <3>1, <3>2, <3>3, ToldStep
  <2>. QED
    BY <2>2, <2>3
<1>3. CASE Other
  BY <1>1, <1>3, OtherFacts DEF process, Other
<1>4. CASE UNCHANGED vars
  BY <1>1, <1>4 DEF vars, process
<1>. QED
  BY <1>2, <1>3, <1>4 DEF Next, Done

(* When a utility ends, its status tells whether an operand was refused:   *)
(* whatever the tree, the operands and the refusals, and whatever other    *)
(* processes do meanwhile (walk_strlist, and the actors it calls).         *)
THEOREM StatusOfEveryUtility == Spec => []StatusTells
<1>1. Init => StatusInv
  BY InitStart DEF StatusInv, OneOperand, LastCounts, LnStart
<1>2. TypeInv /\ StatusInv => StatusTells
  <2>. SUFFICES ASSUME TypeInv, StatusInv PROVE StatusTells
    OBVIOUS
  <2>1. (status = "ok") => (exit_status = 0 /\ arg - 1 = Len(cmd.args))
    BY CmdFacts DEF TypeInv
  <2>. QED
    BY <2>1 DEF StatusInv, StatusTells, Counting
<1>. QED
  BY <1>1, <1>2, InitType, TypeStep, StatusStep, PTL DEF Spec

-----------------------------------------------------------------------------
(* RemovesOnlyNamed.                                                       *)

LEMMA FrontIsPrefix ==
  ASSUME NEW p \in AnyPath, NEW q \in AnyPath, q # <<>>, IsPrefix(q, p)
  PROVE  IsPrefix(Front(q), p)
<1>1. /\ Len(p) \in Nat /\ Len(q) \in Nat /\ Len(q) <= Len(p)
      /\ SubSeq(q, 1, Len(q)) = SubSeq(p, 1, Len(q))
  BY DEF AnyPath, IsPrefix
<1>2. /\ Front(q) \in AnyPath /\ Len(Front(q)) = Len(q) - 1 /\ Len(q) - 1 \in Nat
      /\ SubSeq(Front(q), 1, Len(q) - 1) = SubSeq(q, 1, Len(q) - 1)
  BY PathFacts DEF AnyPath, IsPrefix
<1>3. \A i \in 1..Len(q) : q[i] = p[i]
  <2>1. \A i \in 1..Len(q) : /\ SubSeq(q, 1, Len(q))[i] = q[i]
                             /\ SubSeq(p, 1, Len(q))[i] = p[i]
    BY <1>1 DEF AnyPath
  <2>. QED
    BY <1>1, <2>1
<1>4. SubSeq(q, 1, Len(q) - 1) = SubSeq(p, 1, Len(q) - 1)
  BY <1>1, <1>2, <1>3 DEF AnyPath
<1>. QED
  BY <1>1, <1>2, <1>4 DEF IsPrefix

LEMMA RmdirNamedStep ==
  ASSUME TypeInv, RmdirNamed, Program, cmd.util = "rmdir", status' = "running"
  PROVE  RmdirNamed'
<1>1. rmdir_fn_actor
  BY UtilityStep DEF DirUtils, DirStep, mkdir_arg, S_ISDIR, mkdir, mkfifo_arg, unlink, Finish,
     Exit, AtOperand, Running
<1>. DEFINE dn == IF state.pc = "stat" THEN Operand ELSE state.dn
<1>2. \/ state' = [state EXCEPT !.pc = "parents", !.dn = Front(dn)]
         /\ CanRmdir(dn) /\ cmd.opt_recurse /\ UNCHANGED <<cmd, arg>>
      \/ state' = DirStart
  BY <1>1 DEF rmdir_fn_actor, NextOperand, Abort, Running
<1>3. state \in DirStates /\ Operand \in AnyPath
  BY <1>1, CmdFacts, PathsArePaths
     DEF TypeInv, StateOK, DirUtils, FileUtils, Operand, rmdir_fn_actor
<1>4. CASE state' = DirStart
  BY <1>4 DEF RmdirNamed, DirStart
<1>5. CASE /\ state' = [state EXCEPT !.pc = "parents", !.dn = Front(dn)]
           /\ CanRmdir(dn) /\ cmd.opt_recurse /\ UNCHANGED <<cmd, arg>>
  <2>1. dn \in AnyPath /\ IsPrefix(dn, Operand) /\ dn # <<>>
    BY <1>3, <1>5, PathFacts DEF RmdirNamed, DirStates, CanRmdir
  <2>2. IsPrefix(Front(dn), Operand)
    BY <1>3, <2>1, FrontIsPrefix
  <2>3. state'.pc = "parents" /\ state'.dn = Front(dn) /\ Operand' = Operand
    BY <1>3, <1>5 DEF DirStates, Operand
  <2>. HIDE DEF dn
  <2>. QED
    BY <1>5, <2>2, <2>3 DEF RmdirNamed
<1>. QED
  BY <1>2, <1>4, <1>5

LEMMA LnNamedStep ==
  ASSUME TypeInv, LnNamed, Program, cmd.util = "ln", status' = "running"
  PROVE  LnNamed'
<1>1. LnStep /\ cmd' = cmd /\ state \in LnStates
  BY UtilityStep, WalkStep DEF TypeInv, StateOK
<1>2. \/ Access /\ Goto("unlink") /\ cmd.opt_force
      \/ state'.pc # "unlink"
      \/ state' = state
  BY <1>1 DEF LnStep, LnStates, ln_pre_walk, Access, Unlink, Symlink, Readlink, Link, link,
     LinkDone, LnAgain, NextOperand, Goto, Finish, Exit, AtOperand, Running
<1>. QED
  BY <1>1, <1>2 DEF LnNamed

LEMMA TouchNamedStep ==
  ASSUME TypeInv, TouchNamed, Program, cmd.util = "touch", status' = "running"
  PROVE  TouchNamed'
<1>1. TouchStep /\ state \in TouchStates /\ FilesOK /\ Len(inode) \in Nat
  BY UtilityStep DEF TypeInv, StateOK, FilesOK
<1>2. \/ again_butthead /\ UNCHANGED <<cmd, arg, name, inode>> /\ Missing
         /\ state' = [state EXCEPT !.pc = "creat", !.seen = Len(inode)]
      \/ state'.pc # "creat"
  <2>1. CASE touch_fn_actor
    BY <1>1, <2>1 DEF touch_fn_actor, Abort, TouchStates, AtOperand, Running
  <2>2. CASE again_butthead
    BY <2>2 DEF again_butthead, NextOperand, Abort, TouchStart, AtOperand, Running, files
  <2>3. CASE creat
    BY <1>1, <2>3 DEF creat, Abort, TouchStates, AtOperand, Running
  <2>4. CASE Finish("touch")
    BY <2>4 DEF Finish, Exit, Running
  <2>. QED
    BY <1>1, <2>1, <2>2, <2>3, <2>4 DEF TouchStep
<1>3. CASE again_butthead /\ UNCHANGED <<cmd, arg, name, inode>> /\ Missing
           /\ state' = [state EXCEPT !.pc = "creat", !.seen = Len(inode)]
  <2>1. Operand \in Paths
    BY <1>3, CmdFacts DEF again_butthead, AtOperand, Running, FileUtils, Operand
  <2>2. Type(Operand) # "file" /\ Type(Follow(Operand)) # "file"
    BY <1>1, <1>3, <2>1, FollowFacts DEF Missing, Accessible
  <2>3. Type(Operand)' # "file" /\ Type(Follow(Operand))' # "file" /\ state'.seen = Len(inode)
    BY <1>1, <1>3, <2>2 DEF Type, Number, Follow, Operand, TouchStates
  <2>. QED
    BY <1>1, <1>3, <2>3 DEF TouchNamed, NewTo
<1>. QED
  BY <1>2, <1>3 DEF TouchNamed

LEMMA IpcrmNamedStep ==
  ASSUME TypeInv, Program, cmd.util = "ipcrm", status' = "running", arg <= Len(cmd.args)
  PROVE  IpcrmNamed'
<1>1. ipcrm /\ state \in IpcrmStates
  BY UtilityStep DEF TypeInv, StateOK
<1>2. CASE remove_one
  <2>1. ASSUME NEW id, Found(id), IF Operand.kind = "id" THEN id = int(Operand.n)
                                  ELSE \E o \in ipc' : o.id = id /\ o.key = int(Operand.n)
        PROVE  IpcrmNamed'
    <3>1. state'.id = id /\ Operand' = Operand
      BY <1>1, <2>1 DEF Found, IpcrmStates, Operand
    <3>. QED
      BY <2>1, <3>1 DEF IpcrmNamed
  <2>2. CASE Failed
    BY <2>2 DEF Failed, NextOperand, RmStart, IpcrmNamed
  <2>3. CASE Operand.kind = "id" /\ Found(int(Operand.n))
    BY <2>1, <2>3
  <2>4. CASE /\ Operand.kind = "key" /\ int(Operand.n) = IPC_PRIVATE /\ Found(Fresh)
             /\ ipc' = ipc \cup {[id |-> Fresh, key |-> IPC_PRIVATE, there |-> TRUE]}
    <3>1. \E o \in ipc' : o.id = Fresh /\ o.key = int(Operand.n)
      <4>. DEFINE o == [id |-> Fresh, key |-> IPC_PRIVATE, there |-> TRUE]
      <4>1. o \in ipc' /\ o.id = Fresh /\ o.key = int(Operand.n)
        BY <2>4
      <4>. QED
        BY <4>1
    <3>. QED
      BY <2>1, <2>4, <3>1
  <2>5. CASE /\ Operand.kind = "key" /\ UNCHANGED ipc
             /\ \E o \in {o \in Live : o.key = int(Operand.n)} : Found(o.id)
    BY <2>1, <2>5 DEF Live
  <2>. QED
    BY <1>2, <2>2, <2>3, <2>4, <2>5 DEF remove_one
<1>3. CASE ~remove_one
  <2>1. state'.pc # "rmid"
    BY <1>1, <1>3 DEF ipcrm, push_arg_opt, Skip, IPC_RMID, Failed, NextOperand, RmStart,
       IpcrmStates, Finish, Exit, AtOperand, Running
  <2>. QED
    BY <2>1 DEF IpcrmNamed
<1>. QED
  BY <1>2, <1>3

(* Other processes take nothing away from NamedInv: a file they make is    *)
(* new, and the objects keep their identifiers and keys.                   *)
LEMMA OthersNamedStep ==
  ASSUME TypeInv, NamedInv, Other
  PROVE  NamedInv'
<1>1. /\ UNCHANGED <<cmd, arg, state, exit_status, status, refused>> /\ FilesOK /\ ObjectsOK
      /\ UNCHANGED Operand
  BY OtherFacts DEF process, TypeInv, Operand
<1>. SUFFICES ASSUME status = "running", arg <= Len(cmd.args),
                     RmdirNamed, LnNamed, TouchNamed, IpcrmNamed
              PROVE  NamedInv'
  BY <1>1 DEF NamedInv
<1>2. RmdirNamed' /\ LnNamed'
  BY <1>1 DEF RmdirNamed, LnNamed
<1>3. TouchNamed'
  <2>. SUFFICES ASSUME cmd.util = "touch", state.pc = "creat"
                PROVE  TouchNamed'
    BY <1>1 DEF TouchNamed
  <2>1. /\ Operand \in Paths /\ Len(inode) \in Nat /\ state.seen \in Nat
        /\ state.seen <= Len(inode) /\ NewTo(Operand) /\ NewTo(Follow(Operand))
    BY <1>1, CmdFacts DEF TouchNamed, TypeInv, StateOK, TouchStates, FilesOK, FileUtils, Operand
  <2>2. ASSUME state.seen <= Len(inode'), \A q : NewTo(q) => NewTo(q)',
               Type(Operand)' = "link" => UNCHANGED Follow(Operand)
        PROVE  TouchNamed'
    <3>1. NewTo(Operand)'
      BY <1>1, <2>1, <2>2
    <3>2. NewTo(Follow(Operand))'
      <4>1. CASE Type(Operand)' = "link"
        <5>1. \A q : q = Follow(Operand) => NewTo(q)'
          BY <2>1, <2>2
        <5>2. Follow(Operand)' = Follow(Operand)
          BY <2>2, <4>1
        <5>. QED
          BY <5>1, <5>2 DEF NewTo
      <4>2. CASE Type(Operand)' # "link"
        BY <3>1, <4>2 DEF Follow, NewTo
      <4>. QED
        BY <4>1, <4>2
    <3>. QED
      BY <1>1, <2>2, <3>1, <3>2 DEF TouchNamed
  <2>3. ASSUME NEW t \in {"file", "dir"}, Made(t) PROVE TouchNamed'
    <3>0. PICK p : CanCreate(p) /\ \E node \in Inodes : node.type = t /\ Create(p, node)
      BY <2>3 DEF Made
    <3>1. PICK node \in Inodes : CanCreate(p) /\ Create(p, node) /\ node.type = t
      BY <3>0
    <3>2. /\ Len(inode') = Len(inode) + 1
          /\ \A n \in DOMAIN inode : n \in DOMAIN inode' /\ inode'[n] = inode[n]
          /\ \A q : Number(q)' = IF q = p THEN Len(inode) + 1 ELSE Number(q)
          /\ \A q : Type(q)' = IF q = p THEN t ELSE Type(q)
      BY <1>1, <3>1, CreateFacts
    <3>3. \A q : NewTo(q) => NewTo(q)'
      BY <1>1, <2>1, <3>2 DEF NewTo
    <3>4. Type(Operand)' = "link" => UNCHANGED Follow(Operand)
      <4>. SUFFICES ASSUME Type(Operand)' = "link" PROVE UNCHANGED Follow(Operand)
        OBVIOUS
      <4>1. Operand # p /\ Type(Operand) = "link"
        BY <1>1, <3>2
      <4>2. Number(Operand)' = Number(Operand) /\ Number(Operand) \in DOMAIN inode
        BY <1>1, <3>2, <4>1, NumberFacts
      <4>. QED
        BY <1>1, <3>2, <4>1, <4>2 DEF Follow
    <3>. QED
      BY <2>1, <2>2, <3>2, <3>3, <3>4
  <2>4. CASE Removed
    <3>1. PICK p \in Paths : Unname(p)
      BY <2>4 DEF Removed
    <3>2. /\ inode' = inode
          /\ \A q : Number(q)' = IF q = p THEN NoFile ELSE Number(q)
          /\ \A q : Type(q)' = IF q = p THEN "none" ELSE Type(q)
      BY <1>1, <3>1, UnnameFacts
    <3>3. \A q : NewTo(q) => NewTo(q)'
      BY <1>1, <3>2 DEF NewTo
    <3>4. Type(Operand)' = "link" => UNCHANGED Follow(Operand)
      BY <1>1, <3>2 DEF Follow
    <3>. QED
      BY <2>1, <2>2, <3>2, <3>3, <3>4
  <2>5. CASE UNCHANGED files
    BY <1>1, <2>1, <2>5 DEF TouchNamed, NewTo, Type, Number, Follow, files, Operand
  <2>. QED
    BY <2>3, <2>4, <2>5, OtherFacts
<1>4. IpcrmNamed'
  <2>1. \A q \in ipc : \E r \in ipc' : r.id = q.id /\ r.key = q.key
    <3>1. CASE \E o \in Live : Gone(o)
      BY <1>1, <3>1, GoneObject
    <3>2. CASE UNCHANGED ipc
      BY <3>2
    <3>3. CASE Add(1)
      BY <3>3 DEF Add
    <3>. QED
      BY <3>1, <3>2, <3>3, OtherFacts
  <2>. QED
    BY <1>1, <2>1 DEF IpcrmNamed
<1>. QED
  BY <1>2, <1>3, <1>4 DEF NamedInv

LEMMA NamedStep == TypeInv /\ NamedInv /\ [Next]_vars => NamedInv'
<1>. SUFFICES ASSUME TypeInv, NamedInv, [Next]_vars PROVE NamedInv'
  OBVIOUS
<1>1. CASE Program
  <2>. SUFFICES ASSUME status' = "running", arg' <= Len(cmd'.args)
                PROVE  (RmdirNamed /\ LnNamed /\ TouchNamed /\ IpcrmNamed)'
    BY DEF NamedInv
  <2>1. cmd' = cmd /\ status = "running" /\ arg <= Len(cmd.args)
    <3>1. cmd' = cmd /\ status = "running" /\ arg' \in {arg, arg + 1}
          /\ arg \in Nat /\ Len(cmd.args) \in Nat
      BY <1>1, WalkStep, OutcomeStep, CmdFacts DEF TypeInv
    <3>. QED
      BY <3>1
  <2>2. RmdirNamed /\ LnNamed /\ TouchNamed
    BY <2>1 DEF NamedInv
  <2>3. RmdirNamed'
    BY <1>1, <2>1, <2>2, RmdirNamedStep DEF RmdirNamed
  <2>4. LnNamed'
    BY <1>1, <2>1, <2>2, LnNamedStep DEF LnNamed
  <2>5. TouchNamed'
    BY <1>1, <2>1, <2>2, TouchNamedStep DEF TouchNamed
  <2>6. IpcrmNamed'
    BY <1>1, <2>1, IpcrmNamedStep DEF IpcrmNamed
  <2>. QED
    BY <2>3, <2>4, <2>5, <2>6
<1>2. CASE Other
  BY <1>2, OthersNamedStep
<1>3. CASE UNCHANGED vars
  BY <1>3 DEF vars, process, files, NamedInv, RmdirNamed, LnNamed, TouchNamed, IpcrmNamed, NewTo,
     Type, Number, Follow, Operand
<1>. QED
  BY <1>1, <1>2, <1>3 DEF Next, Done

LEMMA RemovesStep ==
  ASSUME TypeInv, NamedInv, Program
  PROVE  /\ \A p \in Paths : name[p] # NoFile /\ name'[p] # name[p] => Named(p)
         /\ \A n \in DOMAIN inode :
              inode[n].data /\ ~inode'[n].data => cmd.util = "touch" /\ n > state.seen
         /\ \A o \in Live : o \notin ipc' => NamedObject(o)
<1>1. FilesOK /\ ObjectsOK
  BY DEF TypeInv
<1>2. \A o \in Live : o \notin ipc' => NamedObject(o)
  <2>. SUFFICES ASSUME NEW o \in Live, o \notin ipc' PROVE NamedObject(o)
    OBVIOUS
  <2>1. o \in ipc
    BY DEF Live
  <2>2. CASE remove_one
    BY <2>1, <2>2 DEF remove_one
  <2>3. CASE IPC_RMID
    <3>1. /\ cmd.util = "ipcrm" /\ state.pc = "rmid" /\ status = "running"
          /\ arg <= Len(cmd.args)
      BY <2>3 DEF IPC_RMID, AtOperand, Running
    <3>2. PICK q \in Live : q.id = state.id /\ Gone(q)
      BY <2>1, <2>3 DEF IPC_RMID
    <3>3. o = q
      BY <1>1, <2>1, <3>2, GoneObject
    <3>4. IpcrmNamed
      BY <3>1 DEF NamedInv
    <3>5. CASE Operand.kind = "id"
      BY <3>1, <3>2, <3>3, <3>4, <3>5 DEF IpcrmNamed, NamedObject, Operand
    <3>6. CASE Operand.kind # "id"
      <4>1. PICK r \in ipc : r.id = state.id /\ r.key = int(Operand.n)
        BY <3>1, <3>4, <3>6 DEF IpcrmNamed
      <4>2. r = o
        BY <1>1, <2>1, <3>2, <3>3, <4>1 DEF ObjectsOK
      <4>. QED
        BY <3>1, <3>6, <4>1, <4>2 DEF NamedObject, Operand
    <3>. QED
      BY <3>5, <3>6
  <2>. QED
    BY <2>1, <2>2, <2>3, ObjectsStep
<1>. SUFFICES ASSUME ~UNCHANGED files
              PROVE  /\ \A p \in Paths : name[p] # NoFile /\ name'[p] # name[p] => Named(p)
                     /\ \A n \in DOMAIN inode :
                          inode[n].data /\ ~inode'[n].data => cmd.util = "touch" /\ n > state.seen
  BY <1>2 DEF files
<1>3. ASSUME NEW p, NEW t \in Types, NEW c \in Contents, t = "link" => c # <<>>,
             CanCreate(p), Create(p, Inode(t, c))
      PROVE  /\ \A q \in Paths : name[q] # NoFile /\ name'[q] # name[q] => Named(q)
             /\ \A n \in DOMAIN inode : inode'[n] = inode[n]
  <2>1. Inode(t, c) \in Inodes /\ (Inode(t, c).type = "link" => Inode(t, c).content # <<>>)
    BY <1>3 DEF Inode, Inodes, Times
  <2>. DEFINE node == Inode(t, c)
  <2>2. Create(p, node) /\ node \in Inodes /\ (node.type = "link" => node.content # <<>>)
    BY <1>3, <2>1
  <2>. HIDE DEF node
  <2>3. /\ Number(p) = NoFile /\ \A n \in DOMAIN inode : inode'[n] = inode[n]
        /\ \A q : Number(q)' = IF q = p THEN Len(inode) + 1 ELSE Number(q)
    BY <1>1, <1>3, <2>2, CreateFacts
  <2>4. \A q \in Paths : Number(q) = name[q] /\ Number(q)' = name'[q]
    BY DEF Number
  <2>. QED
    BY <2>3, <2>4
<1>4. ASSUME NEW p, Unname(p), Named(p)
      PROVE  /\ \A q \in Paths : name[q] # NoFile /\ name'[q] # name[q] => Named(q)
             /\ inode' = inode
  BY <1>1, <1>4 DEF Unname, FilesOK
<1>5. ASSUME NEW p, NEW q, CanLink(q, p), name' = [name EXCEPT ![p] = Number(q)], UNCHANGED inode
      PROVE  \A r \in Paths : name[r] # NoFile /\ name'[r] # name[r] => Named(r)
  <2>1. Number(p) = NoFile /\ \A r : Number(r)' = IF r = p THEN Number(q) ELSE Number(r)
    BY <1>1, <1>5, LinkFacts
  <2>2. \A r \in Paths : Number(r) = name[r] /\ Number(r)' = name'[r]
    BY DEF Number
  <2>. QED
    BY <2>1, <2>2
<1>6. CASE mkdir \/ mkfifo_arg
  <2>1. \E p : CanCreate(p) /\ \E t \in {"dir", "fifo"} : Create(p, Inode(t, <<>>))
    BY <1>6 DEF mkdir, mkfifo_arg
  <2>2. <<>> \in Contents /\ {"dir", "fifo"} \subseteq Types \ {"link"}
    BY DEF Contents, Types
  <2>. QED
    BY <1>3, <2>1, <2>2
<1>7. CASE rmdir_fn_actor
  <2>. DEFINE dn == IF state.pc = "stat" THEN Operand ELSE state.dn
  <2>1. CanRmdir(dn) /\ Unname(dn) /\ cmd.util = "rmdir" /\ status = "running"
        /\ arg <= Len(cmd.args)
    BY <1>7 DEF rmdir_fn_actor, Running
  <2>2. RmdirNamed
    BY <2>1 DEF NamedInv
  <2>3. Named(dn)
    BY <2>1, <2>2 DEF Named, CanRmdir, RmdirNamed, Operand
  <2>. HIDE DEF dn
  <2>. QED
    BY <1>4, <2>1, <2>3
<1>8. CASE unlink
  <2>1. Unname(Operand) /\ Named(Operand)
    BY <1>8 DEF unlink, AtOperand, Running, Named, Operand
  <2>. QED
    BY <1>4, <2>1
<1>9. CASE Unlink
  <2>1. /\ Unname(link_name) /\ cmd.util = "ln" /\ status = "running" /\ arg <= Len(cmd.args)
        /\ state.pc = "unlink"
    BY <1>9 DEF Unlink, AtOperand, Running
  <2>2. cmd.opt_force
    BY <2>1 DEF NamedInv, LnNamed
  <2>3. Named(link_name)
    BY <2>1, <2>2 DEF Named, LinkName, link_name, Operand
  <2>. QED
    BY <1>4, <2>1, <2>3
<1>10. CASE Symlink
  <2>1. Operand \in Paths /\ Operand # <<>>
    BY <1>10, CmdFacts DEF Symlink, AtOperand, Running, FileUtils, Operand
  <2>2. CanCreate(link_name) /\ Create(link_name, Inode("link", Operand))
    BY <1>10 DEF Symlink
  <2>3. Operand \in Contents /\ "link" \in Types
    BY <2>1 DEF Contents, Types
  <2>. QED
    BY <1>3, <2>1, <2>2, <2>3
<1>11. CASE Link \/ link
  BY <1>5, <1>11 DEF Link, link
<1>12. CASE again_butthead
  <2>1. UNCHANGED name
    BY <1>12 DEF again_butthead, files
  <2>2. inode' = [inode EXCEPT ![Number(Follow(Operand))].atime = state.ut[1],
                               ![Number(Follow(Operand))].mtime = state.ut[2]]
    BY <1>12 DEF again_butthead
  <2>3. \A n \in DOMAIN inode : inode[n] \in Inodes
    BY <1>1 DEF FilesOK
  <2>4. \A n \in DOMAIN inode : inode'[n].data = inode[n].data
    BY <1>1, <2>2, <2>3 DEF FilesOK, Inodes
  <2>. QED
    BY <2>1, <2>4
<1>13. CASE creat
  <2>. DEFINE to == Follow(Operand)
  <2>1. /\ cmd.util = "touch" /\ status = "running" /\ arg <= Len(cmd.args) /\ state.pc = "creat"
        /\ \/ CanCreate(to) /\ Create(to, Inode("file", <<>>))
           \/ Type(to) = "file" /\ UNCHANGED name
              /\ inode' = [inode EXCEPT ![Number(to)].data = FALSE]
    BY <1>13 DEF creat, AtOperand, Running
  <2>2. CASE CanCreate(to) /\ Create(to, Inode("file", <<>>))
    <3>1. <<>> \in Contents /\ "file" \in Types
      BY DEF Contents, Types
    <3>. HIDE DEF to
    <3>. QED
      BY <1>3, <2>2, <3>1
  <2>3. CASE /\ Type(to) = "file" /\ UNCHANGED name
             /\ inode' = [inode EXCEPT ![Number(to)].data = FALSE]
    <3>1. Number(to) > state.seen
      BY <2>1, <2>3 DEF NamedInv, TouchNamed, NewTo
    <3>2. \A n \in DOMAIN inode : n # Number(to) => inode'[n] = inode[n]
      BY <1>1, <2>3 DEF FilesOK
    <3>. HIDE DEF to
    <3>. QED
      BY <2>1, <2>3, <3>1, <3>2
  <2>. QED
    BY <2>1, <2>2, <2>3
<1>14. CASE mkdir_arg \/ S_ISDIR \/ ln_pre_walk \/ Access \/ Readlink \/ touch_fn_actor
            \/ PathchkStep \/ IpcStep \/ \E util \in FileUtils : Finish(util)
  BY <1>14 DEF mkdir_arg, S_ISDIR, ln_pre_walk, Access, Readlink, touch_fn_actor, PathchkStep,
     actor, find_fshandle, pathconf, IpcStep, ipcrm, push_arg_opt, Skip, remove_one, IPC_RMID,
     ipcs, IPC_INFO, IPC_STAT, Listed, Finish
<1>. QED
  BY <1>6, <1>7, <1>8, <1>9, <1>10, <1>11, <1>12, <1>13, <1>14
     DEF Program, FileStep, DirStep, LnStep, TouchStep, FileUtils, DirUtils

LEMMA InitNamed == Init => NamedInv
<1>1. DirStart.pc = "stat" /\ LnStart.pc = "pre_walk" /\ TouchStart.pc = "stat"
      /\ RmStart.pc = "push"
  BY DEF DirStart, LnStart, TouchStart, RmStart
<1>. QED
  BY <1>1, InitStart DEF NamedInv, RmdirNamed, LnNamed, TouchNamed, IpcrmNamed, DirUtils

(* Whatever other processes do between two calls, nothing but what it was  *)
(* given to remove goes: no name, no file's data but what came into being  *)
(* after touch had looked, no XSI object (do_link, rmdir_fn_actor, unlink, *)
(* touch_fn_actor, remove_one).                                            *)
THEOREM NothingElseIsRemoved == Spec => RemovesOnlyNamed
<1>. DEFINE Removals ==
              others' = others =>
                /\ \A p \in Paths : name[p] # NoFile /\ name'[p] # name[p] => Named(p)
                /\ \A n \in DOMAIN inode :
                     inode[n].data /\ ~inode'[n].data => cmd.util = "touch" /\ n > state.seen
                /\ \A o \in Live : o \notin ipc' => NamedObject(o)
<1>2. TypeInv /\ NamedInv /\ [Next]_vars => [Removals]_vars
  <2>. SUFFICES ASSUME TypeInv, NamedInv, Next PROVE Removals \/ UNCHANGED vars
    OBVIOUS
  <2>1. Program => Removals
    BY RemovesStep
  <2>2. Other => others' # others
    BY DEF Other, TypeInv
  <2>. QED
    BY <2>1, <2>2 DEF Next, Done
<1>. QED
  BY <1>2, InitType, InitNamed, TypeStep, NamedStep, PTL DEF Spec, RemovesOnlyNamed

-----------------------------------------------------------------------------
(* OperandsSettled: a step that passes an operand has reached its goal or  *)
(* been refused.                                                           *)

LEMMA OperandFacts ==
  ASSUME TypeInv, Program, arg <= Len(cmd.args), NEW i, i = arg
  PROVE  /\ i \in DOMAIN cmd.args /\ cmd.args[i] = Operand /\ cmd' = cmd /\ arg # arg + 1
         /\ FilesOK /\ FilesOK' /\ ObjectsOK /\ status = "running"
         /\ cmd.util \in FileUtils => Operand \in Paths /\ Operand # <<>>
BY CmdFacts, WalkStep, FilesStep, OutcomeStep DEF TypeInv, Operand

(* What Goal says of the next state, of an operand p.                      *)
LEMMA NextGoal ==
  ASSUME NEW i, NEW p, cmd' = cmd, cmd.args[i] = p
  PROVE  /\ cmd.util = "mkdir" /\ Type(p)' = "dir" => Goal(i)'
         /\ cmd.util = "mkfifo" /\ Type(p)' = "fifo" => Goal(i)'
         /\ cmd.util \in {"unlink", "rmdir"} /\ Type(p)' = "none" => Goal(i)'
<1>1. cmd'.util = cmd.util /\ cmd'.args[i] = p
  OBVIOUS
<1>2. cmd.util = "mkdir" /\ Type(p)' = "dir" => Goal(i)'
  BY <1>1 DEF Goal, Type, Number
<1>3. cmd.util = "mkfifo" /\ Type(p)' = "fifo" => Goal(i)'
  BY <1>1 DEF Goal, Type, Number
<1>4. cmd.util \in {"unlink", "rmdir"} /\ Type(p)' = "none" => Goal(i)'
  BY <1>1 DEF Goal, Exists, Type, Number
<1>. QED
  BY <1>2, <1>3, <1>4

LEMMA DirPasses ==
  ASSUME TypeInv, NamedInv, RmdirInv, Program, DirStep, arg <= Len(cmd.args),
         NEW i, i = arg, NEW p, p = Operand, arg' = arg + 1
  PROVE  Goal(i)' \/ i \in reached \cup refused'
<1>1. /\ i \in DOMAIN cmd.args /\ cmd.args[i] = p /\ cmd' = cmd /\ arg # arg + 1
      /\ FilesOK /\ status = "running"
  BY OperandFacts
<1>2. CASE mkdir_arg \/ S_ISDIR \/ \E util \in DirUtils : Finish(util)
  BY <1>1, <1>2 DEF mkdir_arg, S_ISDIR, Finish, Goto, Exit, Refused, Deny
<1>3. ASSUME NEW t \in {"dir", "fifo"}, CanCreate(p), Create(p, Inode(t, <<>>))
      PROVE  Type(p)' = t
  <2>1. Inode(t, <<>>) \in Inodes /\ Inode(t, <<>>).type = t /\ t # "link"
    BY DEF Inode, Inodes, Types, Contents, Times
  <2>. QED
    BY <1>1, <1>3, <2>1, CreateFacts
<1>4. ASSUME Unname(p), p \in Paths PROVE Type(p)' = "none"
  BY <1>1, <1>4, UnnameFacts
<1>5. CASE mkdir
  <2>1. CASE CanCreate(fn) /\ Create(fn, Inode("dir", <<>>)) /\ mkdir_return(exit_status)
    <3>1. state.stack = <<>> /\ fn = p
      BY <1>1, <2>1 DEF mkdir_return, fn
    <3>. QED
      BY <1>1, <1>3, <1>5, <2>1, <3>1, NextGoal DEF mkdir, AtOperand, Running
  <2>. QED
    BY <1>5, <2>1 DEF mkdir, Refused
<1>6. CASE mkfifo_arg
  BY <1>1, <1>3, <1>6, NextGoal DEF mkfifo_arg, AtOperand, Running, Refused
<1>7. CASE unlink
  <2>1. CASE CanUnlink(p) /\ Unname(p)
    BY <1>1, <1>4, <1>7, <2>1, NextGoal, NumberFacts DEF unlink, AtOperand, Running, CanUnlink
  <2>. QED
    BY <1>7, <2>1 DEF unlink, Refused
<1>8. CASE rmdir_fn_actor
  <2>1. cmd.util = "rmdir" /\ (state.pc = "stat" \/ state.pc = "parents")
    BY <1>1, <1>8 DEF rmdir_fn_actor, Running, NamedInv, RmdirNamed
  <2>2. CASE state.pc = "parents"
    BY <2>1, <2>2 DEF RmdirInv
  <2>3. CASE state.pc = "stat"
    <3>1. CanRmdir(p) /\ Unname(p)
      BY <1>1, <1>8, <2>3 DEF rmdir_fn_actor, Abort
    <3>2. p \in Paths
      BY <1>1, <3>1, NumberFacts DEF CanRmdir, Type, Number
    <3>. QED
      BY <1>1, <1>4, <2>1, <3>1, <3>2, NextGoal
  <2>. QED
    BY <2>1, <2>2, <2>3
<1>. QED
  BY <1>2, <1>5, <1>6, <1>7, <1>8 DEF DirStep

LEMMA PathchkPasses ==
  ASSUME TypeInv, Program, PathchkStep, arg <= Len(cmd.args), NEW i, i = arg, arg' = arg + 1
  PROVE  Goal(i)' \/ i \in reached \cup refused'
<1>1. cmd.args[i] = Operand /\ cmd' = cmd /\ arg # arg + 1
  BY OperandFacts
<1>2. CASE actor \/ find_fshandle \/ Finish("pathchk")
  BY <1>1, <1>2 DEF actor, find_fshandle, Finish, Goto, Exit
<1>3. CASE pathconf
  <2>1. \/ Len(Operand) <= cmd.path_max /\ check_path(Operand)
        \/ i \in refused'
    BY <1>1, <1>3 DEF pathconf, Abort, Deny, Refused
  <2>2. check_path(Operand) => ToSet(Operand) \cap cmd.too_long = {}
    BY DEF check_path, check_component, ToSet
  <2>3. cmd'.util = "pathchk" /\ cmd'.args[i] = Operand /\ UNCHANGED cmd
    BY <1>1, <1>3 DEF pathconf, AtOperand, Running
  <2>. QED
    BY <2>1, <2>2, <2>3 DEF Goal
<1>. QED
  BY <1>2, <1>3 DEF PathchkStep

LEMMA TouchPasses ==
  ASSUME TypeInv, TouchInv, Program, TouchStep, arg <= Len(cmd.args),
         NEW i, i = arg, NEW p, p = Operand, arg' = arg + 1
  PROVE  Goal(i)' \/ i \in reached \cup refused'
<1>1. /\ i \in DOMAIN cmd.args /\ cmd.args[i] = p /\ cmd' = cmd /\ arg # arg + 1
      /\ FilesOK /\ status = "running"
  BY OperandFacts
<1>2. CASE touch_fn_actor \/ creat \/ Finish("touch")
  BY <1>1, <1>2 DEF touch_fn_actor, creat, Finish, Abort, Exit
<1>3. CASE again_butthead
  <2>. DEFINE n == Number(Follow(p))
              new == [inode[n] EXCEPT !.atime = state.ut[1], !.mtime = state.ut[2]]
  <2>1. /\ Accessible(p) /\ UNCHANGED name /\ cmd.util = "touch" /\ state.pc = "utime"
        /\ inode' = [inode EXCEPT ![n].atime = state.ut[1], ![n].mtime = state.ut[2]]
    BY <1>1, <1>3 DEF again_butthead, Abort, AtOperand, Running
  <2>2. p \in Paths /\ n \in DOMAIN inode /\ inode[n] \in Inodes
    BY <1>1, <2>1, OperandFacts, FollowFacts DEF FilesOK, FileUtils
  <2>3. inode' = [inode EXCEPT ![n] = new]
    BY <2>1, <2>2
  <2>4. /\ new \in Inodes /\ new.type = inode[n].type /\ new.content = inode[n].content
        /\ new.atime = state.ut[1] /\ new.mtime = state.ut[2]
    <3>1. state.ut[1] \in Times /\ state.ut[2] \in Times
      BY <2>1 DEF TypeInv, StateOK
    <3>. QED
      BY <2>2, <3>1 DEF Inodes
  <2>5. /\ cmd.opt_atime => new.atime = Asked
        /\ cmd.opt_mtime => new.mtime = Asked
    BY <2>1, <2>4 DEF TouchInv
  <2>. HIDE DEF new
  <2>6. \A q : Number(q)' = Number(q) /\ Type(q)' = Type(q) /\ Follow(q)' = Follow(q)
    <3>. HIDE DEF n
    <3>. QED
      BY <1>1, <2>1, <2>2, <2>3, <2>4, RetouchFacts
  <2>7. \A q : q = Follow(p) => Type(q)' = Type(q) /\ Number(q)' = n
    BY <2>6
  <2>8. Follow(p)' = Follow(p)
    BY <2>6
  <2>9. Accessible(p)' /\ Number(Follow(p))' = n
    BY <2>1, <2>7, <2>8 DEF Accessible, Type, Number
  <2>10. inode'[n] = new
    BY <1>1, <2>2, <2>3 DEF FilesOK
  <2>. HIDE DEF n
  <2>11. cmd'.args[i] = p
    BY <1>1
  <2>12. Touched(i)'
    BY <1>1, <2>5, <2>9, <2>10, <2>11 DEF Touched, Accessible, Follow, Type, Number
  <2>. QED
    BY <1>1, <2>1, <2>12 DEF Goal
<1>. QED
  BY <1>2, <1>3 DEF TouchStep

LEMMA NextLink ==
  ASSUME NEW i, NEW p, NEW q, cmd' = cmd, cmd.args[i] = p, cmd.util \in {"ln", "link"},
         q = IF cmd.util = "ln" /\ ~state'.have_2arg_form
             THEN Append(cmd.target, Last(p)) ELSE cmd.target
  PROVE  /\ /\ cmd.util = "ln" /\ cmd.opt_symlink /\ Type(q)' = "link"
            /\ \E n : n = Number(q)' /\ inode'[n].content = p
            => Goal(i)'
         /\ /\ ~(cmd.util = "ln" /\ cmd.opt_symlink)
            /\ Type(q)' # "none" /\ Number(q)' = Number(p)'
            => Goal(i)'
<1>1. cmd'.util = cmd.util /\ cmd'.args[i] = p /\ LinkName(i)' = q
  BY DEF LinkName
<1>2. LinkMade(i)' => Goal(i)'
  BY <1>1 DEF Goal
<1>3. /\ cmd.util = "ln" /\ cmd.opt_symlink /\ Type(q)' = "link"
      /\ \E n : n = Number(q)' /\ inode'[n].content = p
      => LinkMade(i)'
  BY <1>1 DEF LinkMade, Type, Number
<1>4. /\ ~(cmd.util = "ln" /\ cmd.opt_symlink)
      /\ Type(q)' # "none" /\ Number(q)' = Number(p)'
      => LinkMade(i)'
  BY <1>1 DEF LinkMade, Exists, Type, Number
<1>. QED
  BY <1>2, <1>3, <1>4

LEMMA LnPasses ==
  ASSUME TypeInv, LnInv, Program, LnStep, arg <= Len(cmd.args),
         NEW i, i = arg, NEW p, p = Operand, arg' = arg + 1
  PROVE  Goal(i)' \/ i \in refused' \/ FromText(i)'
<1>1. /\ i \in DOMAIN cmd.args /\ cmd.args[i] = p /\ cmd' = cmd /\ arg # arg + 1
      /\ FilesOK /\ status = "running"
  BY OperandFacts
<1>2. CASE ln_pre_walk \/ Readlink \/ Finish("ln") \/ Finish("link")
  BY <1>1, <1>2 DEF ln_pre_walk, Readlink, Finish, Goto, Exit
<1>3. CASE Access \/ Unlink
  BY <1>1, <1>3 DEF Access, Unlink, Goto, Deny, Refused
<1>4. CASE Symlink
  <2>0. PICK q : q = link_name
    OBVIOUS
  <2>. DEFINE node == Inode("link", p)
  <2>1. /\ cmd.util = "ln" /\ cmd.opt_symlink /\ state \in LnStates
        /\ \/ CanCreate(q) /\ Create(q, node) /\ state' = LnAgain
           \/ i \in refused'
    BY <1>1, <1>4, <2>0 DEF Symlink, LinkDone, NextOperand, Refused, AtOperand, Running, TypeInv, StateOK
  <2>2. /\ p \in Paths /\ p # <<>> /\ node \in Inodes /\ node.type = "link" /\ node.content = p
    <3>1. p \in Paths /\ p # <<>>
      BY <2>1, OperandFacts DEF FileUtils
    <3>. QED
      BY <3>1 DEF Inode, Inodes, Types, Contents, Times
  <2>3. CASE CanCreate(q) /\ Create(q, node) /\ state' = LnAgain
    <3>1. q = IF cmd.util = "ln" /\ ~state'.have_2arg_form
              THEN Append(cmd.target, Last(p)) ELSE cmd.target
      BY <1>1, <2>0, <2>1, <2>3 DEF link_name, LnAgain, LnStates
    <3>. HIDE DEF node
    <3>2. Type(q)' = "link" /\ \E n : n = Number(q)' /\ inode'[n].content = p
      <4>1. /\ Type(q)' = "link" /\ Number(q)' = Len(inode) + 1
            /\ inode'[Len(inode) + 1].content = p
        BY <1>1, <2>2, <2>3, CreateFacts
      <4>. QED
        BY <4>1
    <3>. QED
      BY <1>1, <2>1, <3>1, <3>2, NextLink
  <2>. QED
    BY <2>1, <2>3
<1>5. ASSUME NEW q, NEW t, CanLink(t, q), name' = [name EXCEPT ![q] = Number(t)],
             inode' = inode, t = p
      PROVE  Type(q)' # "none" /\ Number(q)' = Number(p)'
  BY <1>1, <1>5, LinkFacts DEF CanLink, CanUnlink
<1>6. CASE Link
  <2>0. PICK q : q = link_name
    OBVIOUS
  <2>1. /\ cmd.util = "ln" /\ state \in LnStates
        /\ ~cmd.opt_symlink /\ (i \in state.linkbuf \/ state.target = p)
    BY <1>6 DEF Link, AtOperand, Running, TypeInv, StateOK, LnInv
  <2>2. \/ /\ CanLink(state.target, q) /\ name' = [name EXCEPT ![q] = Number(state.target)]
           /\ state' = LnAgain /\ inode' = inode
        \/ i \in refused'
    BY <1>6, <2>0 DEF Link, LinkDone, NextOperand, Refused
  <2>3. CASE state' = LnAgain /\ i \in state.linkbuf
    BY <1>1, <2>1, <2>3 DEF FromText, LnAgain, LnStates
  <2>4. CASE /\ CanLink(state.target, q) /\ name' = [name EXCEPT ![q] = Number(state.target)]
             /\ state' = LnAgain /\ inode' = inode /\ state.target = p
    <3>1. q = IF cmd.util = "ln" /\ ~state'.have_2arg_form
              THEN Append(cmd.target, Last(p)) ELSE cmd.target
      BY <1>1, <2>0, <2>1, <2>4 DEF link_name, LnAgain, LnStates
    <3>. QED
      BY <1>1, <1>5, <2>1, <2>4, <3>1, NextLink
  <2>. QED
    BY <2>1, <2>2, <2>3, <2>4
<1>7. CASE link
  <2>1. cmd.util = "link"
    BY <1>7 DEF link, AtOperand, Running
  <2>2. CASE /\ CanLink(p, cmd.target) /\ name' = [name EXCEPT ![cmd.target] = Number(p)]
             /\ inode' = inode
    <3>0. PICK q : q = cmd.target
      OBVIOUS
    <3>1. Type(q)' # "none" /\ Number(q)' = Number(p)'
      <4>1. CanLink(p, q) /\ name' = [name EXCEPT ![q] = Number(p)] /\ inode' = inode
        BY <2>2, <3>0
      <4>. QED
        BY <1>5, <4>1
    <3>2. q = IF cmd.util = "ln" /\ ~state'.have_2arg_form
              THEN Append(cmd.target, Last(p)) ELSE cmd.target
      BY <2>1, <3>0
    <3>. QED
      BY <1>1, <2>1, <3>1, <3>2, NextLink
  <2>. QED
    BY <1>7, <2>2 DEF link, Refused
<1>. QED
  BY <1>2, <1>3, <1>4, <1>6, <1>7 DEF LnStep

LEMMA IpcrmPasses ==
  ASSUME TypeInv, NamedInv, IpcrmInv, KeysInv, Program, ipcrm, arg <= Len(cmd.args),
         NEW i, i = arg, arg' = arg + 1
  PROVE  Goal(i)' \/ i \in reached \cup refused'
<1>1. /\ i \in DOMAIN cmd.args /\ cmd.args[i] = Operand /\ cmd' = cmd /\ arg # arg + 1
      /\ ObjectsOK /\ status = "running" /\ cmd.util = "ipcrm"
  <2>1. cmd.util = "ipcrm"
    BY DEF ipcrm, push_arg_opt, Skip, remove_one, IPC_RMID, Finish, AtOperand, Running
  <2>. QED
    BY <2>1, OperandFacts
<1>2. CASE push_arg_opt \/ Finish("ipcrm")
  BY <1>1, <1>2 DEF push_arg_opt, Finish, Exit
<1>3. CASE Skip
  BY <1>1, <1>3 DEF Skip, AtOperand, Running, IpcrmInv, Granted
<1>4. CASE remove_one
  BY <1>1, <1>4 DEF remove_one, Found, Deny, Refused
<1>5. CASE IPC_RMID
  <2>1. state.pc = "rmid"
    BY <1>5 DEF IPC_RMID, AtOperand
  <2>2. ~Invalid(i) /\ IpcrmNamed
    BY <1>1, <2>1 DEF IpcrmInv, NamedInv
  <2>3. ASSUME NEW o \in Live, o.id = state.id, Gone(o) PROVE Goal(i)' \/ i \in reached
    <3>1. \A r \in Live' : r \in Live /\ r # o /\ r.id # o.id
      BY <1>1, <2>3, GoneObject DEF Live, ObjectsOK
    <3>2. cmd'.util = "ipcrm" /\ cmd'.args[i] = Operand /\ ~Invalid(i)'
      BY <1>1, <2>2 DEF Invalid
    <3>3. CASE Operand.kind = "id"
      <4>1. o.id = int(Operand.n)
        BY <1>1, <2>1, <2>2, <2>3, <3>3 DEF IpcrmNamed
      <4>. QED
        BY <3>1, <3>2, <3>3, <4>1 DEF Goal, IpcGone
    <3>4. CASE Operand.kind # "id"
      <4>1. o.key = int(Operand.n)
        <5>1. PICK r \in ipc : r.id = state.id /\ r.key = int(Operand.n)
          BY <1>1, <2>1, <2>2, <3>4 DEF IpcrmNamed
        <5>. QED
          BY <1>1, <2>3, <5>1 DEF ObjectsOK, Live
      <4>2. CASE int(Operand.n) = IPC_PRIVATE
        <5>1. Operand.kind = "key"
          BY <1>1, <3>4, <2>2, CmdFacts DEF IpcOperands, Invalid
        <5>. QED
          BY <1>1, <2>2, <4>2, <5>1 DEF IpcrmInv, Private
      <4>3. CASE int(Operand.n) # IPC_PRIVATE
        <5>1. \A r \in Live' : r.key # int(Operand.n)
          BY <2>3, <3>1, <4>1, <4>3 DEF KeysInv
        <5>. QED
          BY <3>2, <3>4, <5>1 DEF Goal, IpcGone
      <4>. QED
        BY <4>2, <4>3
    <3>. QED
      BY <3>3, <3>4
  <2>4. CASE Failed /\ Refused({o \in Live : o.id = state.id} # {})
    BY <2>4 DEF Refused
  <2>. QED
    BY <1>5, <2>3, <2>4 DEF IPC_RMID
<1>. QED
  BY <1>2, <1>3, <1>4, <1>5 DEF ipcrm

LEMMA IpcsPasses ==
  ASSUME TypeInv, IpcsInv, Program, ipcs, arg <= Len(cmd.args), NEW i, i = arg, arg' = arg + 1
  PROVE  i \in reached
<1>1. cmd.util = "ipcs" /\ arg # arg + 1 /\ arg \in DOMAIN cmd.args
  <2>1. cmd.util = "ipcs"
    BY DEF ipcs, IPC_INFO, IPC_STAT, Listed, Finish, AtOperand, Running
  <2>. QED
    BY <2>1, OperandFacts
<1>2. arg = 1
  BY <1>1, CmdFacts
<1>3. Listed
  BY <1>1 DEF ipcs, IPC_INFO, IPC_STAT, Finish, Exit
<1>. QED
  BY <1>1, <1>2, <1>3 DEF Listed, AtOperand, IpcsInv

(* What the utilities keep for OperandsSettled, step by step.              *)
LEMMA LnInvStep ==
  ASSUME TypeInv, Program, cmd.util = "ln"
  PROVE  /\ state.linkbuf \subseteq state'.linkbuf
         /\ status' = "running" => LnInv'
<1>1. LnStep /\ cmd' = cmd /\ state \in LnStates
  BY UtilityStep, WalkStep DEF TypeInv, StateOK
<1>2. CASE Readlink
  <2>. DEFINE symbolic == Type(Operand) = "link"
              t == IF symbolic THEN inode[Number(Operand)].content ELSE Operand
              l == IF symbolic THEN state.linkbuf \cup {arg} ELSE state.linkbuf
  <2>1. /\ ~cmd.opt_symlink /\ arg' = arg
        /\ state' = [state EXCEPT !.pc = "hard", !.target = t, !.linkbuf = l]
    BY <1>1, <1>2 DEF Readlink, LnStates
  <2>2. state'.target = t /\ state'.linkbuf = l /\ Operand' = Operand
    BY <1>1, <2>1 DEF LnStates, Operand
  <2>3. state.linkbuf \subseteq l /\ (arg \in l \/ t = Operand)
    OBVIOUS
  <2>. HIDE DEF t, l
  <2>. QED
    BY <1>1, <2>1, <2>2, <2>3 DEF LnInv
<1>3. CASE Finish("ln")
  BY <1>3 DEF Finish, Exit
<1>4. CASE ln_pre_walk \/ Access \/ Unlink \/ Symlink \/ Link
  <2>1. \/ \E pc \in {"access", "unlink", "link"} : state' = [state EXCEPT !.pc = pc]
        \/ \E two \in BOOLEAN : state' = [LnAgain EXCEPT !.have_2arg_form = two]
        \/ status' # "running" /\ state' = state
    BY <1>4 DEF ln_pre_walk, Access, Unlink, Symlink, Link, LinkDone, LnAgain, NextOperand, Goto, Exit
  <2>2. (state'.linkbuf = state.linkbuf /\ state'.pc # "hard")
        \/ (status' # "running" /\ state' = state)
    BY <1>1, <2>1 DEF LnStates, LnAgain
  <2>. QED
    BY <2>2 DEF LnInv
<1>. QED
  BY <1>1, <1>2, <1>3, <1>4 DEF LnStep, link, Finish, AtOperand, Running

LEMMA RmdirInvStep ==
  ASSUME TypeInv, NamedInv, RmdirInv, Program, cmd.util = "rmdir", status' = "running",
         reached' = reached \cup Reached'
  PROVE  RmdirInv'
<1>1. rmdir_fn_actor /\ state \in DirStates
  BY UtilityStep DEF DirUtils, DirStep, mkdir_arg, S_ISDIR, mkdir, mkfifo_arg, unlink, Finish,
     Exit, AtOperand, Running, TypeInv, StateOK
<1>2. arg <= Len(cmd.args) /\ status = "running" /\ cmd' = cmd
  BY <1>1, OperandFacts DEF rmdir_fn_actor, Running
<1>3. CASE state' = DirStart
  BY <1>3 DEF RmdirInv, DirStart
<1>4. CASE state' # DirStart
  <2>1. arg' = arg
    BY <1>1, <1>4 DEF rmdir_fn_actor, NextOperand, Abort
  <2>2. state.pc = "stat" \/ state.pc = "parents"
    BY <1>2 DEF NamedInv, RmdirNamed
  <2>3. CASE state.pc = "parents"
    BY <2>1, <2>3 DEF RmdirInv
  <2>4. CASE state.pc = "stat"
    <3>1. PICK p : p = Operand
      OBVIOUS
    <3>2. CanRmdir(p) /\ Unname(p)
      BY <1>1, <1>2, <2>4, <3>1 DEF rmdir_fn_actor, Abort
    <3>3. p \in Paths /\ FilesOK
      BY <1>2, <3>1, OperandFacts DEF FileUtils, DirUtils
    <3>4. Type(p)' = "none"
      BY <3>2, <3>3, UnnameFacts
    <3>5. \A i : i = arg => Goal(i)' /\ i \in DOMAIN cmd'.args
      BY <1>2, <3>1, <3>4, OperandFacts, NextGoal
    <3>6. \A i : i = arg => i \in Reached'
      BY <3>5 DEF Reached
    <3>. QED
      BY <2>1, <3>6 DEF RmdirInv
  <2>. QED
    BY <2>2, <2>3, <2>4
<1>. QED
  BY <1>3, <1>4

LEMMA TouchInvStep ==
  ASSUME TypeInv, TouchInv, Program, cmd.util = "touch", status' = "running"
  PROVE  TouchInv'
<1>1. TouchStep /\ cmd' = cmd /\ state \in TouchStates
  BY UtilityStep, WalkStep DEF TypeInv, StateOK
<1>2. CASE touch_fn_actor
  <2>. DEFINE both == cmd.opt_atime /\ cmd.opt_mtime
              ut == IF both THEN <<Asked, Asked>>
                    ELSE <<IF cmd.opt_atime THEN Asked ELSE Existing.atime,
                           IF cmd.opt_mtime THEN Asked ELSE Existing.mtime>>
  <2>1. state' = [state EXCEPT !.pc = "utime", !.ut = ut]
    BY <1>2 DEF touch_fn_actor, Abort, AtOperand, Running
  <2>2. (cmd.opt_atime => ut[1] = Asked) /\ (cmd.opt_mtime => ut[2] = Asked)
    OBVIOUS
  <2>3. state'.ut = ut
    BY <1>1, <2>1 DEF TouchStates
  <2>. HIDE DEF ut
  <2>. QED
    BY <1>1, <2>2, <2>3 DEF TouchInv
<1>3. CASE again_butthead
  <2>1. state' = TouchStart \/ (state.pc # "stat" /\ state'.ut = state.ut)
    BY <1>1, <1>3 DEF again_butthead, NextOperand, Abort, AtOperand, Running, TouchStates
  <2>. QED
    BY <1>1, <2>1 DEF TouchInv, TouchStart
<1>4. CASE creat
  <2>1. state.pc # "stat" /\ state'.ut = state.ut
    BY <1>1, <1>4 DEF creat, Abort, AtOperand, Running, TouchStates
  <2>. QED
    BY <1>1, <2>1 DEF TouchInv
<1>5. CASE Finish("touch")
  BY <1>5 DEF Finish, Exit, Running
<1>. QED
  BY <1>1, <1>2, <1>3, <1>4, <1>5 DEF TouchStep

LEMMA IpcrmInvStep ==
  ASSUME TypeInv, IpcrmInv, Program, cmd.util = "ipcrm", status' = "running",
         reached' = reached \cup Reached'
  PROVE  IpcrmInv'
<1>1. /\ ipcrm /\ cmd' = cmd /\ state \in IpcrmStates
      /\ \A i : Invalid(i)' = Invalid(i) /\ Private(i)' = Private(i)
  BY UtilityStep, WalkStep DEF TypeInv, StateOK, Invalid, Private
<1>2. \A i \in DOMAIN cmd.args : Private(i) /\ ~Invalid(i) => i \in reached'
  BY DEF IpcrmInv
<1>3. CASE push_arg_opt
  <2>1. state'.pc = "lookup" /\ \A i \in DOMAIN cmd.args : Invalid(i) => i \in refused'
    BY <1>1, <1>3 DEF push_arg_opt, IpcrmStates
  <2>. QED
    BY <1>1, <1>2, <2>1 DEF IpcrmInv
<1>4. CASE Skip \/ remove_one \/ IPC_RMID
  <2>1. state.pc # "push" /\ refused \subseteq refused'
    BY <1>4 DEF Skip, remove_one, IPC_RMID, AtOperand, Granted, Deny, Refused
  <2>2. \/ state'.pc = "lookup"
        \/ state'.pc = "rmid" /\ arg' = arg /\ ~Invalid(arg)
    BY <1>1, <1>4 DEF Skip, remove_one, IPC_RMID, Found, Failed, NextOperand, RmStart, AtOperand,
       IpcrmStates
  <2>3. state'.pc = "rmid" => ~Invalid(arg)'
    <3>1. \A i : i = arg' /\ ~Invalid(i) => ~Invalid(arg)'
      BY <1>1 DEF Invalid
    <3>. QED
      BY <2>2, <3>1
  <2>4. state'.pc # "push"
    BY <2>2
  <2>5. \A i \in DOMAIN cmd.args : Invalid(i) => i \in refused'
    BY <2>1 DEF IpcrmInv
  <2>. QED
    BY <1>1, <1>2, <2>3, <2>4, <2>5 DEF IpcrmInv
<1>5. CASE Finish("ipcrm")
  BY <1>5 DEF Finish, Exit, Running
<1>. QED
  BY <1>1, <1>3, <1>4, <1>5 DEF ipcrm

LEMMA IpcsInvStep ==
  ASSUME TypeInv, IpcsInv, Program, cmd.util = "ipcs", status' = "running",
         reached' = reached \cup Reached'
  PROVE  IpcsInv'
<1>1. ipcs /\ cmd' = cmd /\ state \in IpcsStates /\ ObjectsOK
  BY UtilityStep, WalkStep DEF TypeInv, StateOK
<1>2. UNCHANGED ipc /\ Live' = Live /\ \A o \in Live : o.id \in Nat /\ o.id < Cardinality(ipc)
  <2>1. UNCHANGED ipc
    BY <1>1 DEF ipcs, IPC_INFO, IPC_STAT, Listed, Finish
  <2>. QED
    BY <1>1, <2>1 DEF Live, ObjectsOK, Objects
<1>3. CASE IPC_INFO
  <2>1. PICK m \in {0} \cup {o.id : o \in Live} :
          /\ \A o \in Live : o.id <= m
          /\ state' = [state EXCEPT !.pc = "stat", !.before = Live, !.max = m]
    BY <1>3 DEF IPC_INFO, Exit
  <2>2. state.index = 0 /\ m \in Nat
    <3>1. state.pc = "info"
      BY <1>3 DEF IPC_INFO, AtOperand
    <3>2. state.index = 0
      BY <3>1 DEF IpcsInv
    <3>3. m \in Nat
      BY <1>2
    <3>. QED
      BY <3>2, <3>3
  <2>3. state'.pc = "stat" /\ state'.before = Live /\ state'.max = m /\ state'.index = 0
    BY <1>1, <2>1, <2>2 DEF IpcsStates
  <2>. QED
    BY <1>1, <1>2, <2>1, <2>2, <2>3 DEF IpcsInv
<1>4. CASE IPC_STAT
  <2>. DEFINE listed == state.listed \cup {o \in Live : o.id = state.index}
  <2>1. /\ state.pc = "stat" /\ arg' = arg /\ arg <= Len(cmd.args)
        /\ state' = [state EXCEPT !.pc = IF state.index = state.max THEN "printed" ELSE "stat",
                                  !.index = state.index + 1, !.listed = listed]
    BY <1>1, <1>4 DEF IPC_STAT, AtOperand, IpcsStates
  <2>2. /\ state'.pc = (IF state.index = state.max THEN "printed" ELSE "stat")
        /\ state'.before = state.before /\ state'.max = state.max
        /\ state'.index = state.index + 1 /\ state'.listed = listed
    BY <1>1, <2>1 DEF IpcsStates
  <2>3. /\ \A o \in state.before : o.id <= state.max /\ o.id < Cardinality(ipc)
        /\ \A o \in state.before \cap Live : o.id < state.index => o \in state.listed
        /\ state.index <= state.max /\ state.index \in Nat /\ state.max \in Nat
    BY <1>1, <2>1 DEF IpcsInv, IpcsStates
  <2>4. \A o \in state.before \cap Live : o.id < state.index + 1 => o \in listed
    BY <1>2, <2>3
  <2>5. ASSUME state.index = state.max PROVE 1 \in reached'
    <3>1. \A o \in state.before \cap Live : o \in listed
      BY <1>2, <2>3, <2>4, <2>5
    <3>2. Goal(1)' /\ 1 \in DOMAIN cmd'.args
      <4>1. 1 \in DOMAIN cmd.args
        BY CmdFacts
      <4>2. state'.pc = "printed" /\ state'.before \cap Live' \subseteq state'.listed
        BY <1>2, <2>2, <2>5, <3>1
      <4>. QED
        BY <1>1, <4>1, <4>2 DEF Goal
    <3>. QED
      BY <3>2 DEF Reached
  <2>. HIDE DEF listed
  <2>6. state'.pc = "stat" => state'.index <= state'.max
    BY <2>2, <2>3
  <2>. QED
    BY <1>1, <1>2, <2>2, <2>3, <2>4, <2>5, <2>6 DEF IpcsInv
<1>5. CASE Listed
  BY <1>1, <1>2, <1>5 DEF Listed, NextOperand, IpcsInv
<1>6. CASE Finish("ipcs")
  BY <1>6 DEF Finish, Exit, Running
<1>. QED
  BY <1>1, <1>3, <1>4, <1>5, <1>6 DEF ipcs

LEMMA KeysStep ==
  ASSUME TypeInv, KeysInv, Program \/ Other
  PROVE  KeysInv'
<1>1. ObjectsOK
  BY DEF TypeInv
<1>2. CASE UNCHANGED ipc
  BY <1>2 DEF KeysInv, Live
<1>3. ASSUME NEW o \in Live, Gone(o) PROVE KeysInv'
  <2>1. \A q \in Live' : q \in Live
    BY <1>1, <1>3, GoneObject
  <2>. QED
    BY <2>1 DEF KeysInv
<1>4. ASSUME NEW k \in {IPC_PRIVATE, 1}, Add(k), k = IPC_PRIVATE \/ \A o \in Live : o.key # k
      PROVE  KeysInv'
  <2>. DEFINE new == [id |-> Fresh, key |-> k, there |-> TRUE]
  <2>1. \A q \in Live' : q \in Live \/ q = new
    BY <1>4 DEF Add, Live
  <2>2. new.key = k
    OBVIOUS
  <2>. HIDE DEF new
  <2>. QED
    BY <1>4, <2>1, <2>2 DEF KeysInv, IPC_PRIVATE
<1>5. CASE Program
  <2>1. UNCHANGED ipc \/ Add(IPC_PRIVATE) \/ \E o \in Live : Gone(o)
    BY <1>5, ObjectsStep DEF remove_one, IPC_RMID, Add
  <2>. QED
    BY <1>2, <1>3, <1>4, <2>1
<1>6. CASE Other
  BY <1>2, <1>3, <1>4, <1>6, OtherFacts
<1>. QED
  BY <1>5, <1>6

LEMMA SettledStays ==
  ASSUME TypeInv, Program, ~push_arg_opt, reached' = reached \cup Reached', NEW i, Settled(i)
  PROVE  Settled(i)'
<1>1. refused \subseteq refused' /\ cmd' = cmd
  BY ToldStep, WalkStep DEF AtEnd, Told, Quiet, Passes, PassesZero, Fails, GivesUp, Refusing
<1>2. FromText(i) => FromText(i)'
  BY <1>1, LnInvStep DEF FromText
<1>. QED
  BY <1>1, <1>2 DEF Settled

LEMMA PassedIsSettled ==
  ASSUME TypeInv, NamedInv, SettledInv, Program, arg <= Len(cmd.args),
         NEW i, i = arg, arg' = arg + 1, ~push_arg_opt, reached' = reached \cup Reached'
  PROVE  Settled(i)'
<1>1. /\ i \in DOMAIN cmd.args /\ cmd' = cmd /\ status = "running"
      /\ LnInv /\ RmdirInv /\ TouchInv /\ IpcrmInv /\ IpcsInv /\ KeysInv
  BY OperandFacts DEF SettledInv
<1>2. PICK p : p = Operand
  OBVIOUS
<1>3. Goal(i)' \/ i \in reached \cup refused' \/ FromText(i)'
  <2>1. DirStep => Goal(i)' \/ i \in reached \cup refused'
    BY <1>1, <1>2, DirPasses
  <2>2. LnStep => Goal(i)' \/ i \in refused' \/ FromText(i)'
    BY <1>1, <1>2, LnPasses
  <2>3. TouchStep => Goal(i)' \/ i \in reached \cup refused'
    BY <1>1, <1>2, TouchPasses
  <2>4. PathchkStep => Goal(i)' \/ i \in reached \cup refused'
    BY PathchkPasses
  <2>5. ipcrm => Goal(i)' \/ i \in reached \cup refused'
    BY <1>1, IpcrmPasses
  <2>6. ipcs => i \in reached
    BY <1>1, IpcsPasses
  <2>. QED
    BY <2>1, <2>2, <2>3, <2>4, <2>5, <2>6 DEF Program, FileStep, IpcStep
<1>4. Goal(i)' => i \in Reached'
  BY <1>1 DEF Reached
<1>. QED
  BY <1>3, <1>4 DEF Settled

LEMMA SettledStep == TypeInv /\ NamedInv /\ SettledInv /\ [Next]_vars => SettledInv'
<1>. SUFFICES ASSUME TypeInv, NamedInv, SettledInv, [Next]_vars PROVE SettledInv'
  OBVIOUS
<1>. DEFINE Parts_ == LnInv /\ RmdirInv /\ TouchInv /\ IpcrmInv /\ IpcsInv
<1>1. CASE UNCHANGED vars
  BY <1>1 DEF vars, process, files, SettledInv, LnInv, RmdirInv, TouchInv, KeysInv, IpcrmInv, IpcsInv,
     Settled, FromText, Private, Invalid, Live, Operand
<1>2. CASE Program /\ reached' = reached \cup Reached'
  <2>1. /\ status = "running" /\ cmd' = cmd /\ Parts_ /\ KeysInv
        /\ Len(cmd.args) \in Nat /\ DOMAIN cmd.args = 1..Len(cmd.args)
        /\ arg \in 1..(Len(cmd.args) + 1)
    BY <1>2, OutcomeStep, WalkStep, CmdFacts DEF SettledInv, TypeInv
  <2>2. KeysInv'
    BY <1>2, <2>1, KeysStep
  <2>3. ASSUME status' = "running" PROVE Parts_'
    <3>1. LnInv'
      BY <1>2, <2>1, <2>3, LnInvStep DEF LnInv
    <3>2. RmdirInv'
      BY <1>2, <2>1, <2>3, RmdirInvStep DEF RmdirInv
    <3>3. TouchInv'
      BY <1>2, <2>1, <2>3, TouchInvStep DEF TouchInv
    <3>4. IpcrmInv'
      BY <1>2, <2>1, <2>3, IpcrmInvStep DEF IpcrmInv
    <3>5. IpcsInv'
      BY <1>2, <2>1, <2>3, IpcsInvStep DEF IpcsInv
    <3>. QED
      BY <3>1, <3>2, <3>3, <3>4, <3>5
  <2>4. ASSUME NEW i \in DOMAIN cmd.args, i < arg' \/ (status' = "error" /\ state'.pc # "pre_walk")
        PROVE  Settled(i)'
    <3>1. i \in 1..Len(cmd.args)
      BY <2>1
    <3>2. i < arg => Settled(i)
      BY DEF SettledInv
    <3>3. CASE push_arg_opt
      <4>1. arg' = 1 /\ status' = "running"
        BY <2>1, <3>3 DEF push_arg_opt, Running, IpcrmInv
      <4>. QED
        BY <2>4, <3>1, <4>1
    <3>4. CASE ~push_arg_opt
      <4>1. i < arg => Settled(i)'
        BY <1>2, <3>2, <3>4, SettledStays
      <4>2. CASE AtEnd
        BY <2>1, <3>1, <4>1, <4>2 DEF AtEnd
      <4>3. CASE Told /\ i >= arg
        <5>1. \/ arg' = arg + 1 /\ i = arg
              \/ Fails /\ i = arg
              \/ GivesUp /\ status' = "error" /\ state'.pc # "pre_walk"
          BY <2>1, <2>4, <3>1, <4>3 DEF Told, Quiet, Passes, PassesZero, Fails, GivesUp
        <5>2. CASE arg' = arg + 1 /\ i = arg
          BY <1>2, <3>4, <4>3, <5>2, PassedIsSettled DEF Told
        <5>3. CASE Fails /\ i = arg
          BY <5>3 DEF Fails, Refusing, Settled
        <5>4. CASE GivesUp /\ status' = "error" /\ state'.pc # "pre_walk"
          <6>1. cmd.util = "ipcs"
            BY <5>4 DEF GivesUp
          <6>2. Len(cmd.args) = 1
            BY <6>1, CmdFacts
          <6>3. i = arg
            BY <2>1, <3>1, <4>3, <6>2 DEF Told
          <6>. QED
            BY <5>4, <6>3 DEF GivesUp, Refusing, Settled
        <5>. QED
          BY <5>1, <5>2, <5>3, <5>4
      <4>. QED
        BY <1>2, <2>1, <3>1, <3>4, <4>1, <4>2, <4>3, ToldStep
    <3>. QED
      BY <3>3, <3>4
  <2>. QED
    BY <2>1, <2>2, <2>3, <2>4 DEF SettledInv
<1>3. CASE Other /\ reached' = reached \cup Reached'
  <2>1. /\ UNCHANGED <<cmd, arg, state, exit_status, status, refused>> /\ ObjectsOK
        /\ \A i : (Invalid(i)' <=> Invalid(i)) /\ (Private(i)' <=> Private(i))
        /\ Operand' = Operand /\ reached \subseteq reached' /\ status = "running"
    BY <1>3, OtherFacts DEF process, TypeInv, Invalid, Private, Operand
  <2>2. KeysInv' /\ Parts_ /\ KeysInv
    BY <1>3, <2>1, KeysStep DEF SettledInv
  <2>3. LnInv' /\ RmdirInv' /\ TouchInv'
    BY <2>1, <2>2 DEF LnInv, RmdirInv, TouchInv
  <2>4. IpcrmInv'
    <3>1. state.pc = "rmid" => (Invalid(arg)' <=> Invalid(arg))
      BY <2>1 DEF Invalid
    <3>. QED
      BY <2>1, <2>2, <3>1 DEF IpcrmInv
  <2>5. IpcsInv'
    <3>. SUFFICES ASSUME cmd.util = "ipcs" PROVE IpcsInv'
      BY <2>1 DEF IpcsInv
    <3>1. /\ Cardinality(ipc) \in Nat /\ Cardinality(ipc') \in Nat
          /\ Cardinality(ipc') >= Cardinality(ipc)
          /\ \A o \in Live' : o \in Live \/ o.id = Cardinality(ipc)
      <4>0. Cardinality(ipc) \in Nat
        BY <2>1, FS_CardinalityType DEF ObjectsOK
      <4>1. CASE UNCHANGED ipc
        BY <4>0, <4>1 DEF Live
      <4>2. CASE \E o \in Live : Gone(o)
        BY <2>1, <4>0, <4>2, GoneObject
      <4>3. CASE Add(1)
        <5>1. Cardinality(ipc') = Cardinality(ipc) + 1
          BY <2>1, <4>3, AddObject
        <5>2. \A o \in Live' : o \in Live \/ o.id = Fresh
          BY <4>3 DEF Add, Live
        <5>. QED
          BY <4>0, <5>1, <5>2 DEF Fresh
      <4>. QED
        BY <1>3, <4>1, <4>2, <4>3, OtherFacts
    <3>2. \A o \in state.before : o.id \in Nat /\ o.id < Cardinality(ipc)
      BY <2>2 DEF IpcsInv, TypeInv, StateOK, IpcsStates, Objects
    <3>3. \A o \in state.before : o.id < Cardinality(ipc')
      BY <3>1, <3>2
    <3>4. \A o \in state.before \cap Live' : o \in Live
      BY <3>1, <3>2
    <3>. QED
      BY <2>1, <2>2, <3>3, <3>4 DEF IpcsInv
  <2>6. \A i \in DOMAIN cmd.args : Settled(i) => Settled(i)'
    BY <2>1 DEF Settled, FromText
  <2>. QED
    BY <2>1, <2>2, <2>3, <2>4, <2>5, <2>6 DEF SettledInv
<1>. QED
  BY <1>1, <1>2, <1>3 DEF Next, Done

LEMMA InitSettled == Init => SettledInv
<1>. SUFFICES ASSUME Init PROVE SettledInv
  OBVIOUS
<1>1. /\ DirStart.pc = "stat" /\ LnStart.pc = "pre_walk" /\ TouchStart.pc = "stat"
      /\ RmStart.pc = "push"
      /\ LsStart.pc = "info" /\ LsStart.index = 0 /\ LsStart.before = {}
  BY DEF DirStart, LnStart, TouchStart, RmStart, LsStart
<1>2. \A i \in DOMAIN cmd.args : ~(i < arg)
  BY InitStart
<1>3. KeysInv /\ \A o \in Live : o.key = 1
  <2>. DEFINE o == [id |-> 0, key |-> 1, there |-> TRUE]
  <2>1. \A q \in Live : q = o
    BY DEF Init, Live
  <2>2. o.key = 1
    OBVIOUS
  <2>. HIDE DEF o
  <2>. QED
    BY <2>1, <2>2 DEF KeysInv
<1>4. IpcrmInv
  <2>1. ASSUME NEW i \in DOMAIN cmd.args, cmd.util = "ipcrm", Private(i), ~Invalid(i)
        PROVE  i \in reached
    <3>1. Goal(i)
      BY <1>3, <2>1 DEF Goal, IpcGone, Private, IPC_PRIVATE
    <3>. QED
      BY <3>1 DEF Init, Reached
  <2>. QED
    BY <1>1, <2>1, InitStart DEF IpcrmInv
<1>. QED
  BY <1>1, <1>2, <1>3, <1>4, InitStart
     DEF SettledInv, LnInv, RmdirInv, TouchInv, IpcsInv, DirUtils

(* An operand that fails stops no other: of every operand the walk has     *)
(* passed, what was asked of it has been so or has been refused, whatever  *)
(* other processes do (walk_strlist, and every actor called from it).      *)
THEOREM EveryOperandIsSettled == Spec => []OperandsSettled
<1>1. TypeInv /\ SettledInv => OperandsSettled
  <2>. SUFFICES ASSUME TypeInv, SettledInv PROVE OperandsSettled
    OBVIOUS
  <2>1. /\ Len(cmd.args) \in Nat /\ DOMAIN cmd.args = 1..Len(cmd.args)
        /\ arg \in 1..(Len(cmd.args) + 1) /\ (status = "ok" => arg = Len(cmd.args) + 1)
    BY CmdFacts DEF TypeInv
  <2>2. \A i \in 1..(arg - 1) : i \in DOMAIN cmd.args /\ i < arg
    BY <2>1
  <2>3. status = "ok" => \A i \in DOMAIN cmd.args : i < arg
    BY <2>1
  <2>. QED
    BY <2>2, <2>3 DEF SettledInv, OperandsSettled, Settled
<1>. QED
  BY <1>1, InitType, InitNamed, InitSettled, TypeStep, NamedStep, SettledStep, PTL DEF Spec
=============================================================================
