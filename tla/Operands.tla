-------------------------------- MODULE Operands --------------------------------
(***************************************************************************)
(* One of the utilities of MakeRemove and Ipcrm at work, among other       *)
(* processes that make and remove files and XSI objects.                   *)
(***************************************************************************)
EXTENDS MakeRemove, Ipcrm

CONSTANTS
  Commands,   \* sets of commands: utility, options and operands
  Trees,      \* what there is at first: sets of Nodes
  OtherDirs   \* the directories other processes make

(* link and unlink refuse other numbers of operands when they start.       *)
IpcOperands == [kind : {"bad", "id", "key"}, n : Nat]
IsCommand(c) ==
  /\ c.util \in FileUtils \cup IpcUtils
  /\ c.util \in FileUtils => c.args \in Seq(Paths)
  /\ c.util = "ipcrm" => c.args \in Seq(IpcOperands)
  /\ c.util = "ipcs" => c.args = <<"all">>
  /\ c.util \in {"link", "unlink"} => Len(c.args) = 1
Nodes == [path : Paths, type : {"file", "dir", "link", "fifo"}, content : Paths \cup {<<>>}]

ASSUME OperandsAssumption ==
  /\ {MaxOthers, MaxFaults} \subseteq Nat
  /\ INT_RANGE \in Nat \ {0} /\ INT_RANGE % 2 = 0
  /\ <<>> \notin Paths /\ OtherDirs \subseteq Paths
  /\ \A p \in Paths : p \in Seq(ToSet(p))
  /\ \A u \in DOMAIN Commands : \A c \in Commands[u] : IsCommand(c)
  /\ \A tree \in Trees :
       /\ IsFiniteSet(tree) /\ tree \subseteq Nodes
       /\ \A node \in tree : node.type = "link" => node.content # <<>>

vars == <<process, files, ipc, others, faults, reached, refused>>

(***************************************************************************)
(* What is asked of an operand.                                            *)
(***************************************************************************)
LinkName(i) ==
  IF cmd.util = "ln" /\ ~state.have_2arg_form
  THEN Append(cmd.target, Last(cmd.args[i])) ELSE cmd.target
LinkMade(i) ==
  LET p == LinkName(i)
      of == cmd.args[i]
  IN IF cmd.util = "ln" /\ cmd.opt_symlink
     THEN Type(p) = "link" /\ inode[Number(p)].content = of
     ELSE Exists(p) /\ Number(p) \in {Number(of), Number(Follow(of))}
Touched(i) ==
  LET p == Follow(cmd.args[i])
  IN /\ Accessible(p)
     /\ (cmd.opt_atime => inode[Number(p)].atime = Asked)
     /\ (cmd.opt_mtime => inode[Number(p)].mtime = Asked)
IpcGone(i) ==
  LET named(o) == IF cmd.args[i].kind = "id" THEN o.id = int(cmd.args[i].n)
                  ELSE o.key = int(cmd.args[i].n)
  IN ~Invalid(i) /\ \A o \in Live : ~named(o)

Goal(i) ==
  CASE cmd.util \in {"ln", "link"} -> LinkMade(i)
    [] cmd.util = "mkdir" -> Type(cmd.args[i]) = "dir"
    [] cmd.util = "mkfifo" -> Type(cmd.args[i]) = "fifo"
    [] cmd.util \in {"unlink", "rmdir"} -> ~Exists(cmd.args[i])
    [] cmd.util = "touch" -> Touched(i)
    [] cmd.util = "ipcrm" -> IpcGone(i)
    [] cmd.util = "ipcs" -> state.pc = "printed" /\ state.before \cap Live \subseteq state.listed
    [] cmd.util = "pathchk" ->
         Len(cmd.args[i]) <= cmd.path_max /\ ToSet(cmd.args[i]) \cap cmd.too_long = {}
Reached == {i \in DOMAIN cmd.args : Goal(i)}
-----------------------------------------------------------------------------
Start ==
  IF cmd.util \in FileUtils THEN FileStart ELSE IpcStart

Init ==
  /\ \E u \in DOMAIN Commands : cmd \in Commands[u]
  /\ \E tree \in Trees :
       LET nodes == SetToSeq(tree)
           at(p) == {n \in DOMAIN nodes : nodes[n].path = p}
       IN /\ name = [p \in Paths |-> IF at(p) = {} THEN NoFile ELSE CHOOSE n \in at(p) : TRUE]
          /\ inode = [n \in DOMAIN nodes |->
               [Inode(nodes[n].type, nodes[n].content) EXCEPT !.data = nodes[n].type = "file"]]
  /\ ipc = {[id |-> 0, key |-> 1, there |-> TRUE]}
  /\ arg = 1 /\ state = Start /\ exit_status = 0 /\ status = "running"
  /\ others = 0 /\ faults = 0 /\ refused = {} /\ reached = Reached

OtherMakes ==
  /\ \/ \E p \in Paths : CanCreate(p) /\ Create(p, [Inode("file", <<>>) EXCEPT !.data = TRUE])
     \/ \E p \in OtherDirs : CanCreate(p) /\ Create(p, Inode("dir", <<>>))
  /\ UNCHANGED ipc
OtherRemoves ==
  /\ \E p \in Paths : (CanUnlink(p) \/ CanRmdir(p)) /\ Unname(p)
  /\ UNCHANGED ipc
OtherUsesIpc ==
  /\ \/ \E o \in Live : Gone(o)
     \/ ipc' = ipc \cup {[id |-> Fresh, key |-> 1, there |-> TRUE]}
        /\ \A o \in Live : o.key # 1
  /\ UNCHANGED files
Other ==
  /\ status = "running" /\ others < MaxOthers /\ others' = others + 1
  /\ OtherMakes \/ OtherRemoves \/ (cmd.util \in IpcUtils /\ OtherUsesIpc)
  /\ UNCHANGED <<process, faults, refused>>

Program ==
  /\ FileStep \/ IpcStep
  /\ UNCHANGED others
Done == status # "running" /\ UNCHANGED vars
Next == ((Program \/ Other) /\ reached' = reached \cup Reached') \/ Done
Spec == Init /\ [][Next]_vars

-----------------------------------------------------------------------------
(***************************************************************************)
(* When the utility ends, the status tells: success, that no operand met a *)
(* refusal; anything else, that one did.  ln into a directory is an        *)
(* exception: its status is that of the last operand alone (ln_fn_actor).  *)
(***************************************************************************)
LastCounts == cmd.util = "ln" /\ ~state.have_2arg_form
Counting == IF LastCounts THEN {Len(cmd.args)} ELSE DOMAIN cmd.args
StatusTells ==
  /\ status = "ok" => Counting \cap refused = {}
  /\ status \in {"error", "aborted"} => refused # {}

(***************************************************************************)
(* An operand that fails stops no other, unless the utility aborts or ln   *)
(* refuses to start: of every operand the walk has passed, what was asked  *)
(* of it has been so or has been refused (walk_strlist, and every actor    *)
(* called from it).  A hard link to a symbolic link is an exception: ln    *)
(* makes it to whatever the link's text names in the working directory.    *)
(***************************************************************************)
FromText(i) == cmd.util = "ln" /\ i \in state.linkbuf
OperandsSettled ==
  LET passed == IF status \in {"ok", "error"} /\ state.pc # "pre_walk"
                THEN DOMAIN cmd.args ELSE 1..(arg - 1)
  IN \A i \in passed : i \in reached \cup refused \/ FromText(i)

(***************************************************************************)
(* Whatever other processes do between two calls, the utility removes no   *)
(* name but those it was given to remove: the operand of unlink, an empty  *)
(* directory that is rmdir's operand or with -p above it, the destination  *)
(* of ln -f.  No file loses its data, except to touch, if it came into     *)
(* being after touch had found none (creat in touch_fn_actor).  No XSI     *)
(* object is removed but those named, up to the width of an int, and the   *)
(* one ipcrm has made itself (do_link, rmdir_fn_actor, remove_one).        *)
(***************************************************************************)
Named(p) ==
  CASE cmd.util = "unlink" -> p = cmd.args[arg]
    [] cmd.util = "rmdir" ->
         /\ Type(p) = "dir" /\ Children(p) = {}
         /\ p = cmd.args[arg] \/ (cmd.opt_recurse /\ IsPrefix(p, cmd.args[arg]))
    [] cmd.util = "ln" -> cmd.opt_force /\ p = LinkName(arg)
    [] OTHER -> FALSE
NamedObject(o) ==
  /\ cmd.util = "ipcrm"
  /\ LET n == int(cmd.args[arg].n)
     IN IF cmd.args[arg].kind = "id" THEN o.id = n ELSE o.key = n
RemovesOnlyNamed ==
  [][others' = others =>
       /\ \A p \in Paths : name[p] # NoFile /\ name'[p] # name[p] => Named(p)
       /\ \A n \in DOMAIN inode :
            inode[n].data /\ ~inode'[n].data => cmd.util = "touch" /\ n > state.seen
       /\ \A o \in Live : o \notin ipc' => NamedObject(o)]_vars
=============================================================================
