---------------------------------- MODULE Names ----------------------------------
(***************************************************************************)
(* The utilities that make a call or a few for each operand, and what they *)
(* make them of: a name space of files and one of XSI IPC objects.  Other  *)
(* processes act on both between any two calls, and a call may be refused  *)
(* for reasons of its own (MaxFaults).                                     *)
(*                                                                         *)
(* A path is a sequence of names, <<>> the working directory; absolute     *)
(* paths are those of a process that works in "/".  Symbolic links lead to *)
(* files in the directory they are in, or nowhere.                         *)
(***************************************************************************)
EXTENDS FiniteSets, Integers, SequencesExt

CONSTANTS
  Paths,      \* the paths that may be used
  INT_RANGE,  \* how many numbers an int has
  MaxOthers,  \* steps of other processes in one behaviour
  MaxFaults   \* calls refused although nothing is in their way

VARIABLES
  cmd,          \* the utility, its options and operands
  arg,          \* the operand walk_strlist() is at
  state,        \* the utility's own variables, pc among them
  exit_status,
  status,       \* "running", then "ok", "error" or "aborted"
  name,         \* path -> number of an inode, or 0
  inode,        \* [type, content, atime, mtime, data]
  ipc,          \* [id, key, there]: the XSI objects there are and have been
  others, faults,
  reached,      \* the operands of which what is asked has been so (history)
  refused       \* the operands of which something was refused (history)

files == <<name, inode>>
process == <<cmd, arg, state, exit_status, status>>

NoFile == 0
Number(p) == IF p \in Paths THEN name[p] ELSE NoFile
Type(p) ==
  IF p = <<>> THEN "dir" ELSE IF Number(p) = NoFile THEN "none" ELSE inode[Number(p)].type
Exists(p) == Type(p) # "none"
Children(p) == {q \in Paths : q # <<>> /\ Front(q) = p /\ Exists(q)}

(* what a path leads to, and what stat(2) says when it is not there *)
Follow(p) == IF Type(p) = "link" THEN Front(p) \o inode[Number(p)].content ELSE p
Accessible(p) == Type(Follow(p)) \notin {"none", "link"}
errno(p) ==
  IF \E n \in 1..(Len(p) - 1) :
       Accessible(SubSeq(p, 1, n)) /\ Type(Follow(SubSeq(p, 1, n))) # "dir"
  THEN "ENOTDIR" ELSE "ENOENT"

Inode(type, content) ==
  [type |-> type, content |-> content, atime |-> "other", mtime |-> "other", data |-> FALSE]
CanCreate(p) == p \in Paths /\ ~Exists(p) /\ Type(Front(p)) = "dir"
Create(p, node) ==
  /\ inode' = Append(inode, node)
  /\ name' = [name EXCEPT ![p] = Len(inode) + 1]
Unname(p) == name' = [name EXCEPT ![p] = NoFile] /\ UNCHANGED inode
CanUnlink(p) == Type(p) \in {"file", "link", "fifo"}
CanRmdir(p) == p # <<>> /\ Type(p) = "dir" /\ Children(p) = {}
CanLink(p, q) == CanUnlink(p) /\ CanCreate(q)

(* a call that fails: because it cannot succeed, or for reasons of its own *)
Granted == UNCHANGED <<faults, refused>>
Deny == refused' = refused \cup {arg} /\ UNCHANGED faults
Refused(can) ==
  /\ refused' = refused \cup {arg}
  /\ \/ ~can /\ UNCHANGED faults
     \/ can /\ faults < MaxFaults /\ faults' = faults + 1
-----------------------------------------------------------------------------
(***************************************************************************)
(* walk_strlist() and walk_entry().                                        *)
(***************************************************************************)
Running(util) == status = "running" /\ cmd.util = util
AtOperand(util, pc) == Running(util) /\ arg <= Len(cmd.args) /\ state.pc = pc
Operand == cmd.args[arg]

Goto(pc) == state' = [state EXCEPT !.pc = pc] /\ UNCHANGED <<cmd, arg, exit_status, status>>
(* the actor has returned 0; start: what the next one starts with *)
NextOperand(rc, start) ==
  /\ arg' = arg + 1 /\ exit_status' = rc /\ state' = start
  /\ UNCHANGED <<cmd, status>>
(* it has returned 1, no code walk_entry() knows: assert(0) *)
Abort == status' = "aborted" /\ UNCHANGED <<cmd, arg, state, exit_status>>
Exit(rc) ==
  /\ status' = IF rc = 0 THEN "ok" ELSE "error"
  /\ exit_status' = rc
  /\ UNCHANGED <<cmd, arg, state>>
Finish(util) ==
  /\ Running(util) /\ arg > Len(cmd.args) /\ Exit(exit_status)
  /\ Granted /\ UNCHANGED <<files, ipc>>
=============================================================================
