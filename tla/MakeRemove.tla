------------------------------- MODULE MakeRemove -------------------------------
(***************************************************************************)
(* Utilities that make and remove names: mkdir and rmdir, which with -p go *)
(* up or down a path, mkfifo and unlink, ln and link, and touch; and       *)
(* pathchk, which tells whether a name could be made.                      *)
(***************************************************************************)
EXTENDS Names

(* stack: the paths mkdir_arg() has been called with, and what comes next of *)
(* the last; dn: what rmdir is to remove                                     *)
DirStart == [pc |-> "stat", stack |-> <<>>, dn |-> <<>>]

fn == IF state.stack = <<>> THEN Operand ELSE Last(state.stack)
dirn == Front(fn)
ReturnsTo(pc) ==
  state' = [state EXCEPT !.pc = pc, !.stack = IF @ = <<>> THEN @ ELSE Front(@)]

(* mutants: the parent takes the place of the operand; a failure is forgotten *)
mkdir_returnMutant(rc) == NextOperand(rc, DirStart)
mkdir_return(rc) ==
  IF state.stack = <<>> THEN NextOperand(rc, DirStart)
  ELSE exit_status' = rc /\ ReturnsTo("made") /\ UNCHANGED <<cmd, arg, status>>
mkdir_failsMutant == mkdir_return(exit_status)
mkdir_fails == mkdir_return(1)

mkdir_arg ==
  LET there == Type(Follow(dirn)) = "dir"
      below == ~Accessible(dirn) /\ cmd.opt_recurse /\ errno(dirn) = "ENOENT"
  IN /\ AtOperand("mkdir", "stat")
     /\ \/ there /\ Goto("mkdir") /\ Granted
        \/ /\ below /\ state' = [state EXCEPT !.stack = Append(@, dirn)]
           /\ Granted /\ UNCHANGED <<cmd, arg, exit_status, status>>
        \/ Refused(there \/ below) /\ mkdir_fails
     /\ UNCHANGED <<files, ipc>>

(* The directory has been made, or not; st, which is to tell, was never set. *)
S_ISDIR ==
  /\ AtOperand("mkdir", "made")
  /\ \/ Goto("mkdir") /\ Granted
     \/ mkdir_fails /\ Deny
  /\ UNCHANGED <<files, ipc>>

mkdir ==
  /\ AtOperand("mkdir", "mkdir")
  /\ \/ CanCreate(fn) /\ Create(fn, Inode("dir", <<>>)) /\ mkdir_return(exit_status) /\ Granted
     \/ Refused(CanCreate(fn)) /\ mkdir_fails /\ UNCHANGED files
  /\ UNCHANGED ipc

(* dirname(3) of "/a" is "/", where rmdir -p ends, and of "a" is "." *)
AtTop(p) == cmd.absolute /\ p = <<>>
rmdir_fn_actor ==
  LET dn == IF state.pc = "stat" THEN Operand ELSE state.dn
  IN /\ Running("rmdir") /\ arg <= Len(cmd.args)
     /\ \/ /\ CanRmdir(dn) /\ Unname(dn) /\ Granted
           /\ IF cmd.opt_recurse /\ ~AtTop(Front(dn))
              THEN /\ state' = [state EXCEPT !.pc = "parents", !.dn = Front(dn)]
                   /\ UNCHANGED <<cmd, arg, exit_status, status>>
              ELSE NextOperand(exit_status, DirStart)
        \/ Refused(CanRmdir(dn)) /\ Abort /\ UNCHANGED files
     /\ UNCHANGED ipc

mkfifo_arg ==
  /\ AtOperand("mkfifo", "stat")
  /\ \/ /\ CanCreate(Operand) /\ Create(Operand, Inode("fifo", <<>>))
        /\ NextOperand(exit_status, DirStart) /\ Granted
     \/ Refused(CanCreate(Operand)) /\ NextOperand(1, DirStart) /\ UNCHANGED files
  /\ UNCHANGED ipc

unlink ==
  /\ AtOperand("unlink", "stat")
  /\ \/ CanUnlink(Operand) /\ Unname(Operand) /\ NextOperand(0, DirStart) /\ Granted
     \/ Refused(CanUnlink(Operand)) /\ NextOperand(1, DirStart) /\ UNCHANGED files
  /\ UNCHANGED ipc

DirUtils == {"mkdir", "rmdir", "mkfifo", "unlink"}
DirStep ==
  \/ mkdir_arg \/ S_ISDIR \/ mkdir \/ rmdir_fn_actor \/ mkfifo_arg \/ unlink
  \/ \E util \in DirUtils : Finish(util)
-----------------------------------------------------------------------------
(***************************************************************************)
(* ln, and link: three calls for one link, access(2), unlink(2) and one    *)
(* that makes it.                                                          *)
(***************************************************************************)
(* linkbuf: the operands replaced by the text of a symbolic link (history) *)
LnStart == [pc |-> "pre_walk", have_2arg_form |-> TRUE, target |-> <<>>, linkbuf |-> {}]
LnAgain == [state EXCEPT !.pc = "access"]

link_name == IF state.have_2arg_form THEN cmd.target ELSE Append(cmd.target, Last(Operand))

(* the walk is of all operands but the last; in the first form of the command *)
(* it does nothing, and there must have been one                              *)
ln_pre_walk ==
  LET two == ~(Accessible(cmd.target) /\ Type(Follow(cmd.target)) = "dir")
  IN /\ AtOperand("ln", "pre_walk")
     /\ IF two /\ Len(cmd.args) # 1
        THEN Exit(1) /\ Deny
        ELSE /\ state' = [LnAgain EXCEPT !.have_2arg_form = two]
             /\ Granted /\ UNCHANGED <<cmd, arg, exit_status, status>>
     /\ UNCHANGED <<files, ipc>>

(* Each operand's status takes the place of the one before. *)
LinkDone(rc) == NextOperand(rc, LnAgain)

(* mutant: what is there is removed without -f *)
AccessMutant ==
  /\ AtOperand("ln", "access")
  /\ Goto(IF Accessible(link_name) THEN "unlink" ELSE "link") /\ Granted
  /\ UNCHANGED <<files, ipc>>
Access ==
  /\ AtOperand("ln", "access")
  /\ IF Accessible(link_name) /\ ~cmd.opt_force
     THEN LinkDone(1) /\ Deny
     ELSE Goto(IF Accessible(link_name) THEN "unlink" ELSE "link") /\ Granted
  /\ UNCHANGED <<files, ipc>>

Unlink ==
  /\ AtOperand("ln", "unlink")
  /\ \/ CanUnlink(link_name) /\ Unname(link_name) /\ Goto("link") /\ Granted
     \/ Refused(CanUnlink(link_name)) /\ LinkDone(1) /\ UNCHANGED files
  /\ UNCHANGED ipc

Symlink ==
  /\ AtOperand("ln", "link") /\ cmd.opt_symlink
  /\ \/ /\ CanCreate(link_name) /\ Create(link_name, Inode("link", Operand))
        /\ LinkDone(0) /\ Granted
     \/ Refused(CanCreate(link_name)) /\ LinkDone(1) /\ UNCHANGED files
  /\ UNCHANGED ipc

(* What a link has is taken for a path from the working directory. *)
Readlink ==
  LET symbolic == Type(Operand) = "link"
  IN /\ AtOperand("ln", "link") /\ ~cmd.opt_symlink
     /\ state' = [state EXCEPT !.pc = "hard",
          !.target = IF symbolic THEN inode[Number(Operand)].content ELSE Operand,
          !.linkbuf = IF symbolic THEN @ \cup {arg} ELSE @]
     /\ Granted /\ UNCHANGED <<cmd, arg, exit_status, status, files, ipc>>

Link ==
  LET can == CanLink(state.target, link_name)
  IN /\ AtOperand("ln", "hard")
     /\ \/ /\ can /\ name' = [name EXCEPT ![link_name] = Number(state.target)]
           /\ LinkDone(0) /\ Granted /\ UNCHANGED inode
        \/ Refused(can) /\ LinkDone(1) /\ UNCHANGED files
     /\ UNCHANGED ipc

(* the utility link: one call *)
link ==
  LET can == CanLink(Operand, cmd.target)
  IN /\ AtOperand("link", "pre_walk")
     /\ \/ /\ can /\ name' = [name EXCEPT ![cmd.target] = Number(Operand)]
           /\ NextOperand(0, LnAgain) /\ Granted /\ UNCHANGED inode
        \/ Refused(can) /\ NextOperand(1, LnAgain) /\ UNCHANGED files
     /\ UNCHANGED ipc

LnStep ==
  \/ ln_pre_walk \/ Access \/ Unlink \/ Symlink \/ Readlink \/ Link \/ Finish("ln")
  \/ link \/ Finish("link")
-----------------------------------------------------------------------------
(***************************************************************************)
(* touch: stat(2) for the time that is to stay, utime(2), and if there is  *)
(* no such file creat(2) and utime(2) once more.                           *)
(***************************************************************************)
(* seen: how many inodes there were when utime(2) found no file (history) *)
TouchStart == [pc |-> "stat", second_time |-> FALSE, seen |-> 0, ut |-> <<>>]

(* touch_time: of -t, of the file of -r, or the present *)
Asked == "asked"
Existing == inode[Number(Follow(Operand))]

touch_fn_actor ==
  LET both == cmd.opt_atime /\ cmd.opt_mtime
      there == Accessible(Operand)
      opted(opt, time) == IF opt THEN Asked ELSE time
  IN /\ AtOperand("touch", "stat")
     /\ \/ /\ both \/ there
           /\ state' = [state EXCEPT !.pc = "utime", !.ut =
                IF both THEN <<Asked, Asked>>
                ELSE <<opted(cmd.opt_atime, Existing.atime), opted(cmd.opt_mtime, Existing.mtime)>>]
           /\ Granted /\ UNCHANGED <<cmd, arg, exit_status, status>>
        \/ ~both /\ Refused(there) /\ Abort
     /\ UNCHANGED <<files, ipc>>

Missing == ~Accessible(Operand) /\ errno(Operand) = "ENOENT"
MayCreate == cmd.opt_creat_ok /\ ~state.second_time
again_butthead ==
  /\ AtOperand("touch", "utime")
  /\ \/ /\ Accessible(Operand)
        /\ inode' = [inode EXCEPT ![Number(Follow(Operand))].atime = state.ut[1],
                                  ![Number(Follow(Operand))].mtime = state.ut[2]]
        /\ NextOperand(exit_status, TouchStart) /\ Granted /\ UNCHANGED name
     \/ /\ Missing /\ MayCreate
        /\ state' = [state EXCEPT !.pc = "creat", !.seen = Len(inode)]
        /\ Granted /\ UNCHANGED <<cmd, arg, exit_status, status, files>>
     \/ Refused(Accessible(Operand) \/ (Missing /\ MayCreate)) /\ Abort /\ UNCHANGED files
  /\ UNCHANGED ipc

(* O_CREAT and O_TRUNC: what has come into being in between loses its data *)
creat ==
  LET to == Follow(Operand)
      can == Type(to) = "file" \/ CanCreate(to)
  IN /\ AtOperand("touch", "creat")
     /\ \/ /\ can /\ Granted
           /\ state' = [state EXCEPT !.pc = "utime", !.second_time = TRUE]
           /\ UNCHANGED <<cmd, arg, exit_status, status>>
           /\ IF Type(to) = "file"
              THEN inode' = [inode EXCEPT ![Number(to)].data = FALSE] /\ UNCHANGED name
              ELSE Create(to, Inode("file", <<>>))
        \/ Refused(can) /\ Abort /\ UNCHANGED files
     /\ UNCHANGED ipc

TouchStep == touch_fn_actor \/ again_butthead \/ creat \/ Finish("touch")
-----------------------------------------------------------------------------
(***************************************************************************)
(* pathchk: the limits are those of the file system that the deepest part  *)
(* of the path is on that can be found, and apply to all of its names.     *)
(***************************************************************************)
PathchkStart == [pc |-> "lstat", handle |-> <<>>]

(* find_fshandle(): from the whole path up to "." *)
actor ==
  /\ AtOperand("pathchk", "lstat")
  /\ state' = [state EXCEPT !.pc = "find", !.handle = Operand]
  /\ Granted /\ UNCHANGED <<cmd, arg, exit_status, status, files, ipc>>
find_fshandle ==
  /\ AtOperand("pathchk", "find")
  /\ \/ Exists(state.handle) /\ Goto("pathconf") /\ UNCHANGED faults
     \/ /\ state.handle # <<>>
        /\ \/ ~Exists(state.handle) /\ UNCHANGED faults
           \/ Exists(state.handle) /\ faults < MaxFaults /\ faults' = faults + 1
        /\ state' = [state EXCEPT !.handle = Front(@)]
        /\ UNCHANGED <<cmd, arg, exit_status, status>>
  /\ UNCHANGED <<refused, files, ipc>>

check_component(basen) == basen \notin cmd.too_long
check_path(path) == \A n \in DOMAIN path : check_component(path[n])

(* pathconf(3) follows a link; name_max and path_max *)
pathconf ==
  LET can == Accessible(state.handle)
      fits == Len(Operand) <= cmd.path_max /\ check_path(Operand)
  IN /\ AtOperand("pathchk", "pathconf")
     /\ \/ can /\ fits /\ NextOperand(exit_status, PathchkStart) /\ Granted
        \/ can /\ ~fits /\ Abort /\ Deny
        \/ Refused(can) /\ Abort
     /\ UNCHANGED <<files, ipc>>

PathchkStep == actor \/ find_fshandle \/ pathconf \/ Finish("pathchk")
-----------------------------------------------------------------------------
FileUtils == DirUtils \cup {"ln", "link", "touch", "pathchk"}
FileStart ==
  CASE cmd.util \in DirUtils -> DirStart
    [] cmd.util \in {"ln", "link"} -> LnStart
    [] cmd.util = "touch" -> TouchStart
    [] cmd.util = "pathchk" -> PathchkStart
FileStep == DirStep \/ LnStep \/ TouchStep \/ PathchkStep
=============================================================================
