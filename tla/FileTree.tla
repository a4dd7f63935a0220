------------------------------ MODULE FileTree ------------------------------
(***************************************************************************)
(* The directory tree the utilities work on: the part of the kernel that   *)
(* lstat, open, fchdir, opendir, unlink and rmdir expose to them.  Nothing *)
(* here is code of the repository; it is modelled from how the system      *)
(* calls are used in src/.                                                 *)
(*                                                                         *)
(* A directory entry is a pair of a directory and a name.  Directories are *)
(* identified by inode, so a file descriptor opened on one is simply the   *)
(* directory itself: it stays valid whatever happens to the entry.         *)
(***************************************************************************)
CONSTANTS
  Dirs,     \* inodes of directories
  Leaves,   \* inodes of everything else: files and symbolic links
  Names,    \* names an entry may have
  NONE,     \* no inode: the entry does not exist, or the call failed
  LinkTo,   \* what a leaf leads to when followed: a directory, or NONE
  Root      \* the directory that needs no entry to exist

Dots == {".", ".."}
Nodes == Dirs \cup Leaves
Permissions == {"r", "w", "x"}

ASSUME TreeAssumption ==
  /\ Dirs \cap Leaves = {}
  /\ NONE \notin Nodes
  /\ Names \cap Dots = {}
  /\ Root \in Dirs
  /\ LinkTo \in [Leaves -> Dirs \cup {NONE}]

Trees == [Dirs -> [Names -> Nodes \cup {NONE}]]
Modes == [Nodes -> SUBSET Permissions]

IsEntry(tree, d, n) == n \in Names /\ tree[d][n] # NONE
EntriesOf(tree, d) == {n \in Names : tree[d][n] # NONE}

Linked(tree, d) == d = Root \/ \E p \in Dirs, n \in Names : tree[p][n] = d

Above(tree, d) == {p \in Dirs : \E n \in Names : tree[p][n] = d}
Parent(tree, d) ==
  IF Above(tree, d) = {} THEN d ELSE CHOOSE p \in Above(tree, d) : TRUE

(***************************************************************************)
(* The inode a single name resolves to from directory d, symbolic links    *)
(* not followed; NONE when there is no such entry or d denies search.      *)
(***************************************************************************)
Lookup(tree, mode, d, n) ==
  CASE "x" \notin mode[d] -> NONE
    [] "x" \in mode[d] /\ n = "."  -> d
    [] "x" \in mode[d] /\ n = ".." -> Parent(tree, d)
    [] "x" \in mode[d] /\ n \in Names -> tree[d][n]

Follow(node) == IF node \in Leaves THEN LinkTo[node] ELSE node

(***************************************************************************)
(* open(n, O_DIRECTORY) for reading, from directory d: follows a symbolic  *)
(* link, needs read permission on the directory it finds.                  *)
(***************************************************************************)
OpenDirectory(tree, mode, d, n) ==
  LET node == Follow(Lookup(tree, mode, d, n))
  IN IF node \in Dirs /\ "r" \in mode[node] THEN node ELSE NONE

CanEnter(mode, d) == "x" \in mode[d]
CanModify(mode, d) == {"w", "x"} \subseteq mode[d]

RemoveEntry(tree, d, n) == [tree EXCEPT ![d][n] = NONE]
AddEntry(tree, d, n, node) == [tree EXCEPT ![d][n] = node]

(***************************************************************************)
(* The directories at or below d: the least set that contains d and is     *)
(* closed under "has an entry for".                                        *)
(***************************************************************************)
ClosedUnder(tree, S) ==
  \A p \in S, n \in Names : tree[p][n] \in Dirs => tree[p][n] \in S

SubtreeDirs(tree, d) ==
  {e \in Dirs : \A S \in SUBSET Dirs :
                    d \in S /\ ClosedUnder(tree, S) => e \in S}
=============================================================================
