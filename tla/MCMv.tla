--------------------------------- MODULE MCMv ---------------------------------
(***************************************************************************)
(* Instances of Mv for TLC: sources on file system A, destinations on A    *)
(* and B; one source with a set-ID bit and an owner of its own, one plain, *)
(* a directory and a device; a destination that is free, one that holds a  *)
(* file that may not be written, one that holds a directory.               *)
(***************************************************************************)
EXTENDS Mv

MCPaths == {"plain", "setid", "dir", "dev", "freeA", "freeB", "fileA", "fileB", "dirB"}
MCInodes == {"i1", "i2", "i3", "i4", "e1", "e2", "e3", "n1", "n2"}
MCDevice == [p \in MCPaths |-> IF p \in {"freeB", "fileB", "dirB"} THEN "B" ELSE "A"]
MCAt == [plain |-> "i1", setid |-> "i2", dir |-> "i3", dev |-> "i4",
         freeA |-> NONE, freeB |-> NONE, fileA |-> "e1", fileB |-> "e2", dirB |-> "e3"]

Plain(data) == [kind |-> "file", data |-> data, own |-> "mv", setid |-> FALSE,
                writable |-> TRUE, time |-> "old"]
MCFiles ==
  [i \in MCInodes |->
     CASE i = "i1" -> Plain(<<"x">>)
       [] i = "i2" -> [Plain(<<"x", "y">>) EXCEPT !.own = "source", !.setid = TRUE]
       [] i = "i3" -> [Plain(<<>>) EXCEPT !.kind = "dir"]
       [] i = "i4" -> [Plain(<<>>) EXCEPT !.kind = "special"]
       [] i = "e2" -> [Plain(<<"y">>) EXCEPT !.writable = FALSE]
       [] i = "e3" -> [Plain(<<>>) EXCEPT !.kind = "dir"]
       [] OTHER -> Plain(<<"y">>)]

Op(a, b) == [from |-> a, to |-> b]
Cmd(form, ops, f, i) == [form |-> form, ops |-> ops, force |-> f, interactive |-> i]
MCOps == {<<Op("setid", "freeB"), Op("plain", "fileB")>>,
          <<Op("plain", "fileA"), Op("setid", "freeA")>>,
          <<Op("dir", "fileB"), Op("setid", "freeB")>>,
          <<Op("dev", "dirB"), Op("dir", "freeA")>>,
          <<Op("plain", "fileB"), Op("setid", "fileB")>>}
MCCommands ==
  {Cmd("dir", ops, f, i) : ops \in MCOps, f \in BOOLEAN, i \in BOOLEAN}
  \cup {Cmd("two", <<Op(a, b)>>, FALSE, FALSE) :
          a \in {"setid", "dir", "dev"}, b \in {"fileA", "fileB"}}
  \cup {Cmd("two", <<Op(a, a)>>, FALSE, FALSE) : a \in {"plain", "dir"}}

MCBlocks == {"x", "y"}
=============================================================================
