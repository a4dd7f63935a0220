------------------------------- MODULE MCOperands -------------------------------
(***************************************************************************)
(* Commands and trees for Operands: a, b, and a directory d.               *)
(***************************************************************************)
EXTENDS Operands

a == <<"a">>
b == <<"b">>
d == <<"d">>
da == <<"d", "a">>
de == <<"d", "e">>
dea == <<"d", "e", "a">>
MCPaths == {a, b, d, da, de, dea}
MCOtherDirs == {d, de}

File(p) == [path |-> p, type |-> "file", content |-> <<>>]
Dir(p) == [path |-> p, type |-> "dir", content |-> <<>>]
SymbolicLink(p, q) == [path |-> p, type |-> "link", content |-> q]
MCTrees ==
  {{}, {File(a)}, {File(a), File(b)}, {File(b), SymbolicLink(a, b)}, {SymbolicLink(a, b)},
   {Dir(d)}, {Dir(d), Dir(de)}, {Dir(d), Dir(de), File(a), File(dea)},
   {Dir(d), File(a), File(b), File(da)}, {Dir(d), File(b), SymbolicLink(da, b)}, {File(d), File(a)}}

UpTo(n, S) == UNION {[1..k -> S] : k \in 1..n}
LnCommands ==
  {[util |-> "ln", opt_force |-> f, opt_symlink |-> s, target |-> t, args |-> x] :
     f \in BOOLEAN, s \in BOOLEAN, t \in {a, b, d, da}, x \in UpTo(2, {a, b, da})}
LinkCommands == {[util |-> "link", target |-> t, args |-> <<x>>] : t \in {b, da}, x \in {a, d, da}}
MkdirCommands ==
  {[util |-> "mkdir", opt_recurse |-> r, args |-> x] : r \in BOOLEAN, x \in UpTo(2, {a, d, de, dea})}
RmdirCommands ==
  {[util |-> "rmdir", opt_recurse |-> r, absolute |-> s, args |-> x] :
     r \in BOOLEAN, s \in BOOLEAN, x \in UpTo(2, {a, d, de})}
MkfifoCommands == {[util |-> "mkfifo", args |-> x] : x \in UpTo(2, {a, da})}
UnlinkCommands == {[util |-> "unlink", args |-> <<x>>] : x \in {a, d, da}}
TouchCommands ==
  {[util |-> "touch", opt_atime |-> "a" \in o, opt_mtime |-> "m" \in o, opt_creat_ok |-> c,
    args |-> x] :
     o \in {{"a"}, {"m"}, {"a", "m"}}, c \in BOOLEAN, x \in UpTo(2, {a, d, da})}
IpcrmCommands ==
  {[util |-> "ipcrm", args |-> x] :
     x \in UpTo(2, {[kind |-> "bad", n |-> 0]} \cup [kind : {"id"}, n : {0, 1, 8, 16, 17}]
                   \cup [kind : {"key"}, n : {0, 1, 16, 17}])}
IpcsCommands == {[util |-> "ipcs", args |-> <<"all">>]}
PathchkCommands ==
  {[util |-> "pathchk", path_max |-> m, too_long |-> s, args |-> x] :
     m \in {2, 3}, s \in SUBSET {"e"}, x \in UpTo(2, {a, da, dea})}
MCCommands ==
  <<LnCommands, LinkCommands, MkdirCommands, RmdirCommands, MkfifoCommands, UnlinkCommands,
    TouchCommands, IpcrmCommands, IpcsCommands, PathchkCommands>>
=============================================================================
