-------------------------------- MODULE MCRm --------------------------------
(***************************************************************************)
(* Instances of Rm for TLC.  The tree: the start directory "top" holds a   *)
(* directory a (two levels, b and b/b, with files), a directory o outside  *)
(* every operand and a symbolic link l to it.                              *)
(***************************************************************************)
EXTENDS Rm

MCDirs == {"top", "a", "ab", "o"}
MCLeaves == {"f1", "f2", "f3", "lnk"}
MCNames == {"a", "b", "o", "l"}
MCLinkTo == [x \in MCLeaves |-> IF x = "lnk" THEN "o" ELSE NONE]

Entries(d) ==
  CASE d = "top" -> [a |-> "a", b |-> "f1", o |-> "o", l |-> "lnk"]
    [] d = "a"   -> [a |-> NONE, b |-> "ab", o |-> "f2", l |-> NONE]
    [] d = "ab"  -> [a |-> NONE, b |-> NONE, o |-> NONE, l |-> NONE]
    [] d = "o"   -> [a |-> NONE, b |-> "f3", o |-> NONE, l |-> NONE]
MCTree == [d \in MCDirs |-> Entries(d)]

(* The same with the link inside a, so that the traversal meets it.        *)
MCLinkTree == [MCTree EXCEPT !["a"].l = "lnk", !["top"].l = NONE]

MCFull == {[x \in MCDirs \cup MCLeaves |-> {"r", "w", "x"}]}
MCReadOnly == MCFull \cup
  {[x \in MCDirs \cup MCLeaves |-> IF x \in {"f1", "ab"} THEN {"r", "x"}
                                   ELSE {"r", "w", "x"}]}

Arg(d, b) == [dirn |-> d, base |-> b]
QuietArgs == {<<>>, <<Arg(".", "a")>>, <<Arg(".", "l"), Arg(".", "b")>>,
              <<Arg("a", "b"), Arg("o", "b")>>, <<Arg("l", "b"), Arg(".", "a")>>,
              <<Arg(".", ".."), Arg(".", "b")>>, <<Arg("a", "a"), Arg(".", "b")>>,
              <<Arg("a", "b"), Arg(".", "a")>>}
LostArgs == {<<Arg("a", "b"), Arg(".", "o")>>}
QuietFlags == {<<>>, <<"R">>, <<"R", "i">>, <<"R", "f">>, <<"i">>, <<"f", "i", "R">>}
SharedCommands == {<<<<Arg(".", "a"), Arg("o", "b")>>, <<"R", "f">>>>,
                   <<<<Arg("a", "b"), Arg(".", "b")>>, <<"R">>>>}
MCArgs == QuietArgs \cup {c[1] : c \in SharedCommands}
LostFlags == {<<"R">>}

(* Other processes meddle with the commands of SharedCommands only: the    *)
(* rest, every option combination and operand shape, run on their own.     *)
MCNext == Next /\ (others' # others => <<args, flags>> \in SharedCommands)
MCSpec == Init /\ [][MCNext]_vars /\ WF_vars(Step)
=============================================================================
