------------------------------- MODULE MCChown -------------------------------
(***************************************************************************)
(* Instances of Chown for TLC.  The start directory "s" is itself in a     *)
(* directory "up" with a file beside it; it holds a directory a with a     *)
(* file and a directory b, a file f and a link l to a directory outside.   *)
(***************************************************************************)
EXTENDS Chown

MCDirs == {"up", "s", "a", "ab", "o"}
MCLeaves == {"f1", "f2", "f3", "lnk"}
MCNames == {"a", "b", "f", "l"}
MCLinkTo == [x \in MCLeaves |-> IF x = "lnk" THEN "o" ELSE NONE]

MCTree ==
  [up |-> [a |-> "s", b |-> "o", f |-> "f3", l |-> NONE],
   s  |-> [a |-> "a", b |-> NONE, f |-> "f1", l |-> "lnk"],
   a  |-> [a |-> NONE, b |-> "ab", f |-> "f2", l |-> NONE],
   ab |-> [a |-> NONE, b |-> NONE, f |-> NONE, l |-> NONE],
   o  |-> [a |-> NONE, b |-> NONE, f |-> NONE, l |-> NONE]]

MCFull == [x \in MCDirs \cup MCLeaves |-> {"r", "w", "x"}]
Readable == {MCFull}
AnyModes == {MCFull, [MCFull EXCEPT !["ab"] = {"r"}]}

Opts(r, h, l) == [R |-> r, h |-> h, links |-> l]
FlatOptions == {Opts(FALSE, h, l) : h \in BOOLEAN, l \in {"none", "L"}}
DeepOptions == {Opts(TRUE, FALSE, l) : l \in LinkOptions} \cup {Opts(TRUE, TRUE, "none")}
MCOptions == FlatOptions \cup DeepOptions
PhysicalOptions == {Opts(TRUE, FALSE, "P")}

OneTree == {<<"a">>}
MCArgs == {<<"a">>, <<"l">>, <<"a", "f", "f">>, <<"f", ".", "l", "a">>, <<"b", "f">>}

MCLocked == {{}, {"f1"}, {"a"}, {"s", "f1"}, {"f2"}, {"ab"}}
Unlocked == {{}}
MCReplacements ==
  {<<"s", "f", "lnk">>, <<"s", "f", NONE>>, <<"s", "l", "f2">>, <<"s", "b", "f3">>,
   <<"a", "f", "lnk">>, <<"a", "f", NONE>>}

(* A recursive walk changes the whole tree through "..", so the lists of   *)
(* several operands are left to the runs without -R.                       *)
MCInit == Init /\ (opts.R => Len(args) = 1)
MCSpec == MCInit /\ [][Next]_vars /\ WF_vars(Step /\ UNCHANGED fs)
=============================================================================
