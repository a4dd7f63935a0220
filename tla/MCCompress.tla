------------------------------ MODULE MCCompress ------------------------------
(***************************************************************************)
(* Instances of Compress for TLC.  "a" is a plain file with a set-ID bit   *)
(* and an owner of its own; "b" is there plain and compressed, with        *)
(* different data; "c" is compressed only, "d" is compressed in name only  *)
(* and would overwrite a plain file, "e" does not exist, "f" is a FIFO.     *)
(* Standard input is compressed.  One command line names a file twice.     *)
(***************************************************************************)
EXTENDS Compress

MCBases == {"a", "b", "c", "d", "e", "f"}
MCBlocks == {"x", "y"}
File(form, data) == [kind |-> "file", form |-> form, data |-> data,
                     own |-> "user", setid |-> FALSE]
MCStart ==
  [p \in Paths |->
     CASE p = <<"a", "">>   -> [File("plain", <<"x", "y">>) EXCEPT !.own = "other",
                                                                   !.setid = TRUE]
       [] p = <<"b", "">>   -> File("plain", <<"x">>)
       [] p = <<"b", ".Z">> -> File("Z", <<"y", "y">>)
       [] p = <<"c", ".Z">> -> [File("Z", <<"x", "y">>) EXCEPT !.own = "other",
                                                               !.setid = TRUE]
       [] p = <<"d", "">>   -> File("plain", <<"y">>)
       [] p = <<"d", ".Z">> -> File("junk", <<>>)
       [] p = <<"f", "">>   -> [File("plain", <<"x">>) EXCEPT !.kind = "pipe"]
       [] p = <<"stdin", "pipe">> -> [File("Z", <<"y", "x">>) EXCEPT !.kind = "pipe"]
       [] p = <<"stdin", "file">> -> [File("Z", <<"y", "x">>) EXCEPT !.own = "other"]
       [] p = <<"stdout", "pipe">> -> [File("plain", <<>>) EXCEPT !.kind = "pipe"]
       [] p = <<"stdout", "file">> -> File("plain", <<>>)
       [] OTHER             -> NONE]

Cmd(style, cat, force, stdout, ops) ==
  [style |-> style, cat |-> cat, force |-> force, stdout |-> stdout, ops |-> ops]
Styles == {"compress", "decompress"}
MCOps == {<<<<"a", "">>, <<"b", "">>>>, <<<<"b", "">>, <<"c", ".Z">>>>,
          <<<<"d", ".Z">>, <<"c", "">>>>, <<<<"f", "">>, <<"c", ".Z">>, <<"c", "">>>>,
          <<<<"c", ".Z">>, <<"e", "">>, <<"b", ".Z">>>>}
MCCommands ==
  {Cmd(s, FALSE, f, <<"stdout", "pipe">>, ops) : s \in Styles, f \in BOOLEAN, ops \in MCOps}
  \cup {Cmd("compress", TRUE, f, o, <<<<"a", "">>>>) : o \in Stdout, f \in BOOLEAN}
  \cup {Cmd("decompress", TRUE, f, o, <<<<"c", "">>>>) : o \in Stdout, f \in BOOLEAN}
  \cup {Cmd(s, FALSE, f, o, <<i, <<"c", "">>>>) : s \in Styles, f \in BOOLEAN, i \in Stdin, o \in Stdout}
=============================================================================
