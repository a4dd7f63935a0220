------------------------------- MODULE MCFilters -------------------------------
(***************************************************************************)
(* Commands for TLC: every file up to a length for each utility.           *)
(***************************************************************************)
EXTENDS Filters

UpTo(n, S) == UNION {[1..k -> S] : k \in 0..n}
Ascending(n, k) == {s \in UpTo(n, 1..k) : \A i, j \in DOMAIN s : i < j => s[i] <= s[j]}
Descending(n, k) == {Reverse(s) : s \in Ascending(n, k)}
Text == {"x", "newline"}
(* octets that differ from each other *)
Counted(n) == [j \in 1..n |-> j]

One(S) == {<<s>> : s \in S}
Two(S, T) == {<<s, t>> : s \in S, t \in T}

WcCommands ==
  {[util |-> "wc", chars |-> c, tty |-> FALSE, files |-> f] : c \in BOOLEAN,
     f \in One(UpTo(4, Text \cup {"blank"})) \cup Two(UpTo(2, {"x", "blank"}), UpTo(2, Text))}
CatCommands ==
  {[util |-> u, tty |-> FALSE, files |-> f] : u \in {"cat", "cksum"},
     f \in Two({Counted(k) : k \in 0..4}, {Counted(k) : k \in {0, 2}})}
HeadCommands ==
  {[util |-> "head", head_lines |-> n, tty |-> t, files |-> f] : n \in 1..2, t \in BOOLEAN,
     f \in One(UpTo(5, Text)) \cup Two(UpTo(2, Text), UpTo(3, Text))}
StringsCommands ==
  {[util |-> "strings", strlen |-> 2, tty |-> FALSE, files |-> f] :
     f \in One(UpTo(8, Text)) \cup
           Two(UpTo(4, {"x", "bell", "newline"}), {<<"x", "x", "newline">>})}
ExpandCommands ==
  {[util |-> "expand", repeated_tab |-> r, tab_map |-> m, tty |-> TRUE, files |-> f] :
     r \in {0, 3}, m \in {{2, 4, 5}},
     f \in One(UpTo(5, {"x", "tab", "backspace"})) \cup
           {<<<<"x", "newline", "tab">>, <<"tab", "x">>>>}}
TeeCommands ==
  {[util |-> "tee", outputs |-> n, tty |-> FALSE, files |-> <<Counted(k)>>] : n \in 0..2, k \in 0..5}
SplitBytes ==
  {[util |-> "split", lines |-> FALSE, piece_size |-> p, files |-> <<Counted(k)>>] :
     p \in 0..4, k \in 0..9}
SplitLines ==
  {[util |-> "split", lines |-> TRUE, piece_size |-> p, files |-> f] :
     p \in 1..2, f \in One(UpTo(6, Text))}
UuencodeCommands ==
  {[util |-> "uuencode", base64 |-> b, files |-> <<Counted(k)>>] : b \in BOOLEAN, k \in 0..18}
UniqCommands ==
  {[util |-> "uniq", tty |-> t, files |-> f] : t \in BOOLEAN, f \in One(UpTo(5, 1..2))}
CommCommands ==
  {[util |-> "comm", outmask |-> m, tty |-> FALSE, files |-> f] :
     m \in {{}, {3}, {1, 2}}, f \in Two(Ascending(3, 3), Ascending(3, 3))}
SortCommands ==
  {[util |-> "sort", mode |-> "merge", reverse |-> FALSE, tty |-> FALSE, files |-> f] :
     f \in Two(Ascending(3, 3), Ascending(2, 3)) \cup
           {<<s, t, u>> : s \in Ascending(2, 2), t \in Ascending(1, 3), u \in Ascending(2, 3)}}
  \cup {[util |-> "sort", mode |-> "merge", reverse |-> TRUE, tty |-> TRUE, files |-> f] :
          f \in Two(Descending(3, 3), Descending(2, 3))}
  \cup {[util |-> "sort", mode |-> m, reverse |-> r, tty |-> FALSE, files |-> f] :
          m \in {"sort", "check"}, r \in BOOLEAN,
          f \in One(UpTo(4, 1..2)) \cup Two(UpTo(2, 1..3), UpTo(1, 1..3))}
(* lines that no pattern matches, that one does, and that both do *)
GrepCommands ==
  {[util |-> "grep", patterns |-> p, match_invert |-> v, opt_output |-> o, OUT_LINENO |-> n,
    tty |-> o = "path", files |-> f] :
     p \in {{{2, 3}}, {{2, 3}, {3}}}, v \in BOOLEAN, o \in {"none", "path", "count", "content"},
     n \in BOOLEAN, f \in One(UpTo(3, 1..3)) \cup Two(UpTo(2, 1..2), UpTo(1, 1..2))}
  \cup {[util |-> "grep", patterns |-> {}, match_invert |-> FALSE, opt_output |-> "content",
          OUT_LINENO |-> FALSE, tty |-> FALSE, files |-> <<>>]}
CmpCommands ==
  {[util |-> "cmp", verbose |-> v, silent |-> s, tty |-> FALSE, files |-> f] :
     v \in BOOLEAN, s \in BOOLEAN, f \in Two(UpTo(3, Text), UpTo(3, Text))}
WhatLines == UpTo(4, {"x", "delimiter", "terminator"})
WhatCommands ==
  {[util |-> "what", short |-> s, tty |-> FALSE, files |-> f] : s \in BOOLEAN,
     f \in Two(One(WhatLines), {<<>>}) \cup
           Two(Two({<<>>, <<"delimiter">>}, UpTo(3, {"x", "delimiter", "terminator"})),
               One({<<"delimiter", "x">>}))}

TsortCommands ==
  {[util |-> "tsort", tty |-> t, files |-> f] : t \in BOOLEAN, f \in One(UpTo(4, 1..3))}
  \cup {[util |-> "tsort", tty |-> FALSE, files |-> <<s>>] :
          s \in {<<1, 2, 3, 4, 2, 3>>, <<3, 1, 2, 3, 1, 2>>, <<1, 2, 2, 1, 1, 3>>}}
Symbol(type) == [type |-> type, val |-> 0]
Number(n) == [type |-> "number", val |-> n]
Minus(n) == Number(-n)
Products ==
  {<<Number(3), Symbol(a), Number(2), Symbol(b), Number(5), Symbol(c), Minus(2)>> :
     a, b, c \in {"-", "*", "/"}}
ExprCommands ==
  {[util |-> "expr", tty |-> t, files |-> f] : t \in BOOLEAN,
     f \in One(UpTo(4, {Number(3), Symbol("+"), Symbol("("), Symbol(")"), Symbol("^")}))
           \cup One(UpTo(5, {Number(7), Symbol("-"), Symbol("*")}))
           \cup One(UpTo(3, {Number(0), Minus(1), Minus(8), Symbol("/"), Number(8)}))
           \cup One(Products)}

MCCommands ==
  <<WcCommands, CatCommands, HeadCommands, StringsCommands, ExpandCommands, TeeCommands, SplitBytes,
    SplitLines, UuencodeCommands, UniqCommands, CommCommands, SortCommands,
    GrepCommands, CmpCommands, WhatCommands, TsortCommands, ExprCommands>>
=============================================================================
