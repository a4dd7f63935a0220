-------------------------------- MODULE MCSession --------------------------------
(***************************************************************************)
(* Commands for Session.                                                   *)
(***************************************************************************)
EXTENDS Session

MCPrioMin == -2
MCNiceMin == -4

UpTo(n, S) == UNION {[1..k -> S] : k \in 0..n}
MCOptions == {"-i", "-p", "-n1", "-n-2", "-n9"}
MCIncrement == ("-n1" :> 1) @@ ("-n-2" :> -2) @@ ("-n9" :> 9)
MCAssignment ==
  ("A=1" :> [name |-> "A", value |-> "1"]) @@ ("B=" :> [name |-> "B", value |-> ""])
MCsiglist == (0 :> "NULL") @@ (1 :> "HUP") @@ (2 :> "NULL") @@ (3 :> "KILL") @@ (4 :> "TERM")
MCsigaliases == <<"IOT", "TERM", "POLL", "KILL">>
MCSignalNumber == ("0" :> 0) @@ ("3" :> 3) @@ ("5" :> 5) @@ ("9" :> 9)
MCSettings ==
  [echo |-> 0, size |-> 8, ispeed |-> 0, ospeed |-> 1, eof |-> 0, eol |-> 1, write |-> 0, owner |-> 1]

Started(fds, variables, n, privileged, r) ==
  r @@ [fd |-> fds, environ |-> variables, nice |-> n, privileged |-> privileged]
Pipes == [d \in 0..3 |-> IF d = 3 THEN "closed" ELSE "pipe"]
Descriptors ==
  {[d \in 0..3 |-> CASE d = 0 -> i [] d = 1 -> o [] d = 2 -> e [] d = 3 -> "closed"] :
     i \in {"tty", "closed"}, o \in {"tty", "pipe", "closed"}, e \in {"tty", "pipe", "closed"}}
Variables(b) == <<[name |-> "A", value |-> "0"], [name |-> "B", value |-> b]>>

NohupCommands ==
  {Started(f, <<>>, 1, FALSE, [util |-> "nohup", words |-> w, home |-> h]) :
     f \in Descriptors, h \in BOOLEAN, w \in {<<>>, <<"util", "-p">>, <<"other">>}}
NiceCommands ==
  {Started(Pipes, <<>>, n, p, [util |-> "nice", words |-> w]) :
     n \in 0..2, p \in BOOLEAN, w \in UpTo(3, {"util", "-n1", "-n-2", "-n9", "--"})}
EnvCommands ==
  {Started(Pipes, Variables(b), 1, FALSE, [util |-> "env", words |-> w]) :
     b \in {"", "0"}, w \in UpTo(4, {"util", "A=1", "B=", "-i"}) \cup {<<"-p", "util">>, <<"--", "util", "-i">>}}
TimeCommands ==
  {Started(Pipes, <<>>, 1, FALSE, [util |-> "time", words |-> w]) : w \in UpTo(2, {"util", "-p"})}

Pid(n) == [kind |-> "pid", pid |-> n]
Bad == [kind |-> "bad", pid |-> 0]
Targets == {Pid(self), Pid(1), Pid(2), Pid(7), Pid(-1), Bad}
KillCommands ==
  {Started(Pipes, <<>>, 1, FALSE, [util |-> "kill", form |-> f, name |-> n, args |-> a]) :
     f \in {"-s", "-name"}, n \in {"HUP", "TERM", "IOT", "POLL", "FOO", "0", "3", "5", "9"},
     a \in UpTo(2, Targets) \cup {<<Pid(1), t, Pid(2)>> : t \in Targets}}
  \cup {Started(Pipes, <<>>, 1, FALSE, [util |-> "kill", form |-> f, name |-> n, args |-> <<Pid(1)>>]) :
          f \in {"default", "-l"}, n \in {"0", "3", "5", "9"}}
ReniceCommands ==
  {Started(Pipes, <<>>, n, p, [util |-> "renice", mode |-> m, increment |-> i, args |-> a]) :
     n \in 0..1, p \in BOOLEAN, m \in {"process", "group"}, i \in {-2, 0, 1, 2},
     a \in {<<x, Pid(1)>> : x \in {Pid(self), Pid(1), Pid(2), Pid(7), Bad}}}

Flag(s, v, on) == [kind |-> "flag", setting |-> s, val |-> v, set_val |-> on]
Word(k, s, v) == [kind |-> k, setting |-> s, val |-> v, set_val |-> TRUE]
SttyWords ==
  {Flag("echo", 1, TRUE), Flag("size", 5, TRUE), Flag("size", 8, FALSE), Word("number", "NULL", 1),
   Word("number", "NULL", 0), Word("number", "NULL", 2), Word("speed", "ispeed", 0), Word("cchar", "eof", 0),
   Word("bad", "NULL", 0)}
Stdin == [Pipes EXCEPT ![0] = "tty"]
SttyCommands ==
  {Started(Stdin, <<>>, 1, FALSE, [util |-> "stty", form |-> "operands", args |-> a]) :
     a \in (UpTo(2, SttyWords) \ {<<>>})
          \cup {<<Word("speed", "ispeed", 0), v, w>> : v, w \in SttyWords}}
  \cup {Started(f, <<>>, 1, FALSE,
          [util |-> "stty", form |-> g, valid |-> v, args |-> <<>>, saved |-> [MCSettings EXCEPT !.echo = 1, !.eof = 1]]) :
          f \in {Stdin, Pipes}, g \in {"-a", "-g", "compact"}, v \in BOOLEAN}
MesgCommands ==
  {Started(f, <<>>, 1, FALSE, [util |-> "mesg", opt_yn |-> y]) :
     f \in {Stdin, Pipes, [Pipes EXCEPT ![2] = "tty"]}, y \in {"y", "n", "NULL"}}

MCCommands ==
  <<NohupCommands, NiceCommands, EnvCommands, TimeCommands, KillCommands, ReniceCommands,
    SttyCommands, MesgCommands>>
MCSaved == {"echo", "size", "ispeed", "ospeed", "eof"}
=============================================================================
