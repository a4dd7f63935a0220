-------------------------------- MODULE Session --------------------------------
(***************************************************************************)
(* One of the utilities of Launch or Controls at work, among others that   *)
(* end processes, hang up the terminal or change its settings.             *)
(***************************************************************************)
EXTENDS Launch, Controls

CONSTANTS
  Commands,   \* sets of commands: utility, words, and what it is started with
  Settings    \* of the terminal, as they are at first

ASSUME SessionAssumption ==
  /\ {MaxOthers, MaxFaults} \subseteq Nat
  /\ {PRIO_MIN, PRIO_MAX, NICE_MIN, NICE_MAX, NICE_DEF} \subseteq Int
  /\ PRIO_MIN < 0 /\ 0 < PRIO_MAX /\ NICE_DEF \in NICE_MIN..NICE_MAX
  /\ DOMAIN platform_siglist = 0..(Cardinality(DOMAIN platform_siglist) - 1)
  /\ Cardinality(DOMAIN platform_siglist) \in Nat
  /\ "--" \notin Options
  /\ \A a \in DOMAIN Assignment : Assignment[a] \in [name : STRING, value : STRING]

(* A number is no name of a signal, and the name an alias stands for comes *)
(* no earlier in the list of signals than the alias in that of the aliases. *)
ASSUME SignalsAssumption ==
  /\ \A n \in DOMAIN SignalNumber :
       /\ SignalNumber[n] \in Int
       /\ \A i \in DOMAIN platform_siglist : platform_siglist[i] # n
       /\ \A j \in DOMAIN platform_sigaliases : platform_sigaliases[j] # n
  /\ platform_sigaliases \in Seq(STRING)
  /\ \A j \in DOMAIN platform_sigaliases : j % 2 = 1 =>
       \E i \in DOMAIN platform_siglist :
         i >= j - 1 /\ platform_siglist[i] = platform_sigaliases[j + 1]

ASSUME SettingsAssumption ==
  /\ {"write", "owner", "ispeed", "ospeed"} \cup CChars \cup Saved \subseteq DOMAIN Settings
  /\ "NULL" \notin DOMAIN Settings /\ Settings.write \in {0, 1}

(* a word of stty: its kind, the setting it is about, and how it sets it *)
SttyWord(p) ==
  /\ p.kind \in {"flag", "number", "speed", "cchar", "bad"}
  /\ p.kind = "flag" => p.setting \in DOMAIN Settings
  /\ p.kind = "speed" => p.setting \in {"ispeed", "ospeed"}
  /\ p.kind = "cchar" => p.setting \in CChars

(* The words and the environment of a command are strings; nohup has its   *)
(* three standard descriptors, open or closed, and one that is free.       *)
ASSUME CommandsAssumption ==
  \A u \in DOMAIN Commands : \A c \in Commands[u] :
    /\ c.util \in LaunchUtils \cup ControlUtils
    /\ c.util \in LaunchUtils =>
         c.words \in Seq(STRING) /\ c.environ \in Seq([name : STRING, value : STRING])
    /\ c.util = "nohup" =>
         /\ {0, 1, 2} \subseteq DOMAIN c.fd /\ DOMAIN c.fd \subseteq Nat
         /\ \E d \in DOMAIN c.fd : c.fd[d] = "closed"
    /\ c.util = "kill" => c.args \in Seq([kind : {"pid", "bad"}, pid : Int])
    /\ c.util = "renice" => c.mode \in {"process", "group"}
    /\ c.util = "stty" =>
         /\ DOMAIN c.args = 1..Len(c.args) /\ Len(c.args) \in Nat
         /\ \A i \in DOMAIN c.args : SttyWord(c.args[i])

Init ==
  /\ \E u \in DOMAIN Commands : cmd \in Commands[u]
  /\ fd = cmd.fd /\ sighup = "default" /\ environ = cmd.environ /\ launched = <<>>
  /\ live = {1, 2} /\ nice_value \in [Pids -> {cmd.nice, 1}] /\ nice_value[self] = cmd.nice
  /\ got = [p \in Pids |-> <<>>]
  /\ tty = Settings /\ seen = Settings
  /\ state = (IF cmd.util \in LaunchUtils THEN LaunchStart ELSE ControlStart)
  /\ status = "running" /\ exit_status = 0 /\ others = 0 /\ faults = 0

Program == LaunchStep \/ ControlStep
Command == CommandEnds
Other ==
  \/ CommandKilled \/ Hangup
  \/ ProcessEnds \/ ProcessReniced \/ TerminalSet
Done == status # "running" /\ UNCHANGED vars
Next == Program \/ Command \/ Other \/ Done
Spec == Init /\ [][Next]_vars
-----------------------------------------------------------------------------
(***************************************************************************)
(* What is asked of nohup, nice, env and time.                             *)
(***************************************************************************)
(* options end where the first other word is; what follows is the command's *)
FirstOperand == Min({Len(cmd.words) + 1} \cup {i \in DOMAIN cmd.words : cmd.words[i] \notin Options})
OwnWords ==
  LET rest(i) == SubSeq(cmd.words, i, Len(cmd.words))
      n == FirstOperand
  IN IF n <= Len(cmd.words) /\ cmd.words[n] = "--" THEN rest(n + 1) ELSE rest(n)
AssignedWords ==
  IF \A i \in DOMAIN OwnWords : OwnWords[i] \in DOMAIN Assignment THEN Len(OwnWords)
  ELSE Min({i \in DOMAIN OwnWords : OwnWords[i] \notin DOMAIN Assignment}) - 1
CommandAsked ==
  IF cmd.util = "env" THEN SubSeq(OwnWords, AssignedWords + 1, Len(OwnWords))
  ELSE IF cmd.util = "nice" THEN OwnWords ELSE cmd.words

(* nice and env take options for theirs that belong to the command *)
Permuted ==
  LET words == OwnWords
  IN /\ cmd.util \in {"nice", "env"}
     /\ FirstOperand > Len(cmd.words) \/ cmd.words[FirstOperand] # "--"
     /\ \E i \in DOMAIN words : words[i] \in Options \cup {"--"}

Value(e, n) ==
  LET at == {i \in DOMAIN e : e[i].name = n} IN IF at = {} THEN "none" ELSE e[Min(at)].value
Names == {cmd.environ[i].name : i \in DOMAIN cmd.environ}
         \cup {Assignment[w].name : w \in DOMAIN Assignment}
EnvironmentAsked(n) ==
  LET assigned == [i \in 1..AssignedWords |-> Assignment[OwnWords[i]]]
  IN IF cmd.util # "env" THEN Value(cmd.environ, n)
     ELSE IF (\E i \in DOMAIN assigned : assigned[i].name = n) \/ (FirstOperand > 1 /\ cmd.words[1] = "-i")
          THEN Value(assigned, n) ELSE Value(cmd.environ, n)

NiceAsked ==
  IF cmd.util # "nice" THEN cmd.nice
  ELSE Clamp(cmd.nice + (IF FirstOperand = 1 THEN NICE_DEF ELSE Increment[cmd.words[FirstOperand - 1]]))

(* Output to a terminal goes to nohup.out; a descriptor that was closed may *)
(* be what nohup.out was opened as.                                         *)
OutputAsked(d) ==
  CASE cmd.util = "nohup" /\ d = 1 /\ cmd.fd[1] = "tty" -> "nohup.out"
    [] cmd.util = "nohup" /\ d = 2 /\ cmd.fd[2] = "tty" -> (IF cmd.fd[1] = "tty" THEN "nohup.out" ELSE cmd.fd[1])
    [] OTHER -> cmd.fd[d]

(***************************************************************************)
(* A command is started at most once, and with the arguments, environment, *)
(* nice value, descriptors and disposition of SIGHUP that were asked for,  *)
(* unless words of the command were taken for options (main of nohup and   *)
(* nice, do_env, do_child).                                                *)
(***************************************************************************)
LaunchedAsAsked ==
  /\ Len(launched) <= 1
  /\ ~Permuted => \A i \in DOMAIN launched :
       LET l == launched[i]
       IN /\ l.argv = CommandAsked
          /\ \A n \in Names : Value(l.environ, n) = EnvironmentAsked(n)
          /\ l.nice = NiceAsked
          /\ l.sighup = IF cmd.util = "nohup" THEN "ignored" ELSE "default"
          /\ \A d \in DOMAIN fd :
               l.fd[d] = OutputAsked(d) \/ (cmd.fd[d] = "closed" /\ l.fd[d] = "nohup.out")
-----------------------------------------------------------------------------
(***************************************************************************)
(* What is asked of kill, stty and mesg.                                   *)
(***************************************************************************)
SignalAsked(name) ==
  LET number(n) == {i \in DOMAIN platform_siglist : platform_siglist[i] = n}
      aliases == {j \in DOMAIN platform_sigaliases : j % 2 = 1 /\ platform_sigaliases[j] = name}
  IN IF name \in DOMAIN SignalNumber THEN {SignalNumber[name]}
     ELSE number(name) \cup UNION {number(platform_sigaliases[j + 1]) : j \in aliases}
TimesNamed(p) ==
  Cardinality({i \in DOMAIN cmd.args :
    cmd.args[i].kind = "pid" /\ (cmd.args[i].pid = p \/ (cmd.args[i].pid = self /\ p \in Group))})

(* a number after ispeed or ospeed is for that speed, any other for both *)
Consumed(i) == i > 1 /\ cmd.args[i - 1].kind \in {"speed", "cchar"}
Concerns(i) ==
  LET p == cmd.args[i]
  IN IF p.kind = "flag" THEN {p.setting} ELSE IF p.kind # "number" THEN {}
     ELSE IF Consumed(i) THEN {cmd.args[i - 1].setting} ELSE {"ispeed", "ospeed"}
NamedSettings ==
  IF cmd.util = "mesg" THEN {"write"}
  ELSE IF cmd.form = "compact" THEN CChars \cup Saved
  ELSE UNION {Concerns(i) : i \in DOMAIN cmd.args}
SettingAsked(s) ==
  LET p == cmd.args[Max({i \in DOMAIN cmd.args : s \in Concerns(i)})]
  IN IF p.kind = "number" \/ p.set_val THEN p.val ELSE IF s = "size" THEN 5 ELSE 0
AllSet == \A s \in NamedSettings :
  tty[s] = IF cmd.form = "operands" THEN SettingAsked(s)
           ELSE IF s \in Saved THEN cmd.saved[s] ELSE tty[s]

(***************************************************************************)
(* The exit status tells.  A utility that starts a command ends with 0     *)
(* only after it, and time with what the command ended with, or 0 if a     *)
(* signal ended it (do_wait).  kill: every operand that names a process    *)
(* has had its signal, refused ones keep no other from it, and 0 says that *)
(* none was refused (deliver_signals).  stty, if the terminal could be set *)
(* completely: every setting named is as asked (stty_push_ti).  mesg: 0    *)
(* and 1 say whether messages are allowed.                                 *)
(***************************************************************************)
LaunchStatus ==
  /\ launched = <<>> => exit_status # 0 \/ (cmd.util = "time" /\ state.child = "killed")
  /\ cmd.util = "time" /\ state.child # "none" =>
       /\ state.child \in {"exited", "killed"}
       /\ faults = 0 => exit_status = IF state.child = "killed" THEN 0 ELSE state.child_status
KillStatus ==
  cmd.form \in {"-s", "-name"} =>
    LET asked == SignalAsked(cmd.name)
        sent(p) == Len(got[p])
        signals == DOMAIN platform_siglist
        refused(i) == cmd.args[i].kind # "pid" \/ cmd.args[i].pid \notin Pids
    IN /\ asked \cap signals # {} =>
            \A p \in live : sent(p) \in (TimesNamed(p) - faults)..TimesNamed(p)
       /\ exit_status = 0 => /\ asked \cap signals # {} /\ faults = 0
                             /\ \A i \in DOMAIN cmd.args : ~refused(i)
SttyStatus ==
  /\ exit_status = 0 /\ cmd.form \in {"operands", "compact"} /\ faults = 0 => AllSet
  /\ exit_status = 0 => fd[0] = "tty"
MesgStatus ==
  /\ exit_status \in {0, 1} => exit_status = 1 - tty.write
  /\ exit_status = 2 => faults > 0 \/ \A d \in 0..2 : fd[d] # "tty"

StatusTells ==
  /\ status = "exited" =>
       CASE cmd.util \in LaunchUtils -> LaunchStatus
         [] cmd.util = "kill" -> KillStatus
         [] cmd.util = "stty" -> SttyStatus
         [] cmd.util = "mesg" -> MesgStatus
         [] cmd.util = "renice" -> FALSE
  /\ status = "killed" =>
       \/ cmd.util \in LaunchUtils /\ others > 0 /\ (cmd.util = "nohup" => launched = <<>>)
       \/ cmd.util = "kill" /\ (cmd.form \in {"default", "-l"} \/ got[self] # <<>>)

(***************************************************************************)
(* Whatever others change meanwhile, a utility acts on nothing but what it *)
(* was asked to: a signal goes to the processes named and is the one       *)
(* asked for; a nice value is that of a process of the first operand and   *)
(* changes by the increment; of the terminal, the settings named change,   *)
(* all in the step that ends stty well, or fchmod of mesg.  What another   *)
(* has changed since it was read is an exception, as is a group whose nice *)
(* values differ (deliver_signals, renice_actor, stty_push_ti, main).      *)
(***************************************************************************)
Stale(p) == nice_value[p] # state.old_prio
ActsAsAsked ==
  [][others' = others =>
       /\ \A p \in Pids : got'[p] # got[p] =>
            cmd.util = "kill" /\ TimesNamed(p) > 0 /\ Last(got'[p]) \in SignalAsked(cmd.name)
       /\ \A p \in Pids : nice_value'[p] # nice_value[p] =>
            \/ cmd.util = "nice" /\ p = self
            \/ /\ cmd.util = "renice"
               /\ p = Val \/ (cmd.mode = "group" /\ p \in Group)
               /\ nice_value'[p] = Clamp(nice_value[p] + cmd.increment) \/ Stale(p)
       /\ tty' # tty =>
            /\ status' = "exited" /\ exit_status' = (IF cmd.util = "mesg" THEN 1 - tty'.write ELSE 0)
            /\ \A s \in DOMAIN tty :
                 tty'[s] # tty[s] => s \in NamedSettings \/ tty'[s] = seen[s]]_vars
=============================================================================
