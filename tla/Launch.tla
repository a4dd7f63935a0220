--------------------------------- MODULE Launch ---------------------------------
(***************************************************************************)
(* nohup, nice, env and time: what each changes before it starts a         *)
(* command.  The first three become the command, time waits for it.        *)
(***************************************************************************)
EXTENDS Processes

CONSTANTS
  Programs,             \* the commands there are
  Increment,            \* option of nice -> its number
  NICE_MIN, NICE_MAX, NICE_DEF,
  Assignment            \* name=value -> [name, value]

(* The command runs; it inherits all that the process has. *)
Launched(argv) ==
  [argv |-> argv, fd |-> fd, sighup |-> sighup, environ |-> environ,
   nice |-> nice_value[self]]
execvp(argv) ==
  /\ argv[1] \in Programs /\ Works
  /\ launched' = Append(launched, Launched(argv))
execvpFails(argv) == (IF argv[1] \in Programs THEN Fault ELSE Works) /\ UNCHANGED launched

Becomes(argv, failure) ==
  /\ \/ execvp(argv) /\ Goto("command")
     \/ execvpFails(argv) /\ Exit(failure)
  /\ UNCHANGED <<fd, sighup, environ, processes>>

(* a wrong or missing option or operand ends the program: argp_usage() *)
Usage == Exit(64) /\ Works /\ UNCHANGED <<own, processes>>
-----------------------------------------------------------------------------
NOHUP_ERR == 127
NohupStart == [pc |-> "isatty", fd |-> 1, redirect_fd |-> 1]

(* open(2) returns the lowest descriptor that is free *)
LowestFree == Min({d \in DOMAIN fd : fd[d] = "closed"})
Opened == fd' = [fd EXCEPT ![LowestFree] = "nohup.out"]
           /\ state' = [state EXCEPT !.pc = "dup2", !.fd = LowestFree]
           /\ Works /\ UNCHANGED <<status, exit_status>>

(* redirect_stdout(): nohup.out in the working directory, or else at home *)
NoArguments ==
  /\ At("nohup", "isatty") /\ cmd.words = <<>> /\ Exit(NOHUP_ERR) /\ Works
  /\ UNCHANGED fd
isatty ==
  /\ At("nohup", "isatty") /\ cmd.words # <<>>
  /\ \/ fd[1] = "tty" /\ Opened
     \/ fd[1] = "tty" /\ Fault /\ UNCHANGED fd
        /\ IF cmd.home THEN Goto("home") ELSE Exit(NOHUP_ERR)
     \/ fd[1] # "tty" /\ Goto("redirect_stderr") /\ Works /\ UNCHANGED fd
OpenAtHome ==
  /\ At("nohup", "home")
  /\ Opened \/ (Fault /\ Exit(NOHUP_ERR) /\ UNCHANGED fd)
RedirectStdout ==
  /\ At("nohup", "dup2")
  /\ \/ fd' = [fd EXCEPT ![1] = fd[state.fd]]
        /\ state' = [state EXCEPT !.pc = "redirect_stderr", !.redirect_fd = state.fd]
        /\ Works /\ UNCHANGED <<status, exit_status>>
     \/ Fault /\ Exit(NOHUP_ERR) /\ UNCHANGED fd

(* dup2(2) of a descriptor that is closed fails *)
RedirectStderr ==
  LET from == fd[state.redirect_fd]
  IN /\ At("nohup", "redirect_stderr")
     /\ \/ fd[2] # "tty" /\ Goto("signal") /\ Works /\ UNCHANGED fd
        \/ fd[2] = "tty" /\ from # "closed" /\ fd' = [fd EXCEPT ![2] = from]
           /\ Goto("signal") /\ Works
        \/ fd[2] = "tty" /\ (IF from = "closed" THEN Works ELSE Fault)
           /\ Exit(NOHUP_ERR) /\ UNCHANGED fd

Redirections ==
  (NoArguments \/ isatty \/ OpenAtHome \/ RedirectStdout \/ RedirectStderr)
  /\ UNCHANGED <<sighup, environ, launched, processes>>

signal ==
  /\ At("nohup", "signal") /\ sighup' = "ignored" /\ Goto("exec") /\ Works
  /\ UNCHANGED <<fd, environ, launched, processes>>
nohup == Redirections \/ signal \/ (At("nohup", "exec") /\ Becomes(cmd.words, NOHUP_ERR))
-----------------------------------------------------------------------------
NiceStart == [pc |-> "parse_opt", nice_inc |-> NICE_DEF]

(* The last -n counts.  nice(2) returns the new value, and nice takes any *)
(* that is negative for a failure.                                        *)
NiceUsage ==
  \/ \E o \in Range(GivenOptions(cmd.words)) :
       o \notin DOMAIN Increment \/ Increment[o] \notin NICE_MIN..NICE_MAX
  \/ Operands(cmd.words) = <<>>
NiceOptions ==
  LET given == GivenOptions(cmd.words)
  IN /\ At("nice", "parse_opt")
     /\ \/ NiceUsage /\ Usage
        \/ /\ ~NiceUsage
           /\ state' = [pc |-> "nice",
                        nice_inc |-> IF given = <<>> THEN NICE_DEF ELSE Increment[Last(given)]]
           /\ Works /\ UNCHANGED <<status, exit_status, own, processes>>
SetNice ==
  LET new == Clamp(nice_value[self] + state.nice_inc)
  IN /\ At("nice", "nice")
     /\ \/ /\ CanSetNice(nice_value[self], new) /\ nice_value' = [nice_value EXCEPT ![self] = new]
           /\ IF new < 0 THEN Exit(1) ELSE Goto("exec")
        \/ /\ ~CanSetNice(nice_value[self], new)
           /\ Exit(1) /\ UNCHANGED nice_value
     /\ Works /\ UNCHANGED <<own, live, got>>
nice ==
  NiceOptions \/ SetNice \/ (At("nice", "exec") /\ Becomes(Operands(cmd.words), 1))
-----------------------------------------------------------------------------
EnvStart == [pc |-> "do_env"]

(* operands are assignments up to the first that is none *)
Assignments(words) ==
  Min({Len(words) + 1} \cup {i \in DOMAIN words : words[i] \notin DOMAIN Assignment}) - 1
arg_listMutant ==  \* mutant: an assignment is one wherever it stands
  Chosen(Operands(cmd.words), Range(cmd.words) \ DOMAIN Assignment)
arg_list == LET words == Operands(cmd.words)
            IN SubSeq(words, Assignments(words) + 1, Len(words))
env_list == LET words == Operands(cmd.words)
            IN [i \in 1..Assignments(words) |-> Assignment[words[i]]]
opt_no_inherit == GivenOptions(cmd.words) # <<>>

EnvUsage ==
  \/ Range(GivenOptions(cmd.words)) \notin {{}, {"-i"}}
  \/ opt_no_inherit /\ env_list = <<>>
  \/ arg_list = <<>>

env_listed(e) == e.value # "" /\ \E i \in DOMAIN env_list : env_list[i].name = e.name
do_env ==
  LET inherited == IF opt_no_inherit THEN <<>> ELSE Chosen(environ, {e \in Range(environ) : ~env_listed(e)})
  IN /\ At("env", "do_env")
     /\ \/ EnvUsage /\ Usage
        \/ /\ ~EnvUsage /\ environ' = env_list \o inherited
           /\ Goto("exec") /\ Works
           /\ UNCHANGED <<fd, sighup, launched, processes>>
env == do_env \/ (At("env", "exec") /\ Becomes(arg_list, 127))
-----------------------------------------------------------------------------
(* the child: "none", "forked", "command", then "exited" or "killed" *)
TimeStart == [pc |-> "main", child |-> "none", child_status |-> 0]
Child(how, rc) ==
  state' = [state EXCEPT !.child = how, !.child_status = rc] /\ UNCHANGED <<status, exit_status>>

(* have_p only when there is nothing else: -p is no option before a command *)
have_p == cmd.words = <<"-p">>
fork ==
  /\ At("time", "main")
  /\ \/ (cmd.words = <<>> \/ have_p) /\ Exit(1) /\ Works
     \/ cmd.words # <<>> /\ ~have_p /\ Fault /\ Exit(1)
     \/ cmd.words # <<>> /\ ~have_p /\ Works
        /\ state' = [pc |-> "do_wait", child |-> "forked", child_status |-> 0]
        /\ UNCHANGED <<status, exit_status>>
  /\ UNCHANGED <<own, processes>>
do_child ==
  /\ At("time", "do_wait") /\ state.child = "forked"
  /\ \/ execvp(cmd.words) /\ Child("command", 0)
     \/ execvpFails(cmd.words) /\ Child("exited", 126)
  /\ UNCHANGED <<fd, sighup, environ, processes>>

WEXITSTATUS == IF state.child = "exited" THEN state.child_status ELSE 0
do_waitMutant ==  \* mutant: does not wait for the end
  /\ At("time", "do_wait") /\ state.child \in {"command", "exited", "killed"}
  /\ Exit(WEXITSTATUS) /\ Works /\ UNCHANGED <<own, processes>>
do_wait ==
  /\ At("time", "do_wait") /\ state.child \in {"exited", "killed"}
  /\ (Exit(WEXITSTATUS) /\ Works) \/ (Exit(1) /\ Fault)
  /\ UNCHANGED <<own, processes>>

time == fork \/ do_child \/ do_wait
-----------------------------------------------------------------------------
LaunchUtils == {"nohup", "nice", "env", "time"}
LaunchStart ==
  CASE cmd.util = "nohup" -> NohupStart
    [] cmd.util = "nice" -> NiceStart
    [] cmd.util = "env" -> EnvStart
    [] cmd.util = "time" -> TimeStart
LaunchStep == (nohup \/ nice \/ env \/ time) /\ UNCHANGED <<cmd, terminal, others>>

(* the command ends, of itself or by a signal *)
CommandEnds ==
  /\ status = "running" /\ cmd.util \in LaunchUtils
  /\ IF cmd.util = "time"
     THEN state.child = "command" /\ \E rc \in {0, 1, 126} : Child("exited", rc)
     ELSE state.pc = "command" /\ \E rc \in {0, 1, 126} : Exit(rc)
  /\ UNCHANGED <<cmd, own, processes, terminal, others, faults>>
CommandKilled ==
  /\ others < MaxOthers /\ others' = others + 1
  /\ Running("time") /\ state.child \in {"forked", "command"} /\ Child("killed", 0)
  /\ UNCHANGED <<cmd, own, processes, terminal, faults>>

(* the terminal hangs up: who does not ignore it, dies *)
Hangup ==
  /\ others < MaxOthers /\ others' = others + 1
  /\ status = "running" /\ cmd.util \in LaunchUtils /\ sighup = "default" /\ Die("killed")
  /\ UNCHANGED <<cmd, own, processes, terminal, faults>>
=============================================================================
