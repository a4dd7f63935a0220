-------------------------------- MODULE Controls --------------------------------
(***************************************************************************)
(* kill, renice, stty and mesg: what they do to other processes and to the *)
(* terminal that other utilities act on as well.                           *)
(***************************************************************************)
EXTENDS Processes

CONSTANTS
  platform_siglist,    \* 0 .. n-1 -> name of the signal, or "NULL"
  platform_sigaliases, \* alias, name, alias, name...
  SignalNumber,        \* word that is a number -> the number
  CChars, Saved,       \* control characters; settings that stty -g prints
  Speeds               \* the speeds that have a code

Signals == DOMAIN platform_siglist
ARRAY_SIZE == Cardinality(Signals)
-----------------------------------------------------------------------------
KillStart == [pc |-> "main", i |-> 1, signum |-> 0, retval |-> 0]

valid_signum(signum) == signum >= 0 /\ signum <= ARRAY_SIZE

(* The search for the name an alias stands for goes on where the alias was *)
(* found: at its place in the list of aliases.                             *)
Lookup(name, from) == {i \in Signals : i >= from /\ platform_siglist[i] = name}
Aliases(name) == {j \in DOMAIN platform_sigaliases : j % 2 = 1 /\ platform_sigaliases[j] = name}
signame_to_num(name) ==
  LET j == Min(Aliases(name))
      found == IF Lookup(name, 0) # {} THEN Lookup(name, 0)
               ELSE IF Aliases(name) # {} THEN Lookup(platform_sigaliases[j + 1], j - 1) ELSE {}
  IN IF name \in DOMAIN SignalNumber /\ valid_signum(SignalNumber[name]) THEN SignalNumber[name]
     ELSE IF found # {} THEN Min(found) ELSE -1

(* kill -l n: the entry after the last is no entry *)
check_signal_list ==
  /\ At("kill", "main") /\ cmd.form = "-l"
  /\ \/ ~valid_signum(SignalNumber[cmd.name]) /\ Exit(1)
     \/ valid_signum(SignalNumber[cmd.name]) /\ Exit(0)
     \/ SignalNumber[cmd.name] = ARRAY_SIZE /\ Die("killed")

(* Without a signal pidpos stays -1, and what is before argv is taken for *)
(* an operand: on Linux argc, no address at all.                          *)
check_signal_name ==
  LET signum == signame_to_num(cmd.name)
  IN /\ At("kill", "main") /\ cmd.form \in {"-s", "-name"}
     /\ \/ (signum < 0 \/ cmd.args = <<>>) /\ Exit(1)
        \/ /\ signum >= 0 /\ cmd.args # <<>>
           /\ state' = [state EXCEPT !.pc = "deliver_signals", !.signum = signum]
           /\ UNCHANGED <<status, exit_status>>
NoSignalName == At("kill", "main") /\ cmd.form = "default" /\ Die("killed")

(* kill(2) of 0 is for the process group, kill itself included *)
Receivers(pid) == IF pid = self THEN (live \cup {self}) \cap Group ELSE live \cap {pid}
NextPid(rc) ==
  state' = [state EXCEPT !.i = @ + 1, !.retval = IF rc = 0 THEN @ ELSE 1]
  /\ UNCHANGED <<status, exit_status>>
AtPid == At("kill", "deliver_signals") /\ state.i <= Len(cmd.args)
deliver_signals ==
  LET operand == cmd.args[state.i]
      to == Receivers(operand.pid)
  IN /\ AtPid /\ operand.kind = "pid" /\ operand.pid >= 0 /\ to # {} /\ state.signum \in Signals
     /\ got' = [p \in Pids |-> IF p \in to THEN Append(got[p], state.signum) ELSE got[p]]
     /\ IF self \in to /\ state.signum # 0 THEN Die("killed") ELSE NextPid(0)
     /\ Works
KillRefused ==
  /\ AtPid /\ UNCHANGED got /\ NextPid(1)
  /\ LET operand == cmd.args[state.i]
     IN IF \/ operand.kind # "pid" \/ operand.pid < 0
           \/ Receivers(operand.pid) = {} \/ state.signum \notin Signals
        THEN Works ELSE Fault
KillDone == At("kill", "deliver_signals") /\ state.i > Len(cmd.args) /\ Exit(state.retval)

kill ==
  /\ \/ ((check_signal_list \/ check_signal_name \/ NoSignalName \/ KillDone) /\ Works /\ UNCHANGED got)
     \/ deliver_signals \/ KillRefused
  /\ UNCHANGED <<own, live, nice_value, terminal>>
-----------------------------------------------------------------------------
(***************************************************************************)
(* renice: what is no number is 0, the process itself or its group.  The   *)
(* actor returns 1 in every case, with which walk_entry() can do nothing,  *)
(* so that no operand is followed by another.                              *)
(***************************************************************************)
ReniceStart == [pc |-> "getpriority", old_prio |-> 0]
Val == IF cmd.args[1].kind = "pid" THEN cmd.args[1].pid ELSE self
Who == IF cmd.mode = "process" THEN (live \cup {self}) \cap {Val}
       ELSE IF Val \in Group THEN (live \cup {self}) \cap Group ELSE {}

(* getpriority(2) is the lowest of the processes, -1 if there are none *)
getpriority == IF Who = {} THEN -1 ELSE Min({nice_value[p] : p \in Who})
new_prio == state.old_prio + cmd.increment
get_prio ==
  /\ At("renice", "getpriority") /\ UNCHANGED nice_value
  /\ \/ getpriority < 0 /\ Die("aborted") /\ Works
     \/ getpriority >= 0 /\ Fault /\ Die("aborted")
     \/ getpriority >= 0 /\ cmd.increment = 0 /\ Die("aborted") /\ Works
     \/ getpriority >= 0 /\ cmd.increment # 0 /\ Works
        /\ state' = [pc |-> "setpriority", old_prio |-> getpriority]
        /\ UNCHANGED <<status, exit_status>>
CanRenice == Who # {} /\ \A p \in Who : CanSetNice(nice_value[p], Clamp(new_prio))
set_prioMutant ==  \* mutant: sets the increment, not what it is added to
  /\ At("renice", "setpriority") /\ CanRenice
  /\ nice_value' = [p \in Pids |-> IF p \in Who THEN Clamp(cmd.increment) ELSE nice_value[p]]
  /\ Die("aborted") /\ Works
set_prio ==
  /\ At("renice", "setpriority")
  /\ \/ CanRenice /\ Goto("getpriority 2") /\ Works
        /\ nice_value' = [p \in Pids |-> IF p \in Who THEN Clamp(new_prio) ELSE nice_value[p]]
     \/ UNCHANGED nice_value /\ Die("aborted") /\ (IF CanRenice THEN Fault ELSE Works)
get_prio2 == At("renice", "getpriority 2") /\ Die("aborted") /\ Works /\ UNCHANGED nice_value

renice == (get_prio \/ set_prio \/ get_prio2) /\ UNCHANGED <<own, live, got, terminal>>
-----------------------------------------------------------------------------
(***************************************************************************)
(* stty reads the settings, changes its copy operand by operand, and sets  *)
(* all of them.  tcsetattr(3) succeeds if it can set any of them.          *)
(***************************************************************************)
SttyStart == [pc |-> "tcgetattr", i |-> 1, ti |-> tty, last_param |-> "NULL"]
Terminal == fd[0] = "tty"

stty_get ==
  /\ At("stty", "tcgetattr")
  /\ \/ ~Terminal /\ Exit(1) /\ Works
     \/ Terminal /\ Fault /\ Exit(1)
     \/ Terminal /\ Works
        /\ \/ cmd.form = "-a" /\ Exit(1)
           \/ cmd.form = "-g" /\ Exit(0)
           \/ cmd.form \in {"compact", "operands"}
              /\ state' = [state EXCEPT !.pc = cmd.form, !.ti = tty]
              /\ UNCHANGED <<status, exit_status>>
  /\ seen' = tty /\ UNCHANGED tty

(* What the settings were is printed in part; all control characters are  *)
(* restored, those that were not printed from an uninitialized array.     *)
stty_set_compact ==
  /\ At("stty", "compact") /\ Works /\ UNCHANGED <<tty, seen>>
  /\ \/ ~cmd.valid /\ Exit(1)
     \/ /\ cmd.valid
        /\ \E junk \in [CChars \ Saved -> {0, 1}] :
             state' = [state EXCEPT !.pc = "tcsetattr", !.ti =
               [s \in DOMAIN tty |-> IF s \in Saved THEN cmd.saved[s]
                                     ELSE IF s \in CChars THEN junk[s] ELSE state.ti[s]]]
        /\ UNCHANGED <<status, exit_status>>

AtParam == At("stty", "operands") /\ state.i <= Len(cmd.args)
Param == cmd.args[state.i]
NextParam(ti, last_param) ==
  state' = [state EXCEPT !.i = @ + 1, !.ti = ti, !.last_param = last_param]
  /\ UNCHANGED <<status, exit_status>>
Cleared(setting) == IF setting = "size" THEN 5 ELSE 0
param_apply ==
  /\ AtParam /\ state.last_param = "NULL"
  /\ \/ Param.kind = "flag"
        /\ NextParam([state.ti EXCEPT ![Param.setting] =
                       IF Param.set_val THEN Param.val ELSE Cleared(Param.setting)], "NULL")
     \/ Param.kind \in {"speed", "cchar"} /\ NextParam(state.ti, Param.setting)

(* a number alone is both speeds, after ispeed or ospeed it is that one *)
param_speed ==
  /\ AtParam /\ Param.kind = "number"
  /\ \/ Param.val \notin Speeds /\ Exit(1)
     \/ /\ Param.val \in Speeds /\ state.last_param = "NULL"
        /\ NextParam([state.ti EXCEPT !.ispeed = Param.val, !.ospeed = Param.val], "NULL")
     \/ /\ Param.val \in Speeds /\ state.last_param \in {"ispeed", "ospeed"}
        /\ NextParam([state.ti EXCEPT ![state.last_param] = Param.val], "NULL")
     \/ Param.val \in Speeds /\ state.last_param \in CChars /\ Exit(1)
InvalidParam ==
  /\ AtParam /\ Exit(1)
  /\ Param.kind = "bad" \/ (Param.kind # "number" /\ state.last_param # "NULL")

LastParam == At("stty", "operands") /\ state.i > Len(cmd.args)
stty_params ==
  \/ param_apply \/ param_speed \/ InvalidParam
  \/ LastParam /\ state.last_param = "NULL" /\ Goto("tcsetattr")
  \/ LastParam /\ state.last_param # "NULL" /\ Exit(1)

stty_push_ti ==
  /\ At("stty", "tcsetattr") /\ UNCHANGED seen
  /\ \/ tty' = state.ti /\ Exit(0) /\ Works
     \/ UNCHANGED tty /\ Exit(1) /\ Fault
     \/ \E some \in SUBSET {s \in DOMAIN tty : tty[s] # state.ti[s]} :
          /\ some # {} /\ tty' = [s \in DOMAIN tty |-> IF s \in some THEN state.ti[s] ELSE tty[s]]
          /\ tty' # state.ti /\ Exit(0) /\ Fault

stty ==
  (stty_get \/ stty_set_compact \/ (stty_params /\ Works /\ UNCHANGED <<tty, seen>>) \/ stty_push_ti)
  /\ UNCHANGED <<own, processes>>
-----------------------------------------------------------------------------
(***************************************************************************)
(* mesg: the write permission of the terminal is one bit of its mode.      *)
(***************************************************************************)
MesgStart == [pc |-> "fstat", st_mode |-> [write |-> 0, owner |-> 0]]
st_mode == [write |-> tty.write, owner |-> tty.owner]
Wanted == IF cmd.opt_yn = "y" THEN 1 ELSE 0
Answer(write) == IF write = 1 THEN 0 ELSE 1

mesg_fstat ==
  /\ At("mesg", "fstat") /\ seen' = tty /\ UNCHANGED tty
  /\ \/ \A d \in 0..2 : fd[d] # "tty" /\ Exit(2) /\ Works
     \/ /\ \E d \in 0..2 : fd[d] = "tty"
        /\ \/ Fault /\ Exit(2)
           \/ cmd.opt_yn = "NULL" /\ Exit(Answer(tty.write)) /\ Works
           \/ cmd.opt_yn # "NULL" /\ tty.write = Wanted /\ Exit(Answer(Wanted)) /\ Works
           \/ cmd.opt_yn # "NULL" /\ tty.write # Wanted /\ Works
              /\ state' = [pc |-> "fchmod", st_mode |-> [st_mode EXCEPT !.write = Wanted]]
              /\ UNCHANGED <<status, exit_status>>
mesg_fchmod ==
  /\ At("mesg", "fchmod") /\ UNCHANGED seen
  /\ \/ tty' = [tty EXCEPT !.write = state.st_mode.write, !.owner = state.st_mode.owner]
        /\ Exit(Answer(Wanted)) /\ Works
     \/ UNCHANGED tty /\ Exit(2) /\ Fault
mesg == (mesg_fstat \/ mesg_fchmod) /\ UNCHANGED <<own, processes>>
-----------------------------------------------------------------------------
ControlUtils == {"kill", "renice", "stty", "mesg"}
ControlStart ==
  CASE cmd.util = "kill" -> KillStart
    [] cmd.util = "renice" -> ReniceStart
    [] cmd.util = "stty" -> SttyStart
    [] cmd.util = "mesg" -> MesgStart
ControlStep == (kill \/ renice \/ stty \/ mesg) /\ UNCHANGED <<cmd, others>>

Interferes == others < MaxOthers /\ others' = others + 1
              /\ UNCHANGED <<cmd, state, status, exit_status, own, seen, faults>>
ProcessEnds ==
  /\ status = "running" /\ cmd.util \in {"kill", "renice"}
  /\ \E p \in live : live' = live \ {p}
  /\ UNCHANGED <<nice_value, got, tty>> /\ Interferes
ProcessReniced ==
  /\ Running("renice")
  /\ \E p \in live, n \in PRIO_MIN..PRIO_MAX : nice_value' = [nice_value EXCEPT ![p] = n]
  /\ UNCHANGED <<live, got, tty>> /\ Interferes
TerminalSet ==
  /\ status = "running" /\ cmd.util \in {"stty", "mesg"}
  /\ \E s \in DOMAIN tty : tty' = [tty EXCEPT ![s] = IF s = "size" THEN 13 - @ ELSE 1 - @]
  /\ UNCHANGED processes /\ Interferes
=============================================================================
