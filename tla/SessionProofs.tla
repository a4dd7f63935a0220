----------------------------- MODULE SessionProofs -----------------------------
(***************************************************************************)
(* Session: a utility acts on nothing but what it was asked to, starts     *)
(* nothing but the command it was asked to, and its exit status tells,     *)
(* for all commands, settings, signals and nice values.                    *)
(***************************************************************************)
EXTENDS Session, FiniteSetTheorems, WellFoundedInduction, TLAPS

TypeInv ==
  /\ \E u \in DOMAIN Commands : cmd \in Commands[u]
  /\ faults \in Nat /\ others \in Nat
  /\ live \subseteq Pids /\ self \notin live
  /\ DOMAIN nice_value = Pids
  /\ got \in [Pids -> Seq(Int)]

-----------------------------------------------------------------------------
(***************************************************************************)
(* Least and greatest elements.                                            *)
(***************************************************************************)
LEMMA MinOfNats ==
  ASSUME NEW S \in SUBSET Nat, S # {}
  PROVE  Min(S) \in S /\ \A y \in S : Min(S) <= y
<1> DEFINE R == OpToRel(<, Nat)
<1>1. PICK x \in S : \A y \in S : <<y, x>> \notin R
  <2>1. IsWellFoundedOn(R, Nat)
    BY NatLessThanWellFounded
  <2> QED BY <2>1, WFMin, Zenon
<1>2. ASSUME NEW y \in S PROVE x <= y
  <2>1. <<y, x>> \notin R
    BY <1>1
  <2>2. ~(y < x)
    BY <2>1 DEF OpToRel
  <2> QED BY <2>2
<1> QED BY <1>1, <1>2 DEF Min

LEMMA MaxUpTo ==
  ASSUME NEW n \in Nat, NEW S \in SUBSET (1..n), S # {}
  PROVE  Max(S) \in S /\ \A y \in S : Max(S) >= y
<1> DEFINE T == {n - x : x \in S}
<1>1. T \in SUBSET Nat /\ T # {}
  <2>1. ASSUME NEW x \in S PROVE n - x \in Nat
    <3>1. x \in 1..n
      OBVIOUS
    <3> QED BY <3>1
  <2> QED BY <2>1
<1>2. Min(T) \in T /\ \A y \in T : Min(T) <= y
  BY <1>1, MinOfNats
<1>3. PICK x \in S : Min(T) = n - x
  BY <1>2
<1>4. \A y \in S : n - y \in T
  OBVIOUS
<1>5. ASSUME NEW y \in S PROVE x >= y
  <2>1. n - x <= n - y
    BY <1>2, <1>3, <1>4
  <2>2. x \in 1..n /\ y \in 1..n
    OBVIOUS
  <2> QED BY <2>1, <2>2
<1> QED BY <1>5 DEF Max

(***************************************************************************)
(* A name, an alias or a number: the signal that is found is one that was  *)
(* asked for, and one that was asked for is found.                         *)
(***************************************************************************)
LEMMA SignalsAreNats == Signals = 0..(ARRAY_SIZE - 1) /\ ARRAY_SIZE \in Nat
BY SessionAssumption DEF Signals, ARRAY_SIZE

LEMMA FoundByName ==
  ASSUME NEW n, NEW from, Lookup(n, from) # {}
  PROVE  Min(Lookup(n, from)) \in Signals /\ platform_siglist[Min(Lookup(n, from))] = n
<1>1. Lookup(n, from) \in SUBSET Nat
  BY SignalsAreNats DEF Lookup
<1>2. Min(Lookup(n, from)) \in Lookup(n, from)
  BY <1>1, MinOfNats
<1> QED BY <1>2 DEF Lookup

LEMMA FirstAlias ==
  ASSUME NEW n, Aliases(n) # {}
  PROVE  LET j == Min(Aliases(n))
         IN /\ j \in DOMAIN platform_sigaliases /\ j % 2 = 1 /\ platform_sigaliases[j] = n
            /\ Lookup(platform_sigaliases[j + 1], j - 1) # {}
<1> DEFINE j == Min(Aliases(n))
<1>1. Aliases(n) \in SUBSET Nat
  <2>1. platform_sigaliases \in Seq(STRING)
    BY SignalsAssumption
  <2>2. DOMAIN platform_sigaliases \subseteq Nat
    BY <2>1
  <2> QED BY <2>2 DEF Aliases
<1>2. j \in Aliases(n)
  BY <1>1, MinOfNats
<1>3. j \in DOMAIN platform_sigaliases /\ j % 2 = 1 /\ platform_sigaliases[j] = n
  BY <1>2 DEF Aliases
<1>4. \E i \in DOMAIN platform_siglist : i >= j - 1 /\ platform_siglist[i] = platform_sigaliases[j + 1]
  BY <1>3, SignalsAssumption
<1>5. Lookup(platform_sigaliases[j + 1], j - 1) # {}
  BY <1>4 DEF Lookup, Signals
<1> QED BY <1>3, <1>5

LEMMA NumbersAreNoNames ==
  ASSUME NEW n \in DOMAIN SignalNumber
  PROVE  Lookup(n, 0) = {} /\ Aliases(n) = {} /\ SignalNumber[n] \in Int
BY SignalsAssumption DEF Lookup, Aliases, Signals

LEMMA SignalOfName ==
  ASSUME NEW n, n \notin DOMAIN SignalNumber
  PROVE  /\ signame_to_num(n) \in Int
         /\ signame_to_num(n) >= 0 => signame_to_num(n) \in SignalAsked(n)
         /\ SignalAsked(n) \cap Signals # {} => signame_to_num(n) \in Signals
<1> DEFINE j == Min(Aliases(n))
           number(m) == {i \in DOMAIN platform_siglist : platform_siglist[i] = m}
           aliases == {k \in DOMAIN platform_sigaliases : k % 2 = 1 /\ platform_sigaliases[k] = n}
<1>1. SignalAsked(n) = number(n) \cup UNION {number(platform_sigaliases[k + 1]) : k \in aliases}
  BY DEF SignalAsked
<1>2. CASE Lookup(n, 0) # {}
  <2>1. signame_to_num(n) = Min(Lookup(n, 0))
    BY <1>2 DEF signame_to_num
  <2>2. Min(Lookup(n, 0)) \in number(n) /\ Min(Lookup(n, 0)) \in Signals
    BY <1>2, FoundByName DEF Signals
  <2> QED BY <1>1, <2>1, <2>2, SignalsAreNats
<1>3. CASE Lookup(n, 0) = {} /\ Aliases(n) # {}
  <2>1. /\ j \in aliases
        /\ Lookup(platform_sigaliases[j + 1], j - 1) # {}
    BY <1>3, FirstAlias
  <2> DEFINE found == Lookup(platform_sigaliases[j + 1], j - 1)
  <2>2. signame_to_num(n) = Min(found)
    BY <1>3, <2>1 DEF signame_to_num
  <2>3. Min(found) \in number(platform_sigaliases[j + 1]) /\ Min(found) \in Signals
    BY <2>1, FoundByName DEF Signals
  <2> QED BY <1>1, <2>1, <2>2, <2>3, SignalsAreNats
<1>4. CASE Lookup(n, 0) = {} /\ Aliases(n) = {}
  <2>1. signame_to_num(n) = -1
    BY <1>4 DEF signame_to_num
  <2>2. aliases = {}
    BY <1>4 DEF Aliases
  <2>3. number(n) = {}
    BY <1>4, SignalsAreNats DEF Lookup, Signals
  <2>4. SignalAsked(n) = {}
    BY <1>1, <2>2, <2>3
  <2> QED BY <2>1, <2>4
<1> QED BY <1>2, <1>3, <1>4

LEMMA SignalOfNumber ==
  ASSUME NEW n \in DOMAIN SignalNumber
  PROVE  /\ signame_to_num(n) \in Int
         /\ signame_to_num(n) >= 0 => signame_to_num(n) \in SignalAsked(n)
         /\ SignalAsked(n) \cap Signals # {} => signame_to_num(n) \in Signals
<1>1. SignalAsked(n) = {SignalNumber[n]} /\ SignalNumber[n] \in Int
  BY NumbersAreNoNames DEF SignalAsked
<1>2. CASE valid_signum(SignalNumber[n])
  BY <1>1, <1>2 DEF signame_to_num
<1>3. CASE ~valid_signum(SignalNumber[n])
  <2>1. signame_to_num(n) = -1
    BY <1>3, NumbersAreNoNames DEF signame_to_num
  <2>2. SignalNumber[n] \notin Signals
    BY <1>1, <1>3, SignalsAreNats DEF valid_signum
  <2> QED BY <1>1, <2>1, <2>2
<1> QED BY <1>2, <1>3

(* A signal is found for a name if and only if one was asked for. *)
LEMMA SignalFound ==
  ASSUME NEW n
  PROVE  /\ signame_to_num(n) \in Int
         /\ signame_to_num(n) >= 0 => signame_to_num(n) \in SignalAsked(n)
         /\ SignalAsked(n) \cap Signals # {} => signame_to_num(n) \in Signals
BY SignalOfName, SignalOfNumber

-----------------------------------------------------------------------------
(***************************************************************************)
(* What the steps leave alone.                                             *)
(***************************************************************************)
FaultsGrow == faults' \in Nat /\ faults' >= faults

LEMMA CallsCount == TypeInv /\ (Works \/ Fault) => FaultsGrow
BY DEF TypeInv, Works, Fault, FaultsGrow

LEMMA BecomesFrame ==
  ASSUME TypeInv, NEW argv, NEW failure, Becomes(argv, failure)
  PROVE  FaultsGrow /\ UNCHANGED <<fd, sighup, environ, processes>>
<1>1. Works \/ Fault
  BY DEF Becomes, execvp, execvpFails
<1> QED BY <1>1, CallsCount DEF Becomes

LEMMA NohupFrame ==
  ASSUME TypeInv, nohup PROVE FaultsGrow /\ UNCHANGED processes
<1>1. CASE Redirections
  <2>1. UNCHANGED processes
    BY <1>1 DEF Redirections
  <2>2. Works \/ Fault
    BY <1>1 DEF Redirections, NoArguments, isatty, OpenAtHome, RedirectStdout, RedirectStderr, Opened
  <2> QED BY <2>1, <2>2, CallsCount
<1>2. CASE signal
  BY <1>2, CallsCount DEF signal
<1>3. CASE At("nohup", "exec") /\ Becomes(cmd.words, NOHUP_ERR)
  BY <1>3, BecomesFrame
<1> QED BY <1>1, <1>2, <1>3 DEF nohup

LEMMA NiceFrame ==
  ASSUME TypeInv, nice
  PROVE  /\ FaultsGrow /\ cmd.util = "nice" /\ UNCHANGED <<live, got>>
         /\ DOMAIN nice_value' = Pids
         /\ \A p \in Pids : nice_value'[p] # nice_value[p] => p = self
<1>1. CASE NiceOptions
  <2>1. UNCHANGED processes /\ Works /\ cmd.util = "nice"
    BY <1>1 DEF NiceOptions, Usage, At, Running
  <2> QED BY <2>1, CallsCount DEF processes, TypeInv
<1>2. CASE SetNice
  <2>1. Works /\ UNCHANGED <<live, got>> /\ cmd.util = "nice"
    BY <1>2 DEF SetNice, At, Running
  <2>2. \/ UNCHANGED nice_value
        \/ nice_value' = [nice_value EXCEPT ![self] = Clamp(nice_value[self] + state.nice_inc)]
    BY <1>2 DEF SetNice
  <2>3. DOMAIN nice_value' = Pids
    BY <2>2 DEF TypeInv
  <2>4. \A p \in Pids : nice_value'[p] # nice_value[p] => p = self
    BY <2>2 DEF TypeInv
  <2> QED BY <2>1, <2>3, <2>4, CallsCount
<1>3. CASE At("nice", "exec") /\ Becomes(Operands(cmd.words), 1)
  <2>1. cmd.util = "nice"
    BY <1>3 DEF At, Running
  <2> QED BY <1>3, <2>1, BecomesFrame DEF processes, TypeInv
<1> QED BY <1>1, <1>2, <1>3 DEF nice

LEMMA EnvFrame ==
  ASSUME TypeInv, env PROVE FaultsGrow /\ UNCHANGED processes
<1>1. CASE do_env
  BY <1>1, CallsCount DEF do_env, Usage
<1>2. CASE At("env", "exec") /\ Becomes(arg_list, 127)
  BY <1>2, BecomesFrame
<1> QED BY <1>1, <1>2 DEF env

LEMMA TimeFrame ==
  ASSUME TypeInv, time PROVE FaultsGrow /\ UNCHANGED processes
<1>1. CASE fork
  BY <1>1, CallsCount DEF fork
<1>2. CASE do_child
  BY <1>2, CallsCount DEF do_child, execvp, execvpFails
<1>3. CASE do_wait
  BY <1>3, CallsCount DEF do_wait
<1> QED BY <1>1, <1>2, <1>3 DEF time

LEMMA LaunchFrame ==
  ASSUME TypeInv, LaunchStep
  PROVE  /\ FaultsGrow /\ UNCHANGED <<cmd, others, tty, seen, live, got>>
         /\ DOMAIN nice_value' = Pids
         /\ \A p \in Pids : nice_value'[p] # nice_value[p] => cmd.util = "nice" /\ p = self
<1>1. UNCHANGED <<cmd, others, tty, seen>>
  BY DEF LaunchStep, terminal
<1>2. CASE nohup
  BY <1>1, <1>2, NohupFrame DEF processes, TypeInv
<1>3. CASE nice
  BY <1>1, <1>3, NiceFrame
<1>4. CASE env
  BY <1>1, <1>4, EnvFrame DEF processes, TypeInv
<1>5. CASE time
  BY <1>1, <1>5, TimeFrame DEF processes, TypeInv
<1> QED BY <1>2, <1>3, <1>4, <1>5 DEF LaunchStep

LEMMA KillFrame ==
  ASSUME TypeInv, kill
  PROVE  /\ FaultsGrow /\ cmd.util = "kill" /\ UNCHANGED <<own, live, nice_value, tty, seen>>
         /\ got' \in [Pids -> Seq(Int)]
         /\ deliver_signals \/ UNCHANGED got
<1>1. UNCHANGED <<own, live, nice_value, tty, seen>>
  BY DEF kill, terminal
<1>2. CASE deliver_signals
  <2>1. Works /\ cmd.util = "kill" /\ state.signum \in Int
    BY <1>2, SignalsAreNats DEF deliver_signals, AtPid, At, Running
  <2>2. ASSUME NEW p \in Pids PROVE got'[p] \in Seq(Int)
    <3>1. got'[p] = got[p] \/ got'[p] = Append(got[p], state.signum)
      BY <1>2 DEF deliver_signals
    <3>2. got[p] \in Seq(Int)
      BY DEF TypeInv
    <3>3. Append(got[p], state.signum) \in Seq(Int)
      BY <3>2, <2>1
    <3> QED BY <3>1, <3>2, <3>3
  <2>3. got' = [p \in Pids |-> got'[p]]
    BY <1>2 DEF deliver_signals
  <2> QED BY <1>1, <1>2, <2>1, <2>2, <2>3, CallsCount
<1>3. CASE KillRefused
  <2>1. UNCHANGED got /\ (Works \/ Fault) /\ cmd.util = "kill"
    BY <1>3 DEF KillRefused, AtPid, At, Running
  <2> QED BY <1>1, <2>1, CallsCount DEF TypeInv
<1>4. CASE (check_signal_list \/ check_signal_name \/ NoSignalName \/ KillDone) /\ Works /\ UNCHANGED got
  <2>1. cmd.util = "kill"
    BY <1>4 DEF check_signal_list, check_signal_name, NoSignalName, KillDone, At, Running
  <2> QED BY <1>1, <1>4, <2>1, CallsCount DEF TypeInv
<1> QED BY <1>2, <1>3, <1>4 DEF kill

LEMMA ReniceFrame ==
  ASSUME TypeInv, renice
  PROVE  /\ FaultsGrow /\ cmd.util = "renice" /\ UNCHANGED <<own, live, got, tty, seen>>
         /\ DOMAIN nice_value' = Pids
         /\ set_prio \/ UNCHANGED nice_value
<1>1. UNCHANGED <<own, live, got, tty, seen>>
  BY DEF renice, terminal
<1>2. CASE set_prio
  <2>1. (Works \/ Fault) /\ cmd.util = "renice"
    BY <1>2 DEF set_prio, At, Running
  <2>2. DOMAIN nice_value' = Pids
    BY <1>2 DEF set_prio, TypeInv
  <2> QED BY <1>1, <1>2, <2>1, <2>2, CallsCount
<1>3. CASE get_prio
  <2>1. (Works \/ Fault) /\ cmd.util = "renice" /\ UNCHANGED nice_value
    BY <1>3 DEF get_prio, At, Running
  <2> QED BY <1>1, <2>1, CallsCount DEF TypeInv
<1>4. CASE get_prio2
  <2>1. Works /\ cmd.util = "renice" /\ UNCHANGED nice_value
    BY <1>4 DEF get_prio2, At, Running
  <2> QED BY <1>1, <2>1, CallsCount DEF TypeInv
<1> QED BY <1>2, <1>3, <1>4 DEF renice

LEMMA SttyFrame ==
  ASSUME TypeInv, stty
  PROVE  /\ FaultsGrow /\ cmd.util = "stty" /\ UNCHANGED <<own, processes>>
         /\ stty_push_ti \/ UNCHANGED tty
         /\ stty_get \/ UNCHANGED seen
<1>1. UNCHANGED <<own, processes>>
  BY DEF stty
<1>2. CASE stty_get
  <2>1. (Works \/ Fault) /\ cmd.util = "stty" /\ UNCHANGED tty
    BY <1>2 DEF stty_get, At, Running
  <2> QED BY <1>1, <1>2, <2>1, CallsCount
<1>3. CASE stty_set_compact
  <2>1. Works /\ cmd.util = "stty" /\ UNCHANGED <<tty, seen>>
    BY <1>3 DEF stty_set_compact, At, Running
  <2> QED BY <1>1, <2>1, CallsCount
<1>4. CASE stty_params /\ Works /\ UNCHANGED <<tty, seen>>
  <2>1. cmd.util = "stty"
    BY <1>4 DEF stty_params, param_apply, param_speed, InvalidParam, AtParam, LastParam, At, Running
  <2> QED BY <1>1, <1>4, <2>1, CallsCount
<1>5. CASE stty_push_ti
  <2>1. (Works \/ Fault) /\ cmd.util = "stty" /\ UNCHANGED seen
    BY <1>5 DEF stty_push_ti, At, Running
  <2> QED BY <1>1, <1>5, <2>1, CallsCount
<1> QED BY <1>2, <1>3, <1>4, <1>5 DEF stty

LEMMA MesgFrame ==
  ASSUME TypeInv, mesg
  PROVE  /\ FaultsGrow /\ cmd.util = "mesg" /\ UNCHANGED <<own, processes>>
         /\ mesg_fchmod \/ UNCHANGED tty
         /\ mesg_fstat \/ UNCHANGED seen
<1>1. UNCHANGED <<own, processes>>
  BY DEF mesg
<1>2. CASE mesg_fstat
  <2>1. (Works \/ Fault) /\ cmd.util = "mesg" /\ UNCHANGED tty
    BY <1>2 DEF mesg_fstat, At, Running
  <2> QED BY <1>1, <1>2, <2>1, CallsCount
<1>3. CASE mesg_fchmod
  <2>1. (Works \/ Fault) /\ cmd.util = "mesg" /\ UNCHANGED seen
    BY <1>3 DEF mesg_fchmod, At, Running
  <2> QED BY <1>1, <1>3, <2>1, CallsCount
<1> QED BY <1>2, <1>3 DEF mesg

(* Others act on the processes and the terminal, and one of them is counted. *)
LEMMA OtherFrame ==
  ASSUME TypeInv, Other
  PROVE  /\ others' = others + 1 /\ UNCHANGED <<cmd, own, faults, seen, got>>
         /\ live' \subseteq live /\ DOMAIN nice_value' = Pids
         /\ status = "running"
<1>1. CASE CommandKilled \/ Hangup
  <2>1. /\ others' = others + 1 /\ status = "running"
        /\ UNCHANGED <<cmd, own, processes, terminal, faults>>
    BY <1>1 DEF CommandKilled, Hangup, Running
  <2> QED BY <2>1 DEF processes, terminal, TypeInv
<1>2. CASE ProcessEnds
  <2>1. /\ Interferes /\ UNCHANGED <<nice_value, got, tty>> /\ status = "running"
        /\ live' \subseteq live
    BY <1>2 DEF ProcessEnds
  <2> QED BY <2>1 DEF Interferes, TypeInv
<1>3. CASE ProcessReniced
  <2>1. Interferes /\ UNCHANGED <<live, got, tty>> /\ status = "running"
    BY <1>3 DEF ProcessReniced, Running
  <2>2. DOMAIN nice_value' = Pids
    BY <1>3 DEF ProcessReniced, TypeInv
  <2> QED BY <2>1, <2>2 DEF Interferes
<1>4. CASE TerminalSet
  <2>1. Interferes /\ UNCHANGED processes /\ status = "running"
    BY <1>4 DEF TerminalSet
  <2> QED BY <2>1 DEF Interferes, processes, TypeInv
<1> QED BY <1>1, <1>2, <1>3, <1>4 DEF Other

LEMMA CommandFrame ==
  ASSUME CommandEnds
  PROVE  UNCHANGED <<cmd, own, processes, terminal, others, faults>>
BY DEF CommandEnds

LEMMA TypeInit == Init => TypeInv
<1> SUFFICES ASSUME Init PROVE TypeInv
  OBVIOUS
<1>1. got \in [Pids -> Seq(Int)]
  <2>1. <<>> \in Seq(Int)
    OBVIOUS
  <2> QED BY <2>1 DEF Init
<1>2. live \subseteq Pids /\ self \notin live
  BY DEF Init, Pids, self
<1>3. DOMAIN nice_value = Pids
  BY DEF Init
<1> QED BY <1>1, <1>2, <1>3 DEF Init, TypeInv

LEMMA TypeKept == TypeInv /\ [Next]_vars => TypeInv'
<1> SUFFICES ASSUME TypeInv, [Next]_vars PROVE TypeInv'
  OBVIOUS
<1>1. CASE LaunchStep
  BY <1>1, LaunchFrame DEF TypeInv, FaultsGrow
<1>2. CASE ControlStep
  <2>1. UNCHANGED <<cmd, others>>
    BY <1>2 DEF ControlStep
  <2>2. CASE kill
    BY <2>1, <2>2, KillFrame DEF TypeInv, FaultsGrow
  <2>3. CASE renice
    BY <2>1, <2>3, ReniceFrame DEF TypeInv, FaultsGrow
  <2>4. CASE stty
    BY <2>1, <2>4, SttyFrame DEF TypeInv, FaultsGrow, processes
  <2>5. CASE mesg
    BY <2>1, <2>5, MesgFrame DEF TypeInv, FaultsGrow, processes
  <2> QED BY <1>2, <2>2, <2>3, <2>4, <2>5 DEF ControlStep
<1>3. CASE Command
  BY <1>3, CommandFrame DEF TypeInv, Command, processes
<1>4. CASE Other
  BY <1>4, OtherFrame DEF TypeInv
<1>5. CASE UNCHANGED vars
  BY <1>5 DEF TypeInv, vars, processes
<1> QED BY <1>1, <1>2, <1>3, <1>4, <1>5 DEF Next, Program, Done

LEMMA OnlyWhileRunning ==
  Program \/ Command \/ Other => status = "running"
<1>1. LaunchStep => status = "running"
  <2>1. Redirections => status = "running"
    BY DEF Redirections, NoArguments, isatty, OpenAtHome, RedirectStdout, RedirectStderr, At, Running
  <2>2. nohup => status = "running"
    BY <2>1 DEF nohup, signal, At, Running
  <2>3. nice \/ env => status = "running"
    BY DEF nice, NiceOptions, SetNice, env, do_env, At, Running
  <2>4. time => status = "running"
    BY DEF time, fork, do_child, do_wait, At, Running
  <2> QED BY <2>2, <2>3, <2>4 DEF LaunchStep
<1>2. ControlStep => status = "running"
  <2>1. kill => status = "running"
    BY DEF kill, check_signal_list, check_signal_name, NoSignalName, KillDone, deliver_signals,
           KillRefused, AtPid, At, Running
  <2>2. renice => status = "running"
    BY DEF renice, get_prio, set_prio, get_prio2, At, Running
  <2>3. stty => status = "running"
    BY DEF stty, stty_get, stty_set_compact, stty_params, param_apply, param_speed, InvalidParam,
           LastParam, stty_push_ti, AtParam, At, Running
  <2>4. mesg => status = "running"
    BY DEF mesg, mesg_fstat, mesg_fchmod, At, Running
  <2> QED BY <2>1, <2>2, <2>3, <2>4 DEF ControlStep
<1>3. Command \/ Other => status = "running"
  BY DEF Command, CommandEnds, Other, CommandKilled, Hangup, ProcessEnds, ProcessReniced,
         TerminalSet, Running
<1> QED BY <1>1, <1>2, <1>3 DEF Program

-----------------------------------------------------------------------------
(***************************************************************************)
(* kill: the signals that have been sent, up to the operand it is at.      *)
(***************************************************************************)
Named(p, j) ==
  cmd.args[j].kind = "pid" /\ (cmd.args[j].pid = p \/ (cmd.args[j].pid = self /\ p \in Group))
NamedBefore(p, n) == {j \in 1..(n - 1) : Named(p, j)}

KillSent ==
  /\ cmd.form \in {"-s", "-name"} /\ cmd.args # <<>>
  /\ state.i \in 1..(Len(cmd.args) + 1)
  /\ state.signum = signame_to_num(cmd.name) /\ state.signum >= 0
  /\ state.signum \in Signals =>
       \A p \in live : Len(got[p]) \in (Cardinality(NamedBefore(p, state.i)) - faults)..Cardinality(NamedBefore(p, state.i))
  /\ state.retval = 0 =>
       /\ faults = 0
       /\ \A j \in 1..(state.i - 1) : cmd.args[j].kind = "pid" /\ cmd.args[j].pid \in Pids
       /\ state.i > 1 => state.signum \in Signals
KillBegins ==
  state.i = 1 /\ state.retval = 0 /\ faults = 0 /\ got = [p \in Pids |-> <<>>]
KillInv ==
  cmd.util = "kill" =>
    /\ DOMAIN state = {"pc", "i", "signum", "retval"}
    /\ status \in {"running", "exited", "killed"}
    /\ status = "running" => IF state.pc = "main" THEN KillBegins ELSE KillSent
    /\ status = "exited" => KillStatus
    /\ status = "killed" => cmd.form \in {"default", "-l"} \/ got[self] # <<>>

LEMMA KillOperands ==
  ASSUME TypeInv, cmd.util = "kill"
  PROVE  cmd.args \in Seq([kind : {"pid", "bad"}, pid : Int])
BY CommandsAssumption DEF TypeInv

LEMMA NamedCounts ==
  ASSUME NEW n \in Nat \ {0}, NEW p
  PROVE  /\ Cardinality(NamedBefore(p, n)) \in Nat
         /\ Cardinality(NamedBefore(p, n + 1)) =
              IF Named(p, n) THEN Cardinality(NamedBefore(p, n)) + 1 ELSE Cardinality(NamedBefore(p, n))
<1>1. IsFiniteSet(NamedBefore(p, n))
  <2>1. IsFiniteSet(1..(n - 1))
    BY FS_Interval
  <2>2. NamedBefore(p, n) \in SUBSET (1..(n - 1))
    BY DEF NamedBefore
  <2> QED BY <2>1, <2>2, FS_Subset
<1>2. Cardinality(NamedBefore(p, n)) \in Nat
  BY <1>1, FS_CardinalityType
<1>3. CASE Named(p, n)
  <2>1. NamedBefore(p, n + 1) = NamedBefore(p, n) \cup {n} /\ n \notin NamedBefore(p, n)
    BY <1>3 DEF NamedBefore
  <2> QED BY <1>1, <1>2, <1>3, <2>1, FS_AddElement
<1>4. CASE ~Named(p, n)
  <2>1. NamedBefore(p, n + 1) = NamedBefore(p, n)
    BY <1>4 DEF NamedBefore
  <2> QED BY <1>2, <1>4, <2>1
<1> QED BY <1>3, <1>4

LEMMA AllNamed ==
  ASSUME TypeInv, cmd.util = "kill", NEW p
  PROVE  TimesNamed(p) = Cardinality(NamedBefore(p, Len(cmd.args) + 1))
<1>1. DOMAIN cmd.args = 1..(Len(cmd.args) + 1 - 1)
  BY KillOperands
<1> QED BY <1>1 DEF TimesNamed, NamedBefore, Named

LEMMA SomeNamed ==
  ASSUME TypeInv, cmd.util = "kill", NEW p, NEW j \in DOMAIN cmd.args, Named(p, j)
  PROVE  TimesNamed(p) > 0
<1> DEFINE S == {i \in DOMAIN cmd.args :
                   cmd.args[i].kind = "pid" /\ (cmd.args[i].pid = p \/ (cmd.args[i].pid = self /\ p \in Group))}
<1>1. IsFiniteSet(DOMAIN cmd.args)
  <2>1. DOMAIN cmd.args = 1..Len(cmd.args) /\ Len(cmd.args) \in Nat
    BY KillOperands
  <2> QED BY <2>1, FS_Interval
<1>2. IsFiniteSet(S)
  <2>1. S \in SUBSET DOMAIN cmd.args
    OBVIOUS
  <2> QED BY <1>1, <2>1, FS_Subset
<1>3. j \in S
  BY DEF Named
<1>4. Cardinality(S) # 0
  BY <1>2, <1>3, FS_EmptySet
<1>5. Cardinality(S) \in Nat
  BY <1>2, FS_CardinalityType
<1> QED BY <1>4, <1>5 DEF TimesNamed

LEMMA KillInit == Init => KillInv
<1> SUFFICES ASSUME Init, cmd.util = "kill" PROVE KillInv
  BY DEF KillInv
<1>1. state = KillStart
  BY DEF Init, LaunchUtils, ControlStart
<1> QED BY <1>1 DEF Init, KillInv, KillStart, KillBegins

(* The signal is found, or kill ends with 1 before it has sent anything. *)
LEMMA KillNameKept ==
  ASSUME TypeInv, KillInv, cmd.util = "kill", cmd' = cmd, live' = live, got' = got, Works, check_signal_name
  PROVE  KillInv'
<1> DEFINE signum == signame_to_num(cmd.name)
<1>1. /\ status = "running" /\ state.pc = "main" /\ cmd.form \in {"-s", "-name"}
      /\ DOMAIN state = {"pc", "i", "signum", "retval"}
      /\ KillBegins
  BY DEF check_signal_name, At, Running, KillInv
<1>2. \/ (signum < 0 \/ cmd.args = <<>>) /\ Exit(1)
      \/ /\ signum >= 0 /\ cmd.args # <<>>
         /\ state' = [state EXCEPT !.pc = "deliver_signals", !.signum = signum]
         /\ UNCHANGED <<status, exit_status>>
  BY DEF check_signal_name
<1>3. \A p : Cardinality(NamedBefore(p, 1)) = 0
  <2>1. \A p : NamedBefore(p, 1) = {}
    BY DEF NamedBefore
  <2> QED BY <2>1, FS_EmptySet
<1>4. \A p \in live : p \in Pids /\ Len(got[p]) = 0
  BY <1>1 DEF KillBegins, TypeInv
<1>5. CASE (signum < 0 \/ cmd.args = <<>>) /\ Exit(1)
  <2>1. state' = state /\ status' = "exited" /\ exit_status' = 1
    BY <1>5 DEF Exit
  <2>2. ASSUME SignalAsked(cmd.name) \cap Signals # {}, NEW p \in live
        PROVE  Len(got[p]) \in (TimesNamed(p) - faults)..TimesNamed(p)
    <3>1. signum \in Signals
      BY <2>2, SignalFound
    <3>2. ~(signum < 0)
      BY <3>1, SignalsAreNats
    <3>3. cmd.args = <<>>
      BY <1>5, <3>2, Zenon
    <3>4. Len(cmd.args) + 1 = 1
      BY <3>3
    <3>5. TimesNamed(p) = 0
      BY <3>4, <1>3, AllNamed
    <3> QED BY <3>5, <1>4, <1>1 DEF KillBegins
  <2>3. KillStatus'
    <3>1. \A p : TimesNamed(p)' = TimesNamed(p)
      BY DEF TimesNamed
    <3> QED BY <2>1, <2>2, <3>1 DEF KillStatus, Works, Signals
  <2> QED BY <1>1, <2>1, <2>3 DEF KillInv
<1>6. CASE /\ signum >= 0 /\ cmd.args # <<>>
           /\ state' = [state EXCEPT !.pc = "deliver_signals", !.signum = signum]
           /\ UNCHANGED <<status, exit_status>>
  <2>1. /\ state'.pc = "deliver_signals" /\ state'.signum = signum /\ state'.i = 1 /\ state'.retval = 0
        /\ DOMAIN state' = {"pc", "i", "signum", "retval"}
    BY <1>1, <1>6 DEF KillBegins
  <2>2. \A p, n : NamedBefore(p, n)' = NamedBefore(p, n')
    BY DEF NamedBefore, Named
  <2>3. \A p \in live' : Cardinality(NamedBefore(p, state.i)') = 0 /\ Len(got'[p]) = 0
    BY <1>3, <1>4, <2>1, <2>2
  <2>4. faults' = 0
    BY <1>1 DEF KillBegins, Works
  <2>5. 1 \in 1..(Len(cmd.args) + 1)
    <3>1. Len(cmd.args) \in Nat
      BY KillOperands
    <3> QED BY <3>1
  <2>6. KillSent'
    BY <1>1, <1>6, <2>1, <2>3, <2>4, <2>5 DEF KillSent
  <2> QED BY <1>1, <1>6, <2>1, <2>6 DEF KillInv
<1> QED BY <1>2, <1>5, <1>6

(* A process of the others receives a signal if and only if it is named. *)
LEMMA NamedReceives ==
  ASSUME TypeInv, NEW p \in live, NEW j, cmd.args[j].kind = "pid"
  PROVE  p \in Receivers(cmd.args[j].pid) <=> Named(p, j)
BY DEF TypeInv, Receivers, Named, Group

LEMMA AtOperand ==
  ASSUME TypeInv, KillInv, AtPid
  PROVE  /\ cmd.util = "kill" /\ KillSent /\ DOMAIN state = {"pc", "i", "signum", "retval"}
         /\ status = "running" /\ state.pc = "deliver_signals"
         /\ state.i \in Nat \ {0} /\ state.i + 1 \in 1..(Len(cmd.args) + 1)
         /\ state.i \in DOMAIN cmd.args
<1>1. cmd.util = "kill" /\ status = "running" /\ state.pc = "deliver_signals" /\ state.i <= Len(cmd.args)
  BY DEF AtPid, At, Running
<1>2. KillSent /\ DOMAIN state = {"pc", "i", "signum", "retval"}
  BY <1>1 DEF KillInv
<1>3. Len(cmd.args) \in Nat /\ DOMAIN cmd.args = 1..Len(cmd.args)
  BY <1>1, KillOperands
<1> QED BY <1>1, <1>2, <1>3 DEF KillSent

LEMMA KillDeliverKept ==
  ASSUME TypeInv, KillInv, cmd' = cmd, live' = live, deliver_signals PROVE KillInv'
<1> DEFINE operand == cmd.args[state.i]
           to == Receivers(operand.pid)
<1>1. /\ cmd.util = "kill" /\ KillSent /\ DOMAIN state = {"pc", "i", "signum", "retval"}
      /\ state.pc = "deliver_signals" /\ status = "running"
      /\ state.i \in Nat \ {0} /\ state.i + 1 \in 1..(Len(cmd.args) + 1)
  BY AtOperand DEF deliver_signals
<1>2. /\ operand.kind = "pid" /\ to # {} /\ state.signum \in Signals
      /\ got' = [p \in Pids |-> IF p \in to THEN Append(got[p], state.signum) ELSE got[p]]
      /\ IF self \in to /\ state.signum # 0 THEN Die("killed") ELSE NextPid(0)
      /\ Works
  BY DEF deliver_signals
<1>3. CASE self \in to /\ Die("killed")
  <2>1. state' = state /\ status' = "killed"
    BY <1>3 DEF Die
  <2>2. got[self] \in Seq(Int) /\ self \in Pids
    BY DEF TypeInv, Pids
  <2>3. got'[self] = Append(got[self], state.signum)
    BY <1>2, <1>3, <2>2
  <2>4. got'[self] # <<>>
    BY <2>2, <2>3
  <2> QED BY <1>1, <2>1, <2>4 DEF KillInv
<1>4. CASE NextPid(0)
  <2>1. /\ DOMAIN state' = DOMAIN state /\ state'.i = state.i + 1 /\ state'.retval = state.retval
        /\ state'.pc = state.pc /\ state'.signum = state.signum
        /\ status' = status /\ exit_status' = exit_status
    BY <1>1, <1>4 DEF NextPid
  <2>2. \A p, n : NamedBefore(p, n)' = NamedBefore(p, n')
    BY DEF NamedBefore, Named
  <2>3. ASSUME NEW p \in live
        PROVE  Len(got'[p]) \in (Cardinality(NamedBefore(p, state.i + 1)) - faults)..Cardinality(NamedBefore(p, state.i + 1))
    <3>1. Len(got[p]) \in (Cardinality(NamedBefore(p, state.i)) - faults)..Cardinality(NamedBefore(p, state.i))
      BY <1>1, <1>2 DEF KillSent
    <3>2. p \in to <=> Named(p, state.i)
      BY <1>2, NamedReceives
    <3>3. p \in Pids /\ got[p] \in Seq(Int) /\ faults \in Nat
      BY DEF TypeInv
    <3>4. Cardinality(NamedBefore(p, state.i)) \in Nat
      BY <1>1, NamedCounts
    <3>5. CASE Named(p, state.i)
      <4>1. got'[p] = Append(got[p], state.signum)
        BY <1>2, <3>2, <3>3, <3>5
      <4>2. Len(got'[p]) = Len(got[p]) + 1 /\ Len(got[p]) \in Nat
        BY <4>1, <3>3
      <4>3. Cardinality(NamedBefore(p, state.i + 1)) = Cardinality(NamedBefore(p, state.i)) + 1
        BY <1>1, <3>5, NamedCounts
      <4> QED BY <3>1, <3>3, <3>4, <4>2, <4>3
    <3>6. CASE ~Named(p, state.i)
      <4>1. got'[p] = got[p]
        BY <1>2, <3>2, <3>3, <3>6
      <4>2. Cardinality(NamedBefore(p, state.i + 1)) = Cardinality(NamedBefore(p, state.i))
        BY <1>1, <3>6, NamedCounts
      <4> QED BY <3>1, <4>1, <4>2
    <3> QED BY <3>5, <3>6
  <2>4. operand.pid \in Pids
    BY <1>2 DEF Receivers, TypeInv, Pids
  <2>5. state.retval = 0 => \A j \in 1..(state.i + 1 - 1) : cmd.args[j].kind = "pid" /\ cmd.args[j].pid \in Pids
    <3>1. ASSUME state.retval = 0, NEW j \in 1..(state.i + 1 - 1)
          PROVE  cmd.args[j].kind = "pid" /\ cmd.args[j].pid \in Pids
      <4>1. j \in 1..(state.i - 1) \/ j = state.i
        BY <1>1
      <4> QED BY <4>1, <3>1, <1>1, <1>2, <2>4 DEF KillSent
    <3> QED BY <3>1
  <2>6. KillSent'
    <3>1. \A p \in live' : Len(got'[p]) \in (Cardinality(NamedBefore(p, state.i)') - faults')..Cardinality(NamedBefore(p, state.i)')
      BY <1>2, <2>1, <2>2, <2>3 DEF Works
    <3>2. (/\ cmd.form \in {"-s", "-name"} /\ cmd.args # <<>>
           /\ state.i \in 1..(Len(cmd.args) + 1)
           /\ state.signum = signame_to_num(cmd.name) /\ state.signum >= 0)'
      BY <1>1, <2>1 DEF KillSent
    <3>3. state.retval = 0 => faults' = 0
      BY <1>1, <1>2 DEF KillSent, Works
    <3>4. ASSUME state'.retval = 0, NEW j \in 1..(state'.i - 1)
          PROVE  cmd.args[j].kind = "pid" /\ cmd.args[j].pid \in Pids
      <4>1. j \in 1..(state.i + 1 - 1) /\ state.retval = 0
        BY <1>1, <2>1, <3>4
      <4> QED BY <4>1, <2>5
    <3> QED BY <1>2, <2>1, <3>1, <3>2, <3>3, <3>4 DEF KillSent
  <2> QED BY <1>1, <2>1, <2>6 DEF KillInv
<1> QED BY <1>2, <1>3, <1>4

LEMMA KillRefusedKept ==
  ASSUME TypeInv, KillInv, cmd' = cmd, live' = live, KillRefused PROVE KillInv'
<1> DEFINE operand == cmd.args[state.i]
<1>1. /\ cmd.util = "kill" /\ KillSent /\ DOMAIN state = {"pc", "i", "signum", "retval"}
      /\ state.pc = "deliver_signals" /\ status = "running"
      /\ state.i \in Nat \ {0} /\ state.i + 1 \in 1..(Len(cmd.args) + 1)
      /\ state.i \in DOMAIN cmd.args
  BY AtOperand DEF KillRefused
<1>2. got' = got /\ NextPid(1)
  BY DEF KillRefused
<1>3. /\ DOMAIN state' = DOMAIN state /\ state'.i = state.i + 1 /\ state'.retval = 1
      /\ state'.pc = state.pc /\ state'.signum = state.signum
      /\ status' = status /\ exit_status' = exit_status
  BY <1>1, <1>2 DEF NextPid
<1>4. FaultsGrow
  BY CallsCount DEF KillRefused
<1>5. \A p, n : NamedBefore(p, n)' = NamedBefore(p, n')
  BY DEF NamedBefore, Named
<1>6. ASSUME state.signum \in Signals, NEW p \in live
      PROVE  Len(got[p]) \in (Cardinality(NamedBefore(p, state.i + 1)) - faults')..Cardinality(NamedBefore(p, state.i + 1))
  <2>1. Len(got[p]) \in (Cardinality(NamedBefore(p, state.i)) - faults)..Cardinality(NamedBefore(p, state.i))
    BY <1>1, <1>6 DEF KillSent
  <2>2. Cardinality(NamedBefore(p, state.i)) \in Nat /\ faults \in Nat
    BY <1>1, NamedCounts DEF TypeInv
  <2>3. CASE Named(p, state.i)
    <3>1. operand.kind = "pid" /\ operand.pid \in {self, p}
      BY <2>3 DEF Named
    <3>2. p \in Receivers(operand.pid)
      BY <2>3, <3>1, NamedReceives
    <3>3. ~(operand.pid < 0)
      BY <3>1 DEF self, Pids, TypeInv
    <3>4. Fault
      BY <1>6, <3>1, <3>2, <3>3 DEF KillRefused
    <3>5. Cardinality(NamedBefore(p, state.i + 1)) = Cardinality(NamedBefore(p, state.i)) + 1
      BY <1>1, <2>3, NamedCounts
    <3> QED BY <2>1, <2>2, <3>4, <3>5 DEF Fault
  <2>4. CASE ~Named(p, state.i)
    <3>1. Cardinality(NamedBefore(p, state.i + 1)) = Cardinality(NamedBefore(p, state.i))
      BY <1>1, <2>4, NamedCounts
    <3> QED BY <2>1, <2>2, <3>1, <1>4 DEF FaultsGrow
  <2> QED BY <2>3, <2>4
<1>7. KillSent'
  <2>1. state.signum \in Signals =>
          \A p \in live' : Len(got'[p]) \in (Cardinality(NamedBefore(p, state.i)') - faults')..Cardinality(NamedBefore(p, state.i)')
    BY <1>2, <1>3, <1>5, <1>6
  <2> QED BY <1>1, <1>3, <2>1 DEF KillSent, Signals
<1> QED BY <1>1, <1>3, <1>7 DEF KillInv

LEMMA KillDoneKept ==
  ASSUME TypeInv, KillInv, cmd' = cmd, live' = live, got' = got, Works, KillDone
  PROVE  KillInv'
<1>1. /\ cmd.util = "kill" /\ status = "running" /\ state.pc = "deliver_signals" /\ state.i > Len(cmd.args)
      /\ state' = state /\ status' = "exited" /\ exit_status' = state.retval
  BY DEF KillDone, At, Running, Exit
<1>2. KillSent /\ DOMAIN state = {"pc", "i", "signum", "retval"}
  BY <1>1 DEF KillInv
<1>3. DOMAIN cmd.args = 1..Len(cmd.args) /\ Len(cmd.args) \in Nat
  BY <1>1, KillOperands
<1>4. state.i = Len(cmd.args) + 1
  BY <1>1, <1>2, <1>3 DEF KillSent
<1>5. Len(cmd.args) > 0
  BY <1>1, <1>2, <1>3, KillOperands DEF KillSent
<1>6. ASSUME SignalAsked(cmd.name) \cap Signals # {}, NEW p \in live
      PROVE  Len(got[p]) \in (TimesNamed(p) - faults)..TimesNamed(p)
  <2>1. state.signum \in Signals
    BY <1>2, <1>6, SignalFound DEF KillSent
  <2>2. TimesNamed(p) = Cardinality(NamedBefore(p, state.i))
    BY <1>1, <1>4, AllNamed
  <2> QED BY <1>2, <2>1, <2>2 DEF KillSent
<1>7. ASSUME state.retval = 0
      PROVE  /\ SignalAsked(cmd.name) \cap Signals # {} /\ faults = 0
             /\ \A i \in DOMAIN cmd.args : ~(cmd.args[i].kind # "pid" \/ cmd.args[i].pid \notin Pids)
  <2>1. state.i > 1
    BY <1>4, <1>5, <1>3
  <2>2. state.signum \in Signals /\ state.signum \in SignalAsked(cmd.name)
    BY <1>2, <1>7, <2>1, SignalFound DEF KillSent
  <2>3. DOMAIN cmd.args = 1..(state.i - 1)
    BY <1>3, <1>4
  <2> QED BY <1>2, <1>7, <2>2, <2>3 DEF KillSent
<1>8. KillStatus'
  <2>1. \A p : TimesNamed(p)' = TimesNamed(p)
    BY DEF TimesNamed
  <2> QED BY <1>1, <1>6, <1>7, <2>1 DEF KillStatus, Works, Signals
<1> QED BY <1>1, <1>2, <1>8 DEF KillInv

LEMMA KillKept ==
  ASSUME TypeInv, KillInv, cmd' = cmd, kill PROVE KillInv'
<1>1. UNCHANGED live
  BY KillFrame
<1>2. CASE deliver_signals
  BY <1>1, <1>2, KillDeliverKept
<1>3. CASE KillRefused
  BY <1>1, <1>3, KillRefusedKept
<1>4. CASE (check_signal_list \/ check_signal_name \/ NoSignalName \/ KillDone) /\ Works /\ UNCHANGED got
  <2>1. CASE check_signal_name
    BY <1>1, <1>4, <2>1, KillNameKept DEF check_signal_name, At, Running
  <2>2. CASE KillDone
    BY <1>1, <1>4, <2>2, KillDoneKept
  <2>3. CASE check_signal_list \/ NoSignalName
    <3>1. /\ cmd.util = "kill" /\ cmd.form \in {"default", "-l"}
          /\ state' = state /\ status' \in {"exited", "killed"}
      BY <2>3 DEF check_signal_list, NoSignalName, At, Running, Exit, Die
    <3>2. DOMAIN state = {"pc", "i", "signum", "retval"}
      BY <3>1 DEF KillInv
    <3>3. KillStatus'
      BY <3>1 DEF KillStatus
    <3> QED BY <3>1, <3>2, <3>3 DEF KillInv
  <2> QED BY <1>4, <2>1, <2>2, <2>3
<1> QED BY <1>2, <1>3, <1>4 DEF kill

-----------------------------------------------------------------------------
(***************************************************************************)
(* stty: its copy of the settings differs from what it has read only where *)
(* a word has said so, and the last word about a setting has set it.       *)
(***************************************************************************)
ValueOf(j, s) ==
  LET p == cmd.args[j]
  IN IF p.kind = "number" \/ p.set_val THEN p.val ELSE IF s = "size" THEN 5 ELSE 0
LastConcern(s, j, n) == s \in Concerns(j) /\ \A k \in (j + 1)..(n - 1) : s \notin Concerns(k)
ParamsDone(ti, n) ==
  /\ \A s \in DOMAIN Settings : ti[s] # seen[s] => \E j \in 1..(n - 1) : s \in Concerns(j)
  /\ \A s \in DOMAIN Settings, j \in 1..(n - 1) : LastConcern(s, j, n) => ti[s] = ValueOf(j, s)
Special(j) == cmd.args[j].kind \in {"speed", "cchar"}

SttyParams ==
  /\ cmd.form = "operands" /\ state.i \in 1..(Len(cmd.args) + 1)
  /\ state.last_param = IF state.i > 1 /\ Special(state.i - 1) THEN cmd.args[state.i - 1].setting ELSE "NULL"
  /\ ParamsDone(state.ti, state.i)
SttyReady ==
  /\ cmd.form \in {"operands", "compact"}
  /\ \A s \in DOMAIN Settings : state.ti[s] # seen[s] => s \in NamedSettings
  /\ \A s \in NamedSettings :
       /\ cmd.form = "operands" => state.ti[s] = SettingAsked(s)
       /\ cmd.form = "compact" /\ s \in Saved => state.ti[s] = cmd.saved[s]
SttyInv ==
  cmd.util = "stty" =>
    /\ DOMAIN state = {"pc", "i", "ti", "last_param"}
    /\ DOMAIN tty = DOMAIN Settings /\ DOMAIN state.ti = DOMAIN Settings
    /\ status \in {"running", "exited"}
    /\ status = "running" =>
         /\ state.pc = "tcgetattr" => state.i = 1 /\ state.last_param = "NULL"
         /\ state.pc # "tcgetattr" => Terminal
         /\ state.pc = "operands" => SttyParams
         /\ state.pc = "compact" => cmd.form = "compact" /\ state.ti = seen
         /\ state.pc = "tcsetattr" => SttyReady
    /\ status = "exited" => SttyStatus

LEMMA SttyOperands ==
  ASSUME TypeInv, cmd.util = "stty"
  PROVE  /\ DOMAIN cmd.args = 1..Len(cmd.args) /\ Len(cmd.args) \in Nat
         /\ \A i \in DOMAIN cmd.args : SttyWord(cmd.args[i])
BY CommandsAssumption DEF TypeInv

LEMMA SttyInit == Init => SttyInv
<1> SUFFICES ASSUME Init, cmd.util = "stty" PROVE SttyInv
  BY DEF SttyInv
<1>1. state = SttyStart
  BY DEF Init, LaunchUtils, ControlStart
<1> QED BY <1>1 DEF Init, SttyInv, SttyStart

(* One word more: the settings it concerns are as it says, the others as before. *)
LEMMA ParamDone ==
  ASSUME NEW n \in Nat \ {0}, NEW ti, NEW new, ParamsDone(ti, n),
         \A s \in DOMAIN Settings : new[s] = IF s \in Concerns(n) THEN ValueOf(n, s) ELSE ti[s]
  PROVE  ParamsDone(new, n + 1)
<1>1. ASSUME NEW s \in DOMAIN Settings, new[s] # seen[s]
      PROVE  \E j \in 1..(n + 1 - 1) : s \in Concerns(j)
  <2>1. CASE s \in Concerns(n)
    BY <2>1
  <2>2. CASE s \notin Concerns(n)
    <3>1. \E j \in 1..(n - 1) : s \in Concerns(j)
      BY <1>1, <2>2 DEF ParamsDone
    <3> QED BY <3>1
  <2> QED BY <2>1, <2>2
<1>2. ASSUME NEW s \in DOMAIN Settings, NEW j \in 1..(n + 1 - 1), LastConcern(s, j, n + 1)
      PROVE  new[s] = ValueOf(j, s)
  <2>1. CASE j = n
    BY <1>2, <2>1 DEF LastConcern
  <2>2. CASE j # n
    <3>1. j \in 1..(n - 1) /\ n \in (j + 1)..(n + 1 - 1)
      BY <2>2
    <3>2. s \notin Concerns(n)
      BY <1>2, <3>1 DEF LastConcern
    <3>3. LastConcern(s, j, n)
      BY <1>2 DEF LastConcern
    <3> QED BY <3>1, <3>2, <3>3 DEF ParamsDone
  <2> QED BY <2>1, <2>2
<1> QED BY <1>1, <1>2 DEF ParamsDone

(* When all words are done, every setting named is what was asked. *)
LEMMA ParamsReady ==
  ASSUME TypeInv, cmd.util = "stty", cmd.form = "operands", NEW ti, ParamsDone(ti, Len(cmd.args) + 1)
  PROVE  /\ \A s \in DOMAIN Settings : ti[s] # seen[s] => s \in NamedSettings
         /\ \A s \in NamedSettings \cap DOMAIN Settings : ti[s] = SettingAsked(s)
<1>1. DOMAIN cmd.args = 1..Len(cmd.args) /\ Len(cmd.args) \in Nat /\ Len(cmd.args) + 1 - 1 = Len(cmd.args)
  BY SttyOperands
<1>2. NamedSettings = UNION {Concerns(i) : i \in DOMAIN cmd.args}
  BY DEF NamedSettings
<1>3. \A s \in DOMAIN Settings : ti[s] # seen[s] => s \in NamedSettings
  BY <1>1, <1>2 DEF ParamsDone
<1>4. ASSUME NEW s \in NamedSettings \cap DOMAIN Settings PROVE ti[s] = SettingAsked(s)
  <2> DEFINE S == {i \in DOMAIN cmd.args : s \in Concerns(i)}
             m == Max(S)
  <2>1. S \in SUBSET (1..Len(cmd.args)) /\ S # {}
    BY <1>1, <1>2
  <2>2. m \in S /\ \A y \in S : m >= y
    BY <1>1, <2>1, MaxUpTo
  <2>3. m \in 1..Len(cmd.args) /\ s \in Concerns(m)
    BY <1>1, <2>2
  <2>4. \A k \in (m + 1)..Len(cmd.args) : s \notin Concerns(k)
    <3>1. ASSUME NEW k \in (m + 1)..Len(cmd.args), s \in Concerns(k) PROVE FALSE
      <4>1. k \in 1..Len(cmd.args) /\ k > m
        BY <1>1, <2>3
      <4>2. k \in S
        BY <1>1, <3>1, <4>1
      <4>3. m >= k
        BY <2>2, <4>2
      <4> QED BY <2>3, <4>1, <4>3
    <3> QED BY <3>1
  <2>5. LastConcern(s, m, Len(cmd.args) + 1)
    BY <1>1, <2>3, <2>4 DEF LastConcern
  <2>6. ti[s] = ValueOf(m, s)
    BY <1>1, <2>3, <2>5 DEF ParamsDone
  <2>7. SettingAsked(s) = ValueOf(m, s)
    BY DEF SettingAsked, ValueOf
  <2> QED BY <2>6, <2>7
<1> QED BY <1>3, <1>4

LEMMA ConcernsSettings ==
  ASSUME TypeInv, cmd.util = "stty", NEW i \in DOMAIN cmd.args
  PROVE  Concerns(i) \subseteq DOMAIN Settings
<1>1. DOMAIN cmd.args = 1..Len(cmd.args) /\ SttyWord(cmd.args[i])
  BY SttyOperands
<1>2. CASE Consumed(i)
  <2>1. i - 1 \in DOMAIN cmd.args /\ cmd.args[i - 1].kind \in {"speed", "cchar"}
    BY <1>1, <1>2 DEF Consumed
  <2>2. SttyWord(cmd.args[i - 1])
    BY <2>1, SttyOperands
  <2>3. cmd.args[i - 1].setting \in DOMAIN Settings
    BY <2>1, <2>2, SettingsAssumption DEF SttyWord
  <2> QED BY <1>1, <1>2, <2>3 DEF Concerns, SttyWord
<1>3. CASE ~Consumed(i)
  BY <1>1, <1>3, SettingsAssumption DEF Concerns, SttyWord
<1> QED BY <1>2, <1>3

LEMMA NamedAreSettings ==
  ASSUME TypeInv, cmd.util = "stty" PROVE NamedSettings \subseteq DOMAIN Settings
<1>1. CASE cmd.form = "compact"
  BY <1>1, SettingsAssumption DEF NamedSettings
<1>2. CASE cmd.form # "compact"
  <2>1. NamedSettings = UNION {Concerns(i) : i \in DOMAIN cmd.args}
    BY <1>2 DEF NamedSettings
  <2> QED BY <2>1, ConcernsSettings
<1> QED BY <1>1, <1>2

LEMMA AtWord ==
  ASSUME TypeInv, SttyInv, AtParam
  PROVE  /\ cmd.util = "stty" /\ status = "running" /\ state.pc = "operands"
         /\ SttyParams /\ Terminal /\ SttyWord(Param)
         /\ DOMAIN state = {"pc", "i", "ti", "last_param"}
         /\ DOMAIN tty = DOMAIN Settings /\ DOMAIN state.ti = DOMAIN Settings
         /\ state.i \in Nat \ {0} /\ state.i + 1 \in 1..(Len(cmd.args) + 1)
         /\ Consumed(state.i) <=> state.last_param # "NULL"
         /\ Consumed(state.i) => state.last_param = cmd.args[state.i - 1].setting
<1>1. cmd.util = "stty" /\ status = "running" /\ state.pc = "operands" /\ state.i <= Len(cmd.args)
  BY DEF AtParam, At, Running
<1>2. /\ SttyParams /\ Terminal /\ DOMAIN state = {"pc", "i", "ti", "last_param"}
      /\ DOMAIN tty = DOMAIN Settings /\ DOMAIN state.ti = DOMAIN Settings
  BY <1>1 DEF SttyInv
<1>3. DOMAIN cmd.args = 1..Len(cmd.args) /\ Len(cmd.args) \in Nat
  BY <1>1, SttyOperands
<1>4. state.i \in Nat \ {0} /\ state.i + 1 \in 1..(Len(cmd.args) + 1) /\ state.i \in DOMAIN cmd.args
  BY <1>1, <1>2, <1>3 DEF SttyParams
<1>5. SttyWord(Param)
  BY <1>1, <1>4, SttyOperands DEF Param
<1>6. CASE Consumed(state.i)
  <2>1. state.i > 1 /\ Special(state.i - 1)
    BY <1>6 DEF Consumed, Special
  <2>2. state.last_param = cmd.args[state.i - 1].setting
    BY <1>2, <2>1 DEF SttyParams
  <2>3. state.i - 1 \in DOMAIN cmd.args
    BY <1>3, <1>4, <2>1
  <2>4. SttyWord(cmd.args[state.i - 1])
    BY <1>1, <2>3, SttyOperands
  <2>5. cmd.args[state.i - 1].setting \in DOMAIN Settings
    BY <2>1, <2>4, SettingsAssumption DEF SttyWord, Special
  <2> QED BY <1>1, <1>2, <1>4, <1>5, <1>6, <2>2, <2>5, SettingsAssumption
<1>7. CASE ~Consumed(state.i)
  <2>1. state.last_param = "NULL"
    BY <1>2, <1>7 DEF SttyParams, Consumed, Special
  <2> QED BY <1>1, <1>2, <1>4, <1>5, <1>7, <2>1
<1> QED BY <1>6, <1>7

(* A word that is taken: the next state of the copy, and of what was last. *)
LEMMA NextParamKept ==
  ASSUME TypeInv, SttyInv, AtParam, cmd' = cmd, UNCHANGED <<fd, tty, seen>>,
         NEW ti, NEW last, NextParam(ti, last), DOMAIN ti = DOMAIN Settings,
         \A s \in DOMAIN Settings :
           ti[s] = IF s \in Concerns(state.i) THEN ValueOf(state.i, s) ELSE state.ti[s],
         last = IF Special(state.i) THEN Param.setting ELSE "NULL"
  PROVE  SttyInv'
<1>1. /\ cmd.util = "stty" /\ status = "running" /\ state.pc = "operands"
      /\ SttyParams /\ Terminal /\ DOMAIN state = {"pc", "i", "ti", "last_param"}
      /\ DOMAIN tty = DOMAIN Settings
      /\ state.i \in Nat \ {0} /\ state.i + 1 \in 1..(Len(cmd.args) + 1)
  BY AtWord
<1>2. /\ DOMAIN state' = DOMAIN state /\ state'.i = state.i + 1 /\ state'.ti = ti
      /\ state'.last_param = last /\ state'.pc = "operands" /\ status' = "running"
  BY <1>1 DEF NextParam
<1>3. ParamsDone(ti, state.i + 1)
  BY <1>1, ParamDone DEF SttyParams
<1>4. ParamsDone(state.ti, state.i)'
  <2>1. \A s, j, n : LastConcern(s, j, n)' = LastConcern(s, j, n')
    BY DEF LastConcern, Concerns, Consumed
  <2> QED BY <1>2, <1>3 DEF ParamsDone, LastConcern, ValueOf, Concerns, Consumed
<1>5. (state.last_param = IF state.i > 1 /\ Special(state.i - 1) THEN cmd.args[state.i - 1].setting ELSE "NULL")'
  <2>1. state'.i > 1 /\ state'.i - 1 = state.i
    BY <1>1, <1>2
  <2>2. Special(state.i - 1)' = Special(state.i)
    BY <2>1 DEF Special
  <2>3. cmd'.args[state'.i - 1].setting = Param.setting
    BY <2>1 DEF Param
  <2>4. state'.last_param = IF Special(state.i) THEN Param.setting ELSE "NULL"
    BY <1>2
  <2> QED BY <2>1, <2>2, <2>3, <2>4
<1>6. SttyParams'
  BY <1>1, <1>2, <1>4, <1>5 DEF SttyParams
<1> QED BY <1>1, <1>2, <1>6 DEF SttyInv, Terminal

LEMMA SttyExits ==
  ASSUME SttyInv, cmd.util = "stty", cmd' = cmd, UNCHANGED <<fd, tty>>, NEW rc, Exit(rc),
         rc # 0 \/ (Terminal /\ cmd.form \notin {"operands", "compact"})
  PROVE  SttyInv'
<1>1. state' = state /\ status' = "exited" /\ exit_status' = rc
  BY DEF Exit
<1>2. SttyStatus'
  BY <1>1 DEF SttyStatus, Terminal
<1> QED BY <1>1, <1>2 DEF SttyInv

LEMMA SttyApplyKept ==
  ASSUME TypeInv, SttyInv, cmd' = cmd, UNCHANGED <<fd, tty, seen>>, param_apply
  PROVE  SttyInv'
<1>1. AtParam /\ state.last_param = "NULL"
  BY DEF param_apply
<1>2. ~Consumed(state.i) /\ DOMAIN state.ti = DOMAIN Settings /\ SttyWord(Param)
  BY <1>1, AtWord
<1>3. CASE /\ Param.kind = "flag"
           /\ NextParam([state.ti EXCEPT ![Param.setting] =
                           IF Param.set_val THEN Param.val ELSE Cleared(Param.setting)], "NULL")
  <2> DEFINE value == IF Param.set_val THEN Param.val ELSE Cleared(Param.setting)
             ti == [state.ti EXCEPT ![Param.setting] = value]
  <2>1. Concerns(state.i) = {Param.setting}
    BY <1>3 DEF Concerns, Param
  <2>2. ValueOf(state.i, Param.setting) = value
    BY <1>3 DEF ValueOf, Param, Cleared
  <2>3. ~Special(state.i)
    BY <1>3 DEF Special, Param
  <2>4. DOMAIN ti = DOMAIN Settings
    BY <1>2
  <2>5. ASSUME NEW s \in DOMAIN Settings
        PROVE  ti[s] = IF s \in Concerns(state.i) THEN ValueOf(state.i, s) ELSE state.ti[s]
    BY <1>2, <2>1, <2>2
  <2>6. NextParam(ti, "NULL")
    BY <1>3
  <2> HIDE DEF ti
  <2> QED BY <1>1, <2>3, <2>4, <2>5, <2>6, NextParamKept
<1>4. CASE Param.kind \in {"speed", "cchar"} /\ NextParam(state.ti, Param.setting)
  <2>1. Concerns(state.i) = {}
    BY <1>4 DEF Concerns, Param
  <2>2. Special(state.i)
    BY <1>4 DEF Special, Param
  <2> QED BY <1>1, <1>2, <1>4, <2>1, <2>2, NextParamKept
<1> QED BY <1>3, <1>4 DEF param_apply

LEMMA SttySpeedKept ==
  ASSUME TypeInv, SttyInv, cmd' = cmd, UNCHANGED <<fd, tty, seen>>, param_speed
  PROVE  SttyInv'
<1>1. AtParam /\ Param.kind = "number"
  BY DEF param_speed
<1>2. /\ DOMAIN state.ti = DOMAIN Settings /\ cmd.util = "stty"
      /\ Consumed(state.i) <=> state.last_param # "NULL"
      /\ Consumed(state.i) => state.last_param = cmd.args[state.i - 1].setting
  BY <1>1, AtWord
<1>3. ~Special(state.i) /\ \A s : ValueOf(state.i, s) = Param.val
  BY <1>1 DEF Special, ValueOf, Param
<1>4. CASE Exit(1)
  BY <1>2, <1>4, SttyExits
<1>5. CASE /\ state.last_param = "NULL"
           /\ NextParam([state.ti EXCEPT !.ispeed = Param.val, !.ospeed = Param.val], "NULL")
  <2> DEFINE ti == [state.ti EXCEPT !.ispeed = Param.val, !.ospeed = Param.val]
  <2>1. Concerns(state.i) = {"ispeed", "ospeed"}
    BY <1>1, <1>2, <1>5 DEF Concerns, Param
  <2>2. DOMAIN ti = DOMAIN Settings
    BY <1>2
  <2>3. ASSUME NEW s \in DOMAIN Settings
        PROVE  ti[s] = IF s \in Concerns(state.i) THEN ValueOf(state.i, s) ELSE state.ti[s]
    BY <1>2, <1>3, <2>1
  <2>4. NextParam(ti, "NULL")
    BY <1>5
  <2> HIDE DEF ti
  <2> QED BY <1>1, <1>3, <2>2, <2>3, <2>4, NextParamKept
<1>6. CASE /\ state.last_param \in {"ispeed", "ospeed"}
           /\ NextParam([state.ti EXCEPT ![state.last_param] = Param.val], "NULL")
  <2> DEFINE ti == [state.ti EXCEPT ![state.last_param] = Param.val]
  <2>1. Concerns(state.i) = {state.last_param}
    BY <1>1, <1>2, <1>6 DEF Concerns, Param
  <2>2. DOMAIN ti = DOMAIN Settings
    BY <1>2
  <2>3. ASSUME NEW s \in DOMAIN Settings
        PROVE  ti[s] = IF s \in Concerns(state.i) THEN ValueOf(state.i, s) ELSE state.ti[s]
    BY <1>2, <1>3, <2>1
  <2>4. NextParam(ti, "NULL")
    BY <1>6
  <2> HIDE DEF ti
  <2> QED BY <1>1, <1>3, <2>2, <2>3, <2>4, NextParamKept
<1> QED BY <1>4, <1>5, <1>6 DEF param_speed

(* All words are done, and what is to be set is what they ask for. *)
LEMMA SttyParamsKept ==
  ASSUME TypeInv, SttyInv, cmd' = cmd, UNCHANGED <<fd, tty, seen>>, stty_params
  PROVE  SttyInv'
<1>1. CASE param_apply
  BY <1>1, SttyApplyKept
<1>2. CASE param_speed
  BY <1>2, SttySpeedKept
<1>3. CASE InvalidParam
  BY <1>3, SttyExits, AtWord DEF InvalidParam
<1>4. CASE LastParam /\ state.last_param # "NULL" /\ Exit(1)
  BY <1>4, SttyExits DEF LastParam, At, Running
<1>5. CASE LastParam /\ state.last_param = "NULL" /\ Goto("tcsetattr")
  <2>1. cmd.util = "stty" /\ status = "running" /\ state.pc = "operands" /\ state.i > Len(cmd.args)
    BY <1>5 DEF LastParam, At, Running
  <2>2. /\ SttyParams /\ Terminal /\ DOMAIN state = {"pc", "i", "ti", "last_param"}
        /\ DOMAIN tty = DOMAIN Settings /\ DOMAIN state.ti = DOMAIN Settings
    BY <2>1 DEF SttyInv
  <2>3. Len(cmd.args) \in Nat
    BY <2>1, SttyOperands
  <2>4. state.i = Len(cmd.args) + 1
    BY <2>1, <2>2, <2>3 DEF SttyParams
  <2>5. /\ state'.pc = "tcsetattr" /\ state'.ti = state.ti /\ DOMAIN state' = DOMAIN state
        /\ status' = "running"
    BY <1>5, <2>1, <2>2 DEF Goto
  <2>6. /\ \A s \in DOMAIN Settings : state.ti[s] # seen[s] => s \in NamedSettings
        /\ \A s \in NamedSettings \cap DOMAIN Settings : state.ti[s] = SettingAsked(s)
    BY <2>1, <2>2, <2>4, ParamsReady DEF SttyParams
  <2>7. NamedSettings' = NamedSettings /\ \A s : SettingAsked(s)' = SettingAsked(s)
    BY DEF NamedSettings, SettingAsked, Concerns, Consumed
  <2>8. SttyReady'
    BY <2>1, <2>2, <2>5, <2>6, <2>7, NamedAreSettings DEF SttyReady, SttyParams
  <2> QED BY <2>1, <2>2, <2>5, <2>8 DEF SttyInv, Terminal
<1> QED BY <1>1, <1>2, <1>3, <1>4, <1>5 DEF stty_params

LEMMA SttyGetKept ==
  ASSUME TypeInv, SttyInv, cmd' = cmd, UNCHANGED fd, stty_get
  PROVE  SttyInv'
<1>1. cmd.util = "stty" /\ status = "running" /\ state.pc = "tcgetattr" /\ UNCHANGED tty /\ seen' = tty
  BY DEF stty_get, At, Running
<1>2. /\ DOMAIN state = {"pc", "i", "ti", "last_param"} /\ DOMAIN tty = DOMAIN Settings
      /\ state.i = 1 /\ state.last_param = "NULL"
  BY <1>1 DEF SttyInv
<1>3. CASE Exit(1)
  BY <1>1, <1>3, SttyExits
<1>4. CASE Terminal /\ cmd.form = "-g" /\ Exit(0)
  BY <1>1, <1>4, SttyExits
<1>5. CASE /\ Terminal /\ cmd.form \in {"compact", "operands"}
           /\ state' = [state EXCEPT !.pc = cmd.form, !.ti = tty]
           /\ UNCHANGED <<status, exit_status>>
  <2>1. /\ DOMAIN state' = DOMAIN state /\ state'.pc = cmd.form /\ state'.ti = tty /\ state'.i = 1
        /\ state'.last_param = "NULL" /\ status' = "running"
    BY <1>1, <1>2, <1>5
  <2>2. ParamsDone(state.ti, state.i)'
    BY <1>1, <2>1 DEF ParamsDone
  <2>3. cmd.form = "operands" => SttyParams'
    <3>1. Len(cmd.args) \in Nat
      BY <1>1, SttyOperands
    <3>2. 1 \in 1..(Len(cmd.args) + 1)
      BY <3>1
    <3> QED BY <2>1, <2>2, <3>2 DEF SttyParams
  <2> QED BY <1>1, <1>2, <1>5, <2>1, <2>3 DEF SttyInv, Terminal
<1> QED BY <1>3, <1>4, <1>5 DEF stty_get

LEMMA SttyCompactKept ==
  ASSUME TypeInv, SttyInv, cmd' = cmd, UNCHANGED fd, stty_set_compact
  PROVE  SttyInv'
<1>1. cmd.util = "stty" /\ status = "running" /\ state.pc = "compact" /\ UNCHANGED <<tty, seen>>
  BY DEF stty_set_compact, At, Running
<1>2. /\ DOMAIN state = {"pc", "i", "ti", "last_param"} /\ DOMAIN tty = DOMAIN Settings
      /\ Terminal /\ cmd.form = "compact" /\ state.ti = seen
  BY <1>1 DEF SttyInv
<1>3. CASE Exit(1)
  BY <1>1, <1>3, SttyExits
<1>4. ASSUME NEW junk \in [CChars \ Saved -> {0, 1}],
             state' = [state EXCEPT !.pc = "tcsetattr", !.ti =
               [s \in DOMAIN tty |-> IF s \in Saved THEN cmd.saved[s]
                                     ELSE IF s \in CChars THEN junk[s] ELSE state.ti[s]]],
             UNCHANGED <<status, exit_status>>
      PROVE  SttyInv'
  <2>1. /\ DOMAIN state' = DOMAIN state /\ state'.pc = "tcsetattr" /\ status' = "running"
        /\ state'.ti = [s \in DOMAIN tty |-> IF s \in Saved THEN cmd.saved[s]
                                     ELSE IF s \in CChars THEN junk[s] ELSE state.ti[s]]
    BY <1>1, <1>2, <1>4
  <2>2. NamedSettings' = CChars \cup Saved
    BY <1>1, <1>2 DEF NamedSettings
  <2>3. ASSUME NEW s \in DOMAIN Settings, s \notin CChars \cup Saved
        PROVE  state'.ti[s] = seen[s]
    BY <1>2, <2>1, <2>3
  <2>4. ASSUME NEW s \in Saved PROVE state'.ti[s] = cmd.saved[s]
    BY <1>2, <2>1, SettingsAssumption
  <2>5. SttyReady'
    BY <1>1, <1>2, <2>2, <2>3, <2>4 DEF SttyReady
  <2> QED BY <1>1, <1>2, <2>1, <2>5 DEF SttyInv, Terminal
<1> QED BY <1>1, <1>3, <1>4 DEF stty_set_compact

LEMMA AtPush ==
  ASSUME SttyInv, stty_push_ti
  PROVE  /\ cmd.util = "stty" /\ status = "running" /\ SttyReady /\ Terminal
         /\ DOMAIN state = {"pc", "i", "ti", "last_param"}
         /\ DOMAIN tty = DOMAIN Settings /\ DOMAIN state.ti = DOMAIN Settings
BY DEF stty_push_ti, At, Running, SttyInv

LEMMA SttyPushKept ==
  ASSUME TypeInv, SttyInv, cmd' = cmd, UNCHANGED fd, stty_push_ti
  PROVE  SttyInv'
<1>1. /\ cmd.util = "stty" /\ status = "running" /\ SttyReady /\ Terminal
      /\ DOMAIN state = {"pc", "i", "ti", "last_param"}
      /\ DOMAIN tty = DOMAIN Settings /\ DOMAIN state.ti = DOMAIN Settings
  BY AtPush
<1>2. CASE UNCHANGED tty /\ Exit(1)
  BY <1>1, <1>2, SttyExits
<1>3. CASE tty' = state.ti /\ Exit(0) /\ Works
  <2>1. state' = state /\ status' = "exited" /\ exit_status' = 0
    BY <1>3 DEF Exit
  <2>2. NamedSettings' = NamedSettings /\ \A s : SettingAsked(s)' = SettingAsked(s)
    BY DEF NamedSettings, SettingAsked, Concerns, Consumed
  <2>3. AllSet'
    BY <1>1, <1>3, <2>2 DEF AllSet, SttyReady
  <2>4. SttyStatus'
    BY <1>1, <2>1, <2>3 DEF SttyStatus, Terminal
  <2> QED BY <1>1, <1>3, <2>1, <2>4 DEF SttyInv
<1>4. ASSUME NEW some \in SUBSET {s \in DOMAIN tty : tty[s] # state.ti[s]},
             tty' = [s \in DOMAIN tty |-> IF s \in some THEN state.ti[s] ELSE tty[s]],
             Exit(0), Fault
      PROVE  SttyInv'
  <2>1. state' = state /\ status' = "exited" /\ exit_status' = 0
    BY <1>4 DEF Exit
  <2>2. faults' # 0
    BY <1>4 DEF Fault, TypeInv
  <2>3. SttyStatus'
    BY <1>1, <2>1, <2>2 DEF SttyStatus, Terminal
  <2> QED BY <1>1, <1>4, <2>1, <2>3 DEF SttyInv
<1> QED BY <1>2, <1>3, <1>4 DEF stty_push_ti

LEMMA SttyKept ==
  ASSUME TypeInv, SttyInv, cmd' = cmd, stty PROVE SttyInv'
<1>1. UNCHANGED fd
  BY DEF stty, own
<1>2. CASE stty_get
  BY <1>1, <1>2, SttyGetKept
<1>3. CASE stty_set_compact
  BY <1>1, <1>3, SttyCompactKept
<1>4. CASE stty_params /\ Works /\ UNCHANGED <<tty, seen>>
  BY <1>1, <1>4, SttyParamsKept
<1>5. CASE stty_push_ti
  BY <1>1, <1>5, SttyPushKept
<1> QED BY <1>2, <1>3, <1>4, <1>5 DEF stty

(* A setting that stty changes is one it was asked about, or goes back to *)
(* what it has read.                                                      *)
LEMMA SttySets ==
  ASSUME TypeInv, SttyInv, stty, tty' # tty
  PROVE  /\ status' = "exited" /\ exit_status' = 0 /\ cmd.util = "stty"
         /\ \A s \in DOMAIN tty : tty'[s] # tty[s] => s \in NamedSettings \/ tty'[s] = seen[s]
<1>1. stty_push_ti
  BY SttyFrame
<1>2. /\ cmd.util = "stty" /\ SttyReady /\ DOMAIN tty = DOMAIN Settings
  BY <1>1, AtPush
<1>3. status' = "exited" /\ exit_status' = 0
  BY <1>1 DEF stty_push_ti, Exit
<1>4. \A s \in DOMAIN tty : tty'[s] = tty[s] \/ tty'[s] = state.ti[s]
  BY <1>1 DEF stty_push_ti
<1> QED BY <1>2, <1>3, <1>4 DEF SttyReady

-----------------------------------------------------------------------------
(***************************************************************************)
(* mesg: what it is about to set is the mode it has read, but for the      *)
(* write permission.                                                       *)
(***************************************************************************)
MesgInv ==
  cmd.util = "mesg" =>
    /\ DOMAIN state = {"pc", "st_mode"}
    /\ DOMAIN tty = DOMAIN Settings /\ tty.write \in {0, 1}
    /\ status \in {"running", "exited"}
    /\ status = "running" /\ state.pc = "fchmod" =>
         state.st_mode.write = Wanted /\ state.st_mode.owner = seen.owner
    /\ status = "exited" => MesgStatus

LEMMA MesgInit == Init => MesgInv
<1> SUFFICES ASSUME Init, cmd.util = "mesg" PROVE MesgInv
  BY DEF MesgInv
<1>1. state = MesgStart
  BY DEF Init, LaunchUtils, ControlStart
<1> QED BY <1>1, SettingsAssumption DEF Init, MesgInv, MesgStart

LEMMA MesgFstatKept ==
  ASSUME TypeInv, MesgInv, cmd' = cmd, UNCHANGED fd, mesg_fstat
  PROVE  MesgInv'
<1>1. cmd.util = "mesg" /\ status = "running" /\ UNCHANGED tty /\ seen' = tty
  BY DEF mesg_fstat, At, Running
<1>2. DOMAIN state = {"pc", "st_mode"} /\ DOMAIN tty = DOMAIN Settings /\ tty.write \in {0, 1}
  BY <1>1 DEF MesgInv
<1>3. Answer(tty.write) = 1 - tty.write /\ Answer(tty.write) # 2
  BY <1>2 DEF Answer
<1>4. ASSUME NEW rc, Exit(rc),
             rc = Answer(tty.write) \/ (rc = 2 /\ ((\A d \in 0..2 : fd[d] # "tty") \/ Fault))
      PROVE  MesgInv'
  <2>1. state' = state /\ status' = "exited" /\ exit_status' = rc
    BY <1>4 DEF Exit
  <2>2. Fault => faults' > 0
    BY DEF Fault, TypeInv
  <2>3. MesgStatus'
    BY <1>1, <1>3, <1>4, <2>1, <2>2 DEF MesgStatus
  <2> QED BY <1>1, <1>2, <2>1, <2>3 DEF MesgInv
<1>5. CASE \A d \in 0..2 : fd[d] # "tty" /\ Exit(2) /\ Works
  <2>1. Exit(2)
    BY <1>5
  <2> QED BY <1>4, <1>5, <2>1
<1>6. CASE Fault /\ Exit(2)
  BY <1>4, <1>6
<1>7. CASE Exit(Answer(tty.write))
  BY <1>4, <1>7
<1>8. CASE /\ state' = [pc |-> "fchmod", st_mode |-> [st_mode EXCEPT !.write = Wanted]]
           /\ UNCHANGED <<status, exit_status>>
  <2>1. /\ DOMAIN state' = {"pc", "st_mode"} /\ status' = "running"
        /\ state'.st_mode.write = Wanted /\ state'.st_mode.owner = tty.owner
    BY <1>1, <1>8 DEF st_mode
  <2> QED BY <1>1, <1>2, <2>1 DEF MesgInv, Wanted
<1> QED BY <1>5, <1>6, <1>7, <1>8 DEF mesg_fstat

LEMMA MesgSets ==
  ASSUME TypeInv, MesgInv, mesg_fchmod, tty' # tty
  PROVE  /\ status' = "exited" /\ exit_status' = 1 - tty'.write /\ cmd.util = "mesg"
         /\ tty'.write \in {0, 1} /\ DOMAIN tty' = DOMAIN Settings
         /\ \A s \in DOMAIN tty : tty'[s] # tty[s] => s \in NamedSettings \/ tty'[s] = seen[s]
<1>1. /\ cmd.util = "mesg" /\ status = "running" /\ state.pc = "fchmod"
      /\ tty' = [tty EXCEPT !.write = state.st_mode.write, !.owner = state.st_mode.owner]
      /\ Exit(Answer(Wanted))
  BY DEF mesg_fchmod, At, Running
<1>2. /\ DOMAIN tty = DOMAIN Settings
      /\ state.st_mode.write = Wanted /\ state.st_mode.owner = seen.owner
  BY <1>1 DEF MesgInv
<1>3. tty'.write = Wanted
  BY <1>1, <1>2, SettingsAssumption
<1>4. Wanted \in {0, 1} /\ Answer(Wanted) = 1 - Wanted
  BY DEF Wanted, Answer
<1>5. ASSUME NEW s \in DOMAIN tty, tty'[s] # tty[s]
      PROVE  s \in NamedSettings \/ tty'[s] = seen[s]
  <2>1. CASE s = "write"
    BY <1>1, <2>1 DEF NamedSettings
  <2>2. CASE s = "owner"
    BY <1>1, <1>2, <2>2, SettingsAssumption
  <2>3. CASE s \notin {"write", "owner"}
    BY <1>1, <1>5, <2>3
  <2> QED BY <2>1, <2>2, <2>3
<1> QED BY <1>1, <1>2, <1>3, <1>4, <1>5 DEF Exit

LEMMA MesgFchmodKept ==
  ASSUME TypeInv, MesgInv, cmd' = cmd, UNCHANGED fd, mesg_fchmod
  PROVE  MesgInv'
<1>1. cmd.util = "mesg" /\ status = "running" /\ state.pc = "fchmod"
  BY DEF mesg_fchmod, At, Running
<1>2. /\ DOMAIN state = {"pc", "st_mode"} /\ DOMAIN tty = DOMAIN Settings /\ tty.write \in {0, 1}
      /\ state.st_mode.write = Wanted /\ state.st_mode.owner = seen.owner
  BY <1>1 DEF MesgInv
<1>3. CASE UNCHANGED tty /\ Exit(2) /\ Fault
  <2>1. state' = state /\ status' = "exited" /\ exit_status' = 2
    BY <1>3 DEF Exit
  <2>2. faults' > 0
    BY <1>3 DEF Fault, TypeInv
  <2> QED BY <1>1, <1>2, <1>3, <2>1, <2>2 DEF MesgInv, MesgStatus
<1>4. CASE /\ tty' = [tty EXCEPT !.write = state.st_mode.write, !.owner = state.st_mode.owner]
           /\ Exit(Answer(Wanted))
  <2>1. state' = state /\ status' = "exited" /\ exit_status' = Answer(Wanted)
    BY <1>4 DEF Exit
  <2>2. DOMAIN tty' = DOMAIN Settings /\ tty'.write = Wanted
    BY <1>2, <1>4, SettingsAssumption
  <2>3. Wanted \in {0, 1} /\ Answer(Wanted) = 1 - Wanted /\ Answer(Wanted) # 2
    BY DEF Wanted, Answer
  <2> QED BY <1>1, <1>2, <2>1, <2>2, <2>3 DEF MesgInv, MesgStatus
<1> QED BY <1>3, <1>4 DEF mesg_fchmod

LEMMA MesgKept ==
  ASSUME TypeInv, MesgInv, cmd' = cmd, mesg PROVE MesgInv'
<1>1. UNCHANGED fd
  BY DEF mesg, own
<1> QED BY <1>1, MesgFstatKept, MesgFchmodKept DEF mesg

-----------------------------------------------------------------------------
(***************************************************************************)
(* renice never exits, and sets what it has read and the increment.        *)
(***************************************************************************)
ReniceInv == cmd.util = "renice" => status \in {"running", "aborted"}

LEMMA ReniceKept ==
  ASSUME ReniceInv, cmd' = cmd, renice PROVE ReniceInv'
BY DEF ReniceInv, renice, get_prio, set_prio, get_prio2, At, Running, Die, Goto

LEMMA ReniceSets ==
  ASSUME TypeInv, set_prio, NEW p \in Pids, nice_value'[p] # nice_value[p]
  PROVE  /\ cmd.util = "renice"
         /\ p = Val \/ (cmd.mode = "group" /\ p \in Group)
         /\ nice_value'[p] = Clamp(nice_value[p] + cmd.increment) \/ Stale(p)
<1>1. cmd.util = "renice" /\ cmd.mode \in {"process", "group"}
  <2>1. cmd.util = "renice"
    BY DEF set_prio, At, Running
  <2> QED BY <2>1, CommandsAssumption DEF TypeInv
<1>2. p \in Who /\ nice_value'[p] = Clamp(new_prio)
  BY DEF set_prio
<1>3. p = Val \/ (cmd.mode = "group" /\ p \in Group)
  BY <1>1, <1>2 DEF Who
<1>4. nice_value'[p] = Clamp(nice_value[p] + cmd.increment) \/ Stale(p)
  BY <1>2 DEF Stale, new_prio
<1> QED BY <1>1, <1>3, <1>4

(* A signal goes to a process that is named, and is the one asked for. *)
LEMMA KillSends ==
  ASSUME TypeInv, KillInv, deliver_signals, NEW p \in Pids, got'[p] # got[p]
  PROVE  cmd.util = "kill" /\ TimesNamed(p) > 0 /\ Last(got'[p]) \in SignalAsked(cmd.name)
<1> DEFINE operand == cmd.args[state.i]
<1>1. cmd.util = "kill" /\ KillSent /\ state.i \in DOMAIN cmd.args
  BY AtOperand DEF deliver_signals
<1>2. operand.kind = "pid" /\ p \in Receivers(operand.pid) /\ got'[p] = Append(got[p], state.signum)
  BY DEF deliver_signals
<1>3. Named(p, state.i)
  BY <1>2 DEF Named, Receivers
<1>4. TimesNamed(p) > 0
  BY <1>1, <1>3, SomeNamed
<1>5. Last(got'[p]) = state.signum
  <2>1. got[p] \in Seq(Int)
    BY DEF TypeInv
  <2>2. Len(got'[p]) = Len(got[p]) + 1 /\ Len(got[p]) \in Nat
    BY <1>2, <2>1
  <2>3. Append(got[p], state.signum)[Len(got[p]) + 1] = state.signum
    BY <2>1
  <2> QED BY <1>2, <2>2, <2>3 DEF Last
<1>6. state.signum \in SignalAsked(cmd.name)
  BY <1>1, SignalFound DEF KillSent
<1> QED BY <1>1, <1>4, <1>5, <1>6

-----------------------------------------------------------------------------
(***************************************************************************)
(* nohup, nice, env and time: the command is started once, and what ends a *)
(* utility before that is not 0.                                           *)
(***************************************************************************)
Replaced ==   \* the utility becomes its command
  /\ state.pc = "command" => launched # <<>>
  /\ state.pc # "command" => launched = <<>>
NohupInv ==
  /\ DOMAIN state = {"pc", "fd", "redirect_fd"} /\ Replaced
  /\ state.pc \in {"exec", "command"} => sighup = "ignored"
TimeInv ==
  /\ DOMAIN state = {"pc", "child", "child_status"}
  /\ state.child \in {"none", "forked", "command", "exited", "killed"}
  /\ state.pc = "main" <=> state.child = "none"
  /\ state.child \in {"none", "forked"} => launched = <<>>
  /\ state.child = "command" => launched # <<>>
  /\ state.child = "exited" /\ launched = <<>> => state.child_status # 0
LaunchInv ==
  cmd.util \in LaunchUtils =>
    /\ status \in {"running", "exited", "killed"}
    /\ status = "killed" => others > 0 /\ (cmd.util = "nohup" => launched = <<>>)
    /\ status = "exited" => LaunchStatus
    /\ status = "running" =>
         /\ cmd.util = "nohup" => NohupInv
         /\ cmd.util = "nice" => DOMAIN state = {"pc", "nice_inc"} /\ Replaced
         /\ cmd.util = "env" => DOMAIN state = {"pc"} /\ Replaced
         /\ cmd.util = "time" => TimeInv

LEMMA LaunchInit == Init => LaunchInv
<1> SUFFICES ASSUME Init, cmd.util \in LaunchUtils PROVE LaunchInv
  BY DEF LaunchInv
<1>1. state = LaunchStart
  BY DEF Init
<1>2. cmd.util = "nohup" => NohupInv
  BY <1>1 DEF Init, LaunchStart, NohupStart, NohupInv, Replaced
<1>3. cmd.util = "nice" => DOMAIN state = {"pc", "nice_inc"} /\ Replaced
  BY <1>1 DEF Init, LaunchStart, NiceStart, Replaced
<1>4. cmd.util = "env" => DOMAIN state = {"pc"} /\ Replaced
  BY <1>1 DEF Init, LaunchStart, EnvStart, Replaced
<1>5. cmd.util = "time" => TimeInv
  BY <1>1 DEF Init, LaunchStart, TimeStart, TimeInv
<1> QED BY <1>2, <1>3, <1>4, <1>5 DEF Init, LaunchInv

(* An end with a status that is not 0 tells enough, except of time's child. *)
LEMMA LaunchExits ==
  ASSUME LaunchInv, cmd.util \in LaunchUtils \ {"time"}, cmd' = cmd, NEW rc, Exit(rc),
         rc # 0 \/ launched' # <<>>
  PROVE  LaunchInv'
<1>1. status' = "exited" /\ exit_status' = rc
  BY DEF Exit
<1> QED BY <1>1 DEF LaunchInv, LaunchStatus

LEMMA BecomesKept ==
  ASSUME LaunchInv, cmd.util \in {"nohup", "nice", "env"}, cmd' = cmd, NEW argv, NEW failure, failure # 0,
         Becomes(argv, failure), status = "running", state.pc = "exec"
  PROVE  LaunchInv'
<1>1. CASE Exit(failure)
  BY <1>1, LaunchExits DEF LaunchUtils
<1>2. CASE execvp(argv) /\ Goto("command")
  <2>1. "pc" \in DOMAIN state /\ launched = <<>>
    BY DEF LaunchInv, NohupInv, Replaced, LaunchUtils
  <2>2. launched' = Append(<<>>, Launched(argv))
    BY <1>2, <2>1 DEF execvp
  <2>3. launched' # <<>>
    BY <2>2
  <2>4. state'.pc = "command" /\ DOMAIN state' = DOMAIN state /\ status' = "running"
    BY <1>2, <2>1 DEF Goto
  <2>5. cmd.util = "nohup" => NohupInv'
    BY <2>3, <2>4 DEF LaunchInv, NohupInv, Replaced, LaunchUtils, Becomes
  <2> QED BY <2>3, <2>4, <2>5 DEF LaunchInv, Replaced, LaunchUtils
<1> QED BY <1>1, <1>2 DEF Becomes

LEMMA NohupKept ==
  ASSUME LaunchInv, cmd' = cmd, nohup PROVE LaunchInv'
<1>1. cmd.util = "nohup" /\ status = "running"
  BY DEF nohup, Redirections, NoArguments, isatty, OpenAtHome, RedirectStdout, RedirectStderr, signal,
         At, Running
<1>2. NohupInv
  BY <1>1 DEF LaunchInv, LaunchUtils
<1>3. ASSUME Exit(NOHUP_ERR) PROVE LaunchInv'
  BY <1>1, <1>3, LaunchExits DEF NOHUP_ERR, LaunchUtils
<1>4. CASE Redirections /\ ~Exit(NOHUP_ERR)
  <2>1. launched' = launched /\ sighup' = sighup /\ state.pc \notin {"exec", "command"}
    BY <1>4 DEF Redirections, NoArguments, isatty, OpenAtHome, RedirectStdout, RedirectStderr, At
  <2>2. \/ Opened
        \/ Goto("home") \/ Goto("redirect_stderr") \/ Goto("signal")
        \/ /\ state' = [state EXCEPT !.pc = "redirect_stderr", !.redirect_fd = state.fd]
           /\ UNCHANGED <<status, exit_status>>
    BY <1>4 DEF Redirections, NoArguments, isatty, OpenAtHome, RedirectStdout, RedirectStderr
  <2>3. DOMAIN state' = DOMAIN state /\ state'.pc \notin {"exec", "command"} /\ status' = "running"
    BY <1>1, <1>2, <2>2 DEF Opened, Goto, NohupInv
  <2>4. NohupInv'
    BY <1>2, <2>1, <2>3 DEF NohupInv, Replaced
  <2> QED BY <1>1, <2>3, <2>4 DEF LaunchInv, LaunchUtils
<1>5. CASE signal
  <2>1. /\ launched' = launched /\ sighup' = "ignored" /\ state.pc = "signal"
        /\ state'.pc = "exec" /\ DOMAIN state' = DOMAIN state /\ status' = "running"
    BY <1>1, <1>2, <1>5 DEF signal, Goto, At, NohupInv
  <2>2. NohupInv'
    BY <1>2, <2>1 DEF NohupInv, Replaced
  <2> QED BY <1>1, <2>1, <2>2 DEF LaunchInv, LaunchUtils
<1>6. CASE At("nohup", "exec") /\ Becomes(cmd.words, NOHUP_ERR)
  <2>1. state.pc = "exec" /\ NOHUP_ERR # 0
    BY <1>6 DEF At, NOHUP_ERR
  <2> QED BY <1>1, <1>6, <2>1, BecomesKept
<1> QED BY <1>3, <1>4, <1>5, <1>6 DEF nohup

LEMMA NiceKept ==
  ASSUME LaunchInv, cmd' = cmd, nice PROVE LaunchInv'
<1>1. cmd.util = "nice" /\ status = "running"
  BY DEF nice, NiceOptions, SetNice, At, Running
<1>2. DOMAIN state = {"pc", "nice_inc"} /\ Replaced
  BY <1>1 DEF LaunchInv, LaunchUtils
<1>3. ASSUME NEW rc, rc # 0, Exit(rc) PROVE LaunchInv'
  BY <1>1, <1>3, LaunchExits DEF LaunchUtils
<1>4. CASE NiceOptions
  <2>1. CASE Usage
    BY <1>3, <2>1 DEF Usage
  <2>2. CASE ~Usage
    <3>1. /\ launched' = launched /\ state.pc = "parse_opt"
          /\ state'.pc = "nice" /\ DOMAIN state' = {"pc", "nice_inc"} /\ status' = "running"
      BY <1>1, <1>4, <2>2 DEF NiceOptions, At, own
    <3> QED BY <1>1, <1>2, <3>1 DEF LaunchInv, LaunchUtils, Replaced
  <2> QED BY <2>1, <2>2
<1>5. CASE SetNice
  <2>1. Exit(1) \/ Goto("exec")
    BY <1>5 DEF SetNice
  <2>2. CASE Goto("exec")
    <3>1. /\ launched' = launched /\ state.pc = "nice"
          /\ state'.pc = "exec" /\ DOMAIN state' = {"pc", "nice_inc"} /\ status' = "running"
      BY <1>1, <1>2, <1>5, <2>2 DEF SetNice, At, own, Goto
    <3> QED BY <1>1, <1>2, <3>1 DEF LaunchInv, LaunchUtils, Replaced
  <2> QED BY <1>3, <2>1, <2>2
<1>6. CASE At("nice", "exec") /\ Becomes(Operands(cmd.words), 1)
  <2>1. state.pc = "exec"
    BY <1>6 DEF At
  <2> QED BY <1>1, <1>6, <2>1, BecomesKept
<1> QED BY <1>4, <1>5, <1>6 DEF nice

LEMMA EnvKept ==
  ASSUME LaunchInv, cmd' = cmd, env PROVE LaunchInv'
<1>1. cmd.util = "env" /\ status = "running"
  BY DEF env, do_env, At, Running
<1>2. DOMAIN state = {"pc"} /\ Replaced
  BY <1>1 DEF LaunchInv, LaunchUtils
<1>3. CASE do_env /\ Usage
  BY <1>1, <1>3, LaunchExits DEF LaunchUtils, Usage
<1>4. CASE do_env /\ ~Usage
  <2>1. /\ launched' = launched /\ state.pc = "do_env"
        /\ state'.pc = "exec" /\ DOMAIN state' = {"pc"} /\ status' = "running"
    BY <1>1, <1>2, <1>4 DEF do_env, At, Goto
  <2> QED BY <1>1, <1>2, <2>1 DEF LaunchInv, LaunchUtils, Replaced
<1>5. CASE At("env", "exec") /\ Becomes(arg_list, 127)
  <2>1. state.pc = "exec"
    BY <1>5 DEF At
  <2> QED BY <1>1, <1>5, <2>1, BecomesKept
<1> QED BY <1>3, <1>4, <1>5 DEF env

LEMMA TimeKept ==
  ASSUME TypeInv, LaunchInv, cmd' = cmd, time PROVE LaunchInv'
<1>1. cmd.util = "time" /\ status = "running"
  BY DEF time, fork, do_child, do_wait, At, Running
<1>2. TimeInv
  BY <1>1 DEF LaunchInv, LaunchUtils
<1>3. CASE fork
  <2>1. state.pc = "main" /\ launched' = launched /\ state.child = "none"
    BY <1>2, <1>3 DEF fork, At, own, TimeInv
  <2>2. CASE Exit(1)
    <3>1. status' = "exited" /\ exit_status' = 1 /\ state' = state
      BY <2>2 DEF Exit
    <3>2. LaunchStatus'
      BY <1>1, <2>1, <3>1 DEF LaunchStatus
    <3> QED BY <1>1, <3>1, <3>2 DEF LaunchInv, LaunchUtils
  <2>3. CASE /\ state' = [pc |-> "do_wait", child |-> "forked", child_status |-> 0]
             /\ UNCHANGED <<status, exit_status>>
    <3>1. TimeInv'
      BY <1>2, <2>1, <2>3 DEF TimeInv
    <3> QED BY <1>1, <2>3, <3>1 DEF LaunchInv, LaunchUtils
  <2> QED BY <1>3, <2>2, <2>3 DEF fork
<1>4. CASE do_child
  <2>1. state.pc = "do_wait" /\ state.child = "forked" /\ launched = <<>>
    BY <1>2, <1>4 DEF do_child, At, TimeInv
  <2>2. CASE execvp(cmd.words) /\ Child("command", 0)
    <3>1. launched' = Append(<<>>, Launched(cmd.words))
      BY <2>1, <2>2 DEF execvp
    <3>2. launched' # <<>>
      BY <3>1
    <3>3. /\ DOMAIN state' = DOMAIN state /\ state'.pc = "do_wait" /\ state'.child = "command"
          /\ status' = "running"
      BY <1>1, <1>2, <2>1, <2>2 DEF Child, TimeInv
    <3>4. TimeInv'
      BY <1>2, <3>2, <3>3 DEF TimeInv
    <3> QED BY <1>1, <3>3, <3>4 DEF LaunchInv, LaunchUtils
  <2>3. CASE execvpFails(cmd.words) /\ Child("exited", 126)
    <3>1. /\ DOMAIN state' = DOMAIN state /\ state'.pc = "do_wait" /\ state'.child = "exited"
          /\ state'.child_status = 126 /\ status' = "running"
      BY <1>1, <1>2, <2>1, <2>3 DEF Child, TimeInv
    <3>2. TimeInv'
      BY <1>2, <3>1 DEF TimeInv
    <3> QED BY <1>1, <3>1, <3>2 DEF LaunchInv, LaunchUtils
  <2> QED BY <1>4, <2>2, <2>3 DEF do_child
<1>5. CASE do_wait
  <2>1. state.child \in {"exited", "killed"} /\ launched' = launched
    BY <1>5 DEF do_wait, own
  <2>2. CASE Exit(WEXITSTATUS) /\ Works
    <3>1. state' = state /\ status' = "exited" /\ exit_status' = WEXITSTATUS
      BY <2>2 DEF Exit
    <3>2. LaunchStatus'
      BY <1>1, <1>2, <2>1, <3>1 DEF LaunchStatus, WEXITSTATUS, TimeInv
    <3> QED BY <1>1, <3>1, <3>2 DEF LaunchInv, LaunchUtils
  <2>3. CASE Exit(1) /\ Fault
    <3>1. state' = state /\ status' = "exited" /\ exit_status' = 1
      BY <2>3 DEF Exit
    <3>2. faults' # 0
      BY <2>3 DEF Fault, TypeInv
    <3>3. LaunchStatus'
      BY <1>1, <2>1, <3>1, <3>2 DEF LaunchStatus
    <3> QED BY <1>1, <3>1, <3>3 DEF LaunchInv, LaunchUtils
  <2> QED BY <1>5, <2>2, <2>3 DEF do_wait
<1> QED BY <1>3, <1>4, <1>5 DEF time

(* The command ends, is killed, or the terminal hangs up. *)
LEMMA LaunchOtherKept ==
  ASSUME TypeInv, LaunchInv, cmd.util \in LaunchUtils, Command \/ Other PROVE LaunchInv'
<1>1. CASE CommandEnds
  <2>1. /\ status = "running" /\ launched' = launched /\ sighup' = sighup /\ cmd' = cmd
    BY <1>1 DEF CommandEnds, own
  <2>2. CASE cmd.util = "time"
    <3>1. TimeInv /\ state.child = "command"
      BY <1>1, <2>1, <2>2 DEF CommandEnds, LaunchInv, LaunchUtils
    <3>2. /\ DOMAIN state' = DOMAIN state /\ state'.pc = state.pc /\ state'.child = "exited"
          /\ status' = "running"
      BY <1>1, <2>1, <2>2, <3>1 DEF CommandEnds, Child, TimeInv
    <3>3. TimeInv'
      BY <2>1, <3>1, <3>2 DEF TimeInv
    <3> QED BY <2>1, <2>2, <3>2, <3>3 DEF LaunchInv, LaunchUtils
  <2>3. CASE cmd.util # "time"
    <3>1. PICK rc \in {0, 1, 126} : Exit(rc)
      BY <1>1, <2>3 DEF CommandEnds
    <3>2. state.pc = "command"
      BY <1>1, <2>3 DEF CommandEnds
    <3>3. launched # <<>>
      BY <2>1, <2>3, <3>2 DEF LaunchInv, LaunchUtils, NohupInv, Replaced
    <3> QED BY <2>1, <2>3, <3>1, <3>3, LaunchExits
  <2> QED BY <2>2, <2>3
<1>2. CASE CommandKilled
  <2>1. /\ cmd.util = "time" /\ status = "running" /\ launched' = launched /\ cmd' = cmd
        /\ state.child \in {"forked", "command"}
    BY <1>2 DEF CommandKilled, Running, own
  <2>2. TimeInv
    BY <2>1 DEF LaunchInv, LaunchUtils
  <2>3. /\ DOMAIN state' = DOMAIN state /\ state'.pc = state.pc /\ state'.child = "killed"
        /\ status' = "running"
    BY <1>2, <2>1, <2>2 DEF CommandKilled, Child, TimeInv
  <2>4. TimeInv'
    BY <2>1, <2>2, <2>3 DEF TimeInv
  <2> QED BY <2>1, <2>3, <2>4 DEF LaunchInv, LaunchUtils
<1>3. CASE Hangup
  <2>1. /\ status = "running" /\ launched' = launched /\ cmd' = cmd /\ sighup = "default"
        /\ status' = "killed" /\ others' = others + 1
    BY <1>3 DEF Hangup, Die, own
  <2>2. cmd.util = "nohup" => launched = <<>>
    BY <2>1 DEF LaunchInv, LaunchUtils, NohupInv, Replaced
  <2>3. others' > 0
    BY <2>1 DEF TypeInv
  <2> QED BY <2>1, <2>2, <2>3 DEF LaunchInv
<1>4. CASE ProcessEnds \/ ProcessReniced \/ TerminalSet
  BY <1>4 DEF ProcessEnds, ProcessReniced, TerminalSet, Running, LaunchUtils
<1> QED BY <1>1, <1>2, <1>3, <1>4 DEF Command, Other

-----------------------------------------------------------------------------
(***************************************************************************)
(* What others do while a utility of Controls is at work.                  *)
(***************************************************************************)
LEMMA ControlOther ==
  ASSUME Command \/ Other, cmd.util \notin LaunchUtils
  PROVE  /\ UNCHANGED <<cmd, state, status, exit_status, fd, seen, faults>> /\ status = "running"
         /\ (ProcessEnds \/ ProcessReniced \/ TerminalSet)
<1>1. ProcessEnds \/ ProcessReniced \/ TerminalSet
  BY DEF Command, CommandEnds, Other, CommandKilled, Hangup, Running, LaunchUtils
<1>2. Interferes /\ status = "running"
  BY <1>1 DEF ProcessEnds, ProcessReniced, TerminalSet, Running
<1> QED BY <1>1, <1>2 DEF Interferes, own

LEMMA KillOtherKept ==
  ASSUME TypeInv, KillInv, cmd.util = "kill", Command \/ Other PROVE KillInv'
<1>1. UNCHANGED <<cmd, state, status, exit_status, fd, seen, faults>> /\ status = "running"
  BY ControlOther DEF LaunchUtils
<1>2. live' \subseteq live /\ UNCHANGED got
  BY OtherFrame, CommandFrame DEF Command, processes
<1>3. \A p, n : NamedBefore(p, n)' = NamedBefore(p, n')
  BY <1>1 DEF NamedBefore, Named
<1>4. KillSent => KillSent'
  BY <1>1, <1>2, <1>3 DEF KillSent
<1> QED BY <1>1, <1>2, <1>4 DEF KillInv, KillBegins

LEMMA SttyOtherKept ==
  ASSUME TypeInv, SttyInv, cmd.util = "stty", Command \/ Other PROVE SttyInv'
<1>1. UNCHANGED <<cmd, state, status, exit_status, fd, seen, faults>> /\ status = "running"
  BY ControlOther DEF LaunchUtils
<1>2. TerminalSet
  BY ControlOther DEF LaunchUtils, ProcessEnds, ProcessReniced, Running
<1>3. DOMAIN tty' = DOMAIN tty
  BY <1>2 DEF TerminalSet
<1>4. \A s, j, n : LastConcern(s, j, n)' = LastConcern(s, j, n')
  BY <1>1 DEF LastConcern, Concerns, Consumed
<1>5. SttyParams => SttyParams'
  <2>1. ParamsDone(state.ti, state.i) => ParamsDone(state.ti, state.i)'
    BY <1>1 DEF ParamsDone, LastConcern, ValueOf, Concerns, Consumed
  <2> QED BY <1>1, <2>1 DEF SttyParams, Special
<1>6. SttyReady => SttyReady'
  <2>1. NamedSettings' = NamedSettings /\ \A s : SettingAsked(s)' = SettingAsked(s)
    BY <1>1 DEF NamedSettings, SettingAsked, Concerns, Consumed
  <2> QED BY <1>1, <2>1 DEF SttyReady
<1> QED BY <1>1, <1>3, <1>5, <1>6 DEF SttyInv, Terminal

LEMMA MesgOtherKept ==
  ASSUME TypeInv, MesgInv, cmd.util = "mesg", Command \/ Other PROVE MesgInv'
<1>1. UNCHANGED <<cmd, state, status, exit_status, fd, seen, faults>> /\ status = "running"
  BY ControlOther DEF LaunchUtils
<1>2. TerminalSet
  BY ControlOther DEF LaunchUtils, ProcessEnds, ProcessReniced, Running
<1>3. PICK s \in DOMAIN tty : tty' = [tty EXCEPT ![s] = IF s = "size" THEN 13 - @ ELSE 1 - @]
  BY <1>2 DEF TerminalSet
<1>4. DOMAIN tty = DOMAIN Settings /\ tty.write \in {0, 1}
  BY <1>1 DEF MesgInv
<1>5. DOMAIN tty' = DOMAIN Settings
  BY <1>3, <1>4
<1>6. tty'.write \in {0, 1}
  <2>1. CASE s = "write"
    BY <1>3, <1>4, <2>1
  <2>2. CASE s # "write"
    BY <1>3, <1>4, <2>2
  <2> QED BY <2>1, <2>2
<1> QED BY <1>1, <1>5, <1>6 DEF MesgInv, Wanted

-----------------------------------------------------------------------------
(***************************************************************************)
(* The invariant, one part for each utility, and what follows from it.     *)
(***************************************************************************)
IInv == TypeInv /\ LaunchInv /\ KillInv /\ ReniceInv /\ SttyInv /\ MesgInv

LEMMA SessionInit == Init => IInv
<1>1. Init => ReniceInv
  BY DEF Init, ReniceInv
<1> QED BY <1>1, TypeInit, LaunchInit, KillInit, SttyInit, MesgInit DEF IInv

LEMMA SessionNext == IInv /\ [Next]_vars => IInv'
<1> SUFFICES ASSUME IInv, [Next]_vars PROVE IInv'
  OBVIOUS
<1>1. TypeInv'
  BY TypeKept DEF IInv
<1>2. CASE LaunchStep
  <2>1. cmd' = cmd
    BY <1>2, LaunchFrame DEF IInv
  <2>2. cmd.util \in LaunchUtils
    BY <1>2 DEF LaunchStep, nohup, Redirections, NoArguments, isatty, OpenAtHome, RedirectStdout,
                RedirectStderr, signal, nice, NiceOptions, SetNice, env, do_env, time, fork, do_child,
                do_wait, At, Running, LaunchUtils
  <2>3. LaunchInv'
    BY <1>2, <2>1, NohupKept, NiceKept, EnvKept, TimeKept DEF LaunchStep, IInv
  <2> QED BY <1>1, <2>1, <2>2, <2>3 DEF IInv, LaunchUtils, KillInv, ReniceInv, SttyInv, MesgInv
<1>3. CASE ControlStep
  <2>1. cmd' = cmd
    BY <1>3 DEF ControlStep
  <2>2. CASE kill
    <3>1. cmd.util = "kill"
      BY <2>2, KillFrame DEF IInv
    <3>2. KillInv'
      BY <2>1, <2>2, KillKept DEF IInv
    <3> QED BY <1>1, <2>1, <3>1, <3>2 DEF IInv, LaunchInv, LaunchUtils, ReniceInv, SttyInv, MesgInv
  <2>3. CASE renice
    <3>1. cmd.util = "renice"
      BY <2>3, ReniceFrame DEF IInv
    <3>2. ReniceInv'
      BY <2>1, <2>3, ReniceKept DEF IInv
    <3> QED BY <1>1, <2>1, <3>1, <3>2 DEF IInv, LaunchInv, LaunchUtils, KillInv, SttyInv, MesgInv
  <2>4. CASE stty
    <3>1. cmd.util = "stty"
      BY <2>4, SttyFrame DEF IInv
    <3>2. SttyInv'
      BY <2>1, <2>4, SttyKept DEF IInv
    <3> QED BY <1>1, <2>1, <3>1, <3>2 DEF IInv, LaunchInv, LaunchUtils, KillInv, ReniceInv, MesgInv
  <2>5. CASE mesg
    <3>1. cmd.util = "mesg"
      BY <2>5, MesgFrame DEF IInv
    <3>2. MesgInv'
      BY <2>1, <2>5, MesgKept DEF IInv
    <3> QED BY <1>1, <2>1, <3>1, <3>2 DEF IInv, LaunchInv, LaunchUtils, KillInv, ReniceInv, SttyInv
  <2> QED BY <1>3, <2>2, <2>3, <2>4, <2>5 DEF ControlStep
<1>4. CASE Command \/ Other
  <2>1. cmd' = cmd
    BY <1>4, OtherFrame, CommandFrame DEF IInv, Command
  <2>2. CASE cmd.util \in LaunchUtils
    <3>1. LaunchInv'
      BY <1>4, <2>2, LaunchOtherKept DEF IInv
    <3> QED BY <1>1, <2>1, <2>2, <3>1 DEF IInv, LaunchUtils, KillInv, ReniceInv, SttyInv, MesgInv
  <2>3. CASE cmd.util \notin LaunchUtils
    <3>1. UNCHANGED status
      BY <1>4, <2>3, ControlOther
    <3>2. LaunchInv' /\ ReniceInv'
      BY <2>1, <2>3, <3>1 DEF IInv, LaunchInv, ReniceInv
    <3>3. KillInv'
      BY <1>4, <2>1, KillOtherKept DEF IInv, KillInv
    <3>4. SttyInv'
      BY <1>4, <2>1, SttyOtherKept DEF IInv, SttyInv
    <3>5. MesgInv'
      BY <1>4, <2>1, MesgOtherKept DEF IInv, MesgInv
    <3> QED BY <1>1, <3>2, <3>3, <3>4, <3>5 DEF IInv
  <2> QED BY <2>2, <2>3
<1>5. CASE UNCHANGED vars
  <2>1. /\ UNCHANGED <<cmd, state, status, exit_status, others, faults, tty, seen, live, got, nice_value>>
        /\ UNCHANGED <<fd, sighup, launched>>
    BY <1>5 DEF vars, own, processes, terminal
  <2>2. LaunchInv'
    BY <2>1 DEF IInv, LaunchInv, LaunchStatus, NohupInv, TimeInv, Replaced
  <2>3. KillInv'
    <3>1. KillStatus => KillStatus'
      BY <2>1 DEF KillStatus, TimesNamed
    <3>2. KillSent => KillSent'
      BY <2>1 DEF KillSent, NamedBefore, Named
    <3> QED BY <2>1, <3>1, <3>2 DEF IInv, KillInv, KillBegins
  <2>4. SttyInv'
    <3>1. NamedSettings' = NamedSettings /\ \A s : SettingAsked(s)' = SettingAsked(s)
      BY <2>1 DEF NamedSettings, SettingAsked, Concerns, Consumed
    <3>2. SttyStatus => SttyStatus'
      BY <2>1, <3>1 DEF SttyStatus, AllSet, Terminal
    <3>3. SttyReady => SttyReady'
      BY <2>1, <3>1 DEF SttyReady
    <3>4. SttyParams => SttyParams'
      BY <2>1 DEF SttyParams, ParamsDone, LastConcern, ValueOf, Concerns, Consumed, Special
    <3> QED BY <2>1, <3>2, <3>3, <3>4 DEF IInv, SttyInv, Terminal
  <2>5. MesgInv' /\ ReniceInv'
    BY <2>1 DEF IInv, MesgInv, MesgStatus, Wanted, ReniceInv
  <2> QED BY <1>1, <2>2, <2>3, <2>4, <2>5 DEF IInv
<1> QED BY <1>2, <1>3, <1>4, <1>5 DEF Next, Program, Done

LEMMA SessionInductive == Spec => []IInv
<1> QED BY SessionInit, SessionNext, PTL DEF Spec

(* What a status says of each utility. *)
LEMMA InvTells == IInv => StatusTells
<1> SUFFICES ASSUME IInv PROVE StatusTells
  OBVIOUS
<1>1. cmd.util \in LaunchUtils \cup ControlUtils
  BY CommandsAssumption DEF IInv, TypeInv
<1>2. CASE cmd.util \in LaunchUtils
  BY <1>2 DEF IInv, LaunchInv, StatusTells, LaunchUtils
<1>3. CASE cmd.util = "kill"
  BY <1>3 DEF IInv, KillInv, StatusTells, LaunchUtils
<1>4. CASE cmd.util = "renice"
  BY <1>4 DEF IInv, ReniceInv, StatusTells, LaunchUtils
<1>5. CASE cmd.util = "stty"
  BY <1>5 DEF IInv, SttyInv, StatusTells, LaunchUtils
<1>6. CASE cmd.util = "mesg"
  BY <1>6 DEF IInv, MesgInv, StatusTells, LaunchUtils
<1> QED BY <1>1, <1>2, <1>3, <1>4, <1>5, <1>6 DEF ControlUtils

(***************************************************************************)
(* For any commands, settings, lists of signals and nice values: whatever  *)
(* others do meanwhile, the status with which nohup, nice, env, time, kill,*)
(* stty and mesg end says what they have done (main of each, do_wait,      *)
(* deliver_signals, stty_push_ti), and renice never ends by itself.        *)
(***************************************************************************)
THEOREM StatusTellsWhatWasDone == Spec => []StatusTells
<1> QED BY SessionInductive, InvTells, PTL

(* The property of a step that ActsAsAsked states of every step. *)
ActsNow ==
  others' = others =>
    /\ \A p \in Pids : got'[p] # got[p] =>
         cmd.util = "kill" /\ TimesNamed(p) > 0 /\ Last(got'[p]) \in SignalAsked(cmd.name)
    /\ \A p \in Pids : nice_value'[p] # nice_value[p] =>
         \/ cmd.util = "nice" /\ p = self
         \/ /\ cmd.util = "renice"
            /\ p = Val \/ (cmd.mode = "group" /\ p \in Group)
            /\ nice_value'[p] = Clamp(nice_value[p] + cmd.increment) \/ Stale(p)
    /\ tty' # tty =>
         /\ status' = "exited" /\ exit_status' = (IF cmd.util = "mesg" THEN 1 - tty'.write ELSE 0)
         /\ \A s \in DOMAIN tty :
              tty'[s] # tty[s] => s \in NamedSettings \/ tty'[s] = seen[s]

LEMMA StepsAct == IInv /\ [Next]_vars => [ActsNow]_vars
<1> SUFFICES ASSUME IInv, Next PROVE ActsNow \/ UNCHANGED vars
  OBVIOUS
<1>1. CASE LaunchStep
  <2>1. UNCHANGED <<tty, got>>
    BY <1>1, LaunchFrame DEF IInv
  <2>2. \A p \in Pids : nice_value'[p] # nice_value[p] => cmd.util = "nice" /\ p = self
    BY <1>1, LaunchFrame DEF IInv
  <2> QED BY <2>1, <2>2 DEF ActsNow
<1>2. CASE ControlStep
  <2>1. CASE kill
    <3>1. UNCHANGED <<nice_value, tty>> /\ (deliver_signals \/ UNCHANGED got)
      BY <2>1, KillFrame DEF IInv
    <3> QED BY <3>1, KillSends DEF IInv, ActsNow
  <2>2. CASE renice
    <3>1. UNCHANGED <<got, tty>> /\ (set_prio \/ UNCHANGED nice_value)
      BY <2>2, ReniceFrame DEF IInv
    <3> QED BY <3>1, ReniceSets DEF IInv, ActsNow
  <2>3. CASE stty
    <3>1. UNCHANGED <<got, nice_value>>
      BY <2>3, SttyFrame DEF IInv, processes
    <3> QED BY <2>3, <3>1, SttySets DEF IInv, ActsNow
  <2>4. CASE mesg
    <3>1. UNCHANGED <<got, nice_value>> /\ (mesg_fchmod \/ UNCHANGED tty)
      BY <2>4, MesgFrame DEF IInv, processes
    <3> QED BY <3>1, MesgSets DEF IInv, ActsNow
  <2> QED BY <1>2, <2>1, <2>2, <2>3, <2>4 DEF ControlStep
<1>3. CASE Command
  BY <1>3, CommandFrame DEF Command, processes, terminal, ActsNow
<1>4. CASE Other
  <2>1. others' # others
    BY <1>4, OtherFrame DEF IInv, TypeInv
  <2> QED BY <2>1 DEF ActsNow
<1>5. CASE Done
  BY <1>5 DEF Done
<1> QED BY <1>1, <1>2, <1>3, <1>4, <1>5 DEF Next, Program

(***************************************************************************)
(* For any commands, settings, lists of signals and nice values: no step   *)
(* of a utility changes another process or the terminal in a way that was  *)
(* not asked for, whatever others have changed since it looked             *)
(* (deliver_signals, renice_actor, stty_push_ti, main of nice and mesg).   *)
(***************************************************************************)
THEOREM NothingElseIsChanged == Spec => ActsAsAsked
<1>1. IInv /\ [Next]_vars => [ActsNow]_vars
  BY StepsAct
<1>2. Spec => [][ActsNow]_vars
  BY <1>1, SessionInductive, PTL DEF Spec
<1> QED BY <1>2 DEF ActsAsAsked, ActsNow
-----------------------------------------------------------------------------
(***************************************************************************)
(* The words of a command line.                                            *)
(***************************************************************************)
LEMMA LeastIs ==
  ASSUME NEW S \in SUBSET Nat, NEW x \in S, \A y \in S : x <= y PROVE Min(S) = x
<1>1. Min(S) \in S /\ Min(S) <= x
  BY MinOfNats
<1>2. x <= Min(S) /\ x \in Nat /\ Min(S) \in Nat
  BY <1>1
<1> HIDE DEF Min
<1> QED BY <1>1, <1>2, SMT

(* Induction by the least exception. *)
LEMMA UpTo ==
  ASSUME NEW n \in Nat, NEW S, 0 \in S, \A k \in 1..n : k - 1 \in S => k \in S PROVE 0..n \subseteq S
<1> DEFINE T == {k \in 0..n : k \notin S}
<1>1. SUFFICES ASSUME T # {} PROVE FALSE
  OBVIOUS
<1>2. T \in SUBSET Nat
  OBVIOUS
<1> DEFINE k == Min(T)
<1>3. k \in T /\ \A y \in T : k <= y
  BY <1>1, <1>2, MinOfNats
<1> HIDE DEF k
<1>4. k \in 1..n /\ k - 1 \in 0..n /\ ~(k <= k - 1)
  BY <1>3
<1>5. k - 1 \in S
  BY <1>3, <1>4
<1> QED BY <1>3, <1>4, <1>5

Chooses(f, s, S) ==
  f = [n \in 0..Len(s) |-> IF n = 0 THEN <<>> ELSE IF s[n] \in S THEN Append(f[n - 1], s[n]) ELSE f[n - 1]]

LEMMA ChoiceExists ==
  ASSUME NEW D, NEW s \in Seq(D), NEW S PROVE \E f : Chooses(f, s, S)
<1> DEFINE Right(f, n) == /\ f[0] = <<>>
                          /\ \A k \in 1..n : f[k] = IF s[k] \in S THEN Append(f[k - 1], s[k]) ELSE f[k - 1]
           E == {n \in 0..Len(s) : \E f : DOMAIN f = 0..n /\ Right(f, n)}
<1>1. Len(s) \in Nat
  OBVIOUS
<1>2. 0 \in E
  <2> DEFINE f == [k \in 0..0 |-> <<>>]
  <2>1. DOMAIN f = 0..0 /\ Right(f, 0)
    OBVIOUS
  <2>2. 0 \in 0..Len(s)
    BY <1>1
  <2> HIDE DEF f, Right
  <2> QED BY <2>1, <2>2
<1>3. ASSUME NEW n \in 1..Len(s), n - 1 \in E PROVE n \in E
  <2>1. PICK f : DOMAIN f = 0..(n - 1) /\ Right(f, n - 1)
    BY <1>3
  <2> DEFINE new == IF s[n] \in S THEN Append(f[n - 1], s[n]) ELSE f[n - 1]
             g == [k \in 0..n |-> IF k = n THEN new ELSE f[k]]
  <2>2. g[0] = <<>> /\ g[n] = new /\ g[n - 1] = f[n - 1]
    BY <2>1
  <2>3. ASSUME NEW k \in 1..n PROVE g[k] = IF s[k] \in S THEN Append(g[k - 1], s[k]) ELSE g[k - 1]
    <3>1. CASE k = n
      BY <2>2, <3>1
    <3>2. CASE k # n
      <4>1. k \in 1..(n - 1) /\ g[k] = f[k] /\ g[k - 1] = f[k - 1]
        BY <3>2
      <4> QED BY <2>1, <4>1
    <3> QED BY <3>1, <3>2
  <2>4. DOMAIN g = 0..n /\ Right(g, n)
    BY <2>2, <2>3
  <2>5. n \in 0..Len(s)
    BY <1>1
  <2> HIDE DEF g, Right
  <2> QED BY <2>4, <2>5
<1>4. Len(s) \in E
  <2> HIDE DEF E
  <2>1. 0..Len(s) \subseteq E
    BY <1>1, <1>2, <1>3, UpTo
  <2> QED BY <1>1, <2>1
<1>5. PICK f : DOMAIN f = 0..Len(s) /\ Right(f, Len(s))
  BY <1>4
<1> DEFINE g == [n \in 0..Len(s) |-> f[n]]
<1>6. Chooses(g, s, S)
  <2>1. ASSUME NEW n \in 0..Len(s)
        PROVE  g[n] = IF n = 0 THEN <<>> ELSE IF s[n] \in S THEN Append(g[n - 1], s[n]) ELSE g[n - 1]
    <3>1. CASE n = 0
      BY <1>5, <3>1
    <3>2. CASE n # 0
      <4>1. n \in 1..Len(s) /\ g[n - 1] = f[n - 1]
        BY <1>1, <3>2
      <4> QED BY <1>5, <3>2, <4>1
    <3> QED BY <3>1, <3>2
  <2> QED BY <2>1 DEF Chooses
<1> QED BY <1>6

LEMMA ChosenIs ==
  ASSUME NEW D, NEW s \in Seq(D), NEW S
  PROVE  \E f : /\ Chosen(s, S) = f[Len(s)] /\ f[0] = <<>>
                /\ \A n \in 1..Len(s) : f[n] = IF s[n] \in S THEN Append(f[n - 1], s[n]) ELSE f[n - 1]
<1> DEFINE f == CHOOSE f : Chooses(f, s, S)
<1>1. Chooses(f, s, S)
  BY ChoiceExists, Zenon
<1>2. Chosen(s, S) = f[Len(s)]
  BY Zenon DEF Chosen, Chooses
<1> HIDE DEF f
<1>3. Len(s) \in Nat
  OBVIOUS
<1>4. \A n \in 0..Len(s) :
        f[n] = IF n = 0 THEN <<>> ELSE IF s[n] \in S THEN Append(f[n - 1], s[n]) ELSE f[n - 1]
  BY <1>1, Zenon DEF Chooses
<1>5. f[0] = <<>> /\ \A n \in 1..Len(s) : f[n] = IF s[n] \in S THEN Append(f[n - 1], s[n]) ELSE f[n - 1]
  BY <1>3, <1>4
<1> QED BY <1>2, <1>5

(* Those that are chosen stand together. *)
LEMMA ChosenBetween ==
  ASSUME NEW D, NEW s \in Seq(D), NEW S, NEW lo \in 0..Len(s), NEW hi \in lo..Len(s),
         \A i \in 1..Len(s) : s[i] \in S <=> lo < i /\ i <= hi
  PROVE  Chosen(s, S) = SubSeq(s, lo + 1, hi)
<1>0. Len(s) \in Nat /\ lo \in Nat /\ hi \in Nat /\ lo <= hi /\ hi <= Len(s)
  OBVIOUS
<1>1. PICK f : /\ Chosen(s, S) = f[Len(s)] /\ f[0] = <<>>
               /\ \A n \in 1..Len(s) : f[n] = IF s[n] \in S THEN Append(f[n - 1], s[n]) ELSE f[n - 1]
  BY ChosenIs
<1> DEFINE Up(n) == IF n <= hi THEN n ELSE hi
           E == {n \in 0..Len(s) : f[n] = SubSeq(s, lo + 1, Up(n))}
<1>2. 0 \in E
  <2>1. SubSeq(s, lo + 1, 0) = <<>> /\ Up(0) = 0 /\ 0 \in 0..Len(s)
    BY <1>0
  <2> HIDE DEF Up
  <2> QED BY <1>1, <2>1
<1>3. ASSUME NEW n \in 1..Len(s), n - 1 \in E PROVE n \in E
  <2>1. f[n - 1] = SubSeq(s, lo + 1, Up(n - 1)) /\ n \in 0..Len(s)
    BY <1>0, <1>3
  <2>5. f[n] = IF s[n] \in S THEN Append(f[n - 1], s[n]) ELSE f[n - 1]
    BY <1>1
  <2>6. s[n] \in S <=> lo < n /\ n <= hi
    OBVIOUS
  <2>7. SUFFICES f[n] = SubSeq(s, lo + 1, Up(n))
    BY <2>1
  <2>2. CASE lo < n /\ n <= hi
    <3>1. f[n] = Append(f[n - 1], s[n]) /\ Up(n - 1) = n - 1 /\ Up(n) = n
      BY <1>0, <2>2, <2>5, <2>6
    <3>2. Append(SubSeq(s, lo + 1, n - 1), s[n]) = SubSeq(s, lo + 1, n)
      BY <1>0, <2>2
    <3> HIDE DEF Up
    <3> QED BY <2>1, <3>1, <3>2, Zenon
  <2>3. CASE ~(lo < n)
    <3>1. f[n] = f[n - 1] /\ Up(n - 1) = n - 1 /\ Up(n) = n
      BY <1>0, <2>3, <2>5, <2>6
    <3>2. SubSeq(s, lo + 1, n - 1) = <<>> /\ SubSeq(s, lo + 1, n) = <<>>
      BY <1>0, <2>3
    <3> HIDE DEF Up
    <3> QED BY <2>1, <3>1, <3>2, Zenon
  <2>4. CASE lo < n /\ ~(n <= hi)
    <3>1. f[n] = f[n - 1] /\ Up(n - 1) = hi /\ Up(n) = hi
      BY <1>0, <2>4, <2>5, <2>6
    <3> QED BY <2>1, <3>1
  <2> QED BY <2>2, <2>3, <2>4
<1>4. Len(s) \in E
  <2> HIDE DEF E
  <2>1. 0..Len(s) \subseteq E
    BY <1>0, <1>2, <1>3, UpTo
  <2> QED BY <1>0, <2>1
<1> QED BY <1>0, <1>1, <1>4

-----------------------------------------------------------------------------
(***************************************************************************)
(* The value of a variable: that of the first of its name.                 *)
(***************************************************************************)
Variables == [name : STRING, value : STRING]
Absent(e, n) == \A i \in DOMAIN e : e[i].name # n
First(e, n, x) == \E i \in DOMAIN e : e[i] = x /\ x.name = n /\ \A j \in DOMAIN e : j < i => e[j].name # n

LEMMA AbsentValue ==
  ASSUME NEW e, NEW n, Absent(e, n) PROVE Value(e, n) = "none"
BY DEF Absent, Value

LEMMA FirstValue ==
  ASSUME NEW e \in Seq(Variables), NEW n, NEW x, First(e, n, x) PROVE Value(e, n) = x.value
<1> DEFINE at == {i \in DOMAIN e : e[i].name = n}
<1>1. PICK i \in DOMAIN e : e[i] = x /\ x.name = n /\ \A j \in DOMAIN e : j < i => e[j].name # n
  BY DEF First
<1>2. DOMAIN e = 1..Len(e) /\ Len(e) \in Nat
  OBVIOUS
<1>3. at \in SUBSET Nat /\ i \in at /\ at # {}
  BY <1>1, <1>2
<1>4. \A j \in at : i <= j
  BY <1>1, <1>2
<1>5. Min(at) = i
  BY <1>3, <1>4, LeastIs
<1>6. Value(e, n) = e[Min(at)].value
  BY <1>3, Zenon DEF Value
<1> QED BY <1>1, <1>5, <1>6

LEMMA FirstOrAbsent ==
  ASSUME NEW e \in Seq(Variables), NEW n PROVE Absent(e, n) \/ \E x : First(e, n, x)
<1> DEFINE at == {i \in DOMAIN e : e[i].name = n}
<1>1. SUFFICES ASSUME at # {} PROVE \E x : First(e, n, x)
  BY DEF Absent
<1>2. DOMAIN e = 1..Len(e) /\ Len(e) \in Nat
  OBVIOUS
<1>3. at \in SUBSET Nat
  BY <1>2
<1>4. Min(at) \in at /\ \A y \in at : Min(at) <= y
  BY <1>1, <1>3, MinOfNats
<1>5. PICK i : i = Min(at)
  OBVIOUS
<1>6. i \in DOMAIN e /\ e[i].name = n
  BY <1>4, <1>5
<1>7. ASSUME NEW j \in DOMAIN e, j < i PROVE e[j].name # n
  <2>1. j \in at => i <= j
    BY <1>4, <1>5
  <2> QED BY <1>2, <1>6, <1>7, <2>1
<1>8. First(e, n, e[i])
  BY <1>6, <1>7 DEF First
<1> QED BY <1>8

LEMMA ConcatFirst ==
  ASSUME NEW a \in Seq(Variables), NEW b \in Seq(Variables), NEW n, NEW x, First(a, n, x)
  PROVE  First(a \o b, n, x)
<1>1. PICK i \in DOMAIN a : a[i] = x /\ x.name = n /\ \A j \in DOMAIN a : j < i => a[j].name # n
  BY DEF First
<1> DEFINE c == a \o b
<1>2. /\ DOMAIN a = 1..Len(a) /\ DOMAIN c = 1..(Len(a) + Len(b)) /\ Len(a) \in Nat /\ Len(b) \in Nat
      /\ \A j \in 1..Len(a) : c[j] = a[j]
  OBVIOUS
<1> HIDE DEF c
<1>3. i \in DOMAIN c /\ c[i] = x
  BY <1>1, <1>2
<1>4. ASSUME NEW j \in DOMAIN c, j < i PROVE c[j].name # n
  <2>1. j \in DOMAIN a
    BY <1>1, <1>2, <1>4
  <2> QED BY <1>1, <1>2, <1>4, <2>1
<1> QED BY <1>1, <1>3, <1>4 DEF First, c

LEMMA ConcatSecond ==
  ASSUME NEW a \in Seq(Variables), NEW b \in Seq(Variables), NEW n, Absent(a, n)
  PROVE  /\ Absent(b, n) => Absent(a \o b, n)
         /\ \A x : First(b, n, x) => First(a \o b, n, x)
<1> DEFINE c == a \o b
<1>1. /\ DOMAIN a = 1..Len(a) /\ DOMAIN b = 1..Len(b) /\ DOMAIN c = 1..(Len(a) + Len(b))
      /\ Len(a) \in Nat /\ Len(b) \in Nat
      /\ \A j \in 1..Len(a) : c[j] = a[j]
      /\ \A j \in 1..Len(b) : c[Len(a) + j] = b[j]
  OBVIOUS
<1> HIDE DEF c
<1>2. ASSUME NEW j \in DOMAIN c, \A k \in DOMAIN b : Len(a) + k <= j => b[k].name # n PROVE c[j].name # n
  <2>1. CASE j <= Len(a)
    <3>1. j \in DOMAIN a
      BY <1>1, <2>1
    <3> QED BY <1>1, <3>1 DEF Absent
  <2>2. CASE ~(j <= Len(a))
    <3>1. j - Len(a) \in DOMAIN b /\ j = Len(a) + (j - Len(a)) /\ Len(a) + (j - Len(a)) <= j
      BY <1>1, <2>2
    <3>2. c[j] = b[j - Len(a)]
      BY <1>1, <3>1
    <3> QED BY <1>2, <3>1, <3>2
  <2> QED BY <2>1, <2>2
<1>3. Absent(b, n) => Absent(c, n)
  BY <1>2 DEF Absent
<1>4. ASSUME NEW x, First(b, n, x) PROVE First(c, n, x)
  <2>1. PICK i \in DOMAIN b : b[i] = x /\ x.name = n /\ \A j \in DOMAIN b : j < i => b[j].name # n
    BY <1>4 DEF First
  <2>2. Len(a) + i \in DOMAIN c /\ c[Len(a) + i] = x
    BY <1>1, <2>1
  <2>3. ASSUME NEW j \in DOMAIN c, j < Len(a) + i PROVE c[j].name # n
    <3>1. ASSUME NEW k \in DOMAIN b, Len(a) + k <= j PROVE b[k].name # n
      <4>1. k < i
        BY <1>1, <2>3, <3>1
      <4> QED BY <2>1, <4>1
    <3> QED BY <1>2, <3>1
  <2> QED BY <2>1, <2>2, <2>3 DEF First
<1> QED BY <1>3, <1>4 DEF c

LEMMA ChosenStays ==
  ASSUME NEW D, NEW e \in Seq(D), NEW S PROVE Chosen(e, S) \in Seq(D)
<1>0. Len(e) \in Nat /\ \A i \in 1..Len(e) : e[i] \in D
  OBVIOUS
<1>1. PICK f : /\ Chosen(e, S) = f[Len(e)] /\ f[0] = <<>>
               /\ \A k \in 1..Len(e) : f[k] = IF e[k] \in S THEN Append(f[k - 1], e[k]) ELSE f[k - 1]
  BY ChosenIs
<1> DEFINE E == {k \in 0..Len(e) : f[k] \in Seq(D)}
<1>2. 0 \in E
  <2>1. <<>> \in Seq(D) /\ 0 \in 0..Len(e)
    BY <1>0
  <2> QED BY <1>1, <2>1
<1>3. ASSUME NEW k \in 1..Len(e), k - 1 \in E PROVE k \in E
  <2>1. f[k - 1] \in Seq(D) /\ e[k] \in D /\ k \in 0..Len(e)
    BY <1>0, <1>3
  <2>2. f[k] = IF e[k] \in S THEN Append(f[k - 1], e[k]) ELSE f[k - 1]
    BY <1>1
  <2>3. Append(f[k - 1], e[k]) \in Seq(D)
    BY <2>1
  <2> QED BY <2>1, <2>2, <2>3
<1>4. f[Len(e)] \in Seq(D)
  <2> HIDE DEF E
  <2>1. 0..Len(e) \subseteq E
    BY <1>0, <1>2, <1>3, UpTo
  <2>2. Len(e) \in E
    BY <1>0, <2>1
  <2> QED BY <2>2 DEF E
<1> QED BY <1>1, <1>4

(* Taking out others does not change the first of a name. *)
LEMMA AppendOne ==
  ASSUME NEW b \in Seq(Variables), NEW x \in Variables PROVE Append(b, x) = b \o <<x>>
<1> DEFINE l == Append(b, x)
           r == b \o <<x>>
<1>1. l \in Seq(Variables) /\ r \in Seq(Variables) /\ Len(l) = Len(b) + 1 /\ Len(r) = Len(b) + 1
  OBVIOUS
<1>2. \A k \in 1..(Len(b) + 1) : l[k] = r[k]
  OBVIOUS
<1> HIDE DEF l, r
<1> QED BY <1>1, <1>2

LEMMA ChosenFirst ==
  ASSUME NEW e \in Seq(Variables), NEW S, NEW n, \A i \in DOMAIN e : e[i].name = n => e[i] \in S
  PROVE  /\ Chosen(e, S) \in Seq(Variables)
         /\ Absent(e, n) => Absent(Chosen(e, S), n)
         /\ \A x : First(e, n, x) => First(Chosen(e, S), n, x)
<1>0. DOMAIN e = 1..Len(e) /\ Len(e) \in Nat /\ \A i \in 1..Len(e) : e[i] \in Variables
  OBVIOUS
<1>1. PICK f : /\ Chosen(e, S) = f[Len(e)] /\ f[0] = <<>>
               /\ \A k \in 1..Len(e) : f[k] = IF e[k] \in S THEN Append(f[k - 1], e[k]) ELSE f[k - 1]
  BY ChosenIs
<1> DEFINE Good(k) == /\ f[k] \in Seq(Variables)
                      /\ (\A i \in 1..k : e[i].name # n) => Absent(f[k], n)
                      /\ \A i \in 1..k : e[i].name = n /\ (\A j \in 1..(i - 1) : e[j].name # n) => First(f[k], n, e[i])
           E == {k \in 0..Len(e) : Good(k)}
<1>2. 0 \in E
  <2>1. <<>> \in Seq(Variables) /\ Absent(<<>>, n) /\ (1..0 = {}) /\ 0 \in 0..Len(e)
    BY <1>0 DEF Absent
  <2> QED BY <1>1, <2>1
<1>3. ASSUME NEW k \in 1..Len(e), k - 1 \in E PROVE k \in E
  <2> DEFINE b == f[k - 1]
             c == f[k]
             x == e[k]
  <2>1. b \in Seq(Variables) /\ x \in Variables /\ c = IF x \in S THEN Append(b, x) ELSE b
    BY <1>0, <1>1, <1>3
  <2>2. /\ (\A i \in 1..(k - 1) : e[i].name # n) => Absent(b, n)
        /\ \A i \in 1..(k - 1) : e[i].name = n /\ (\A j \in 1..(i - 1) : e[j].name # n) => First(b, n, e[i])
    BY <1>3
  <2>3. x.name = n => x \in S
    BY <1>0
  <2>4. 1..k = 1..(k - 1) \cup {k} /\ k \in 0..Len(e)
    BY <1>0
  <2> HIDE DEF b, c, x
  <2>5. c \in Seq(Variables)
    BY <2>1
  <2>6. PICK one : one = <<x>>
    OBVIOUS
  <2>7. one \in Seq(Variables) /\ DOMAIN one = {1} /\ one[1] = x /\ Append(b, x) = b \o one
    <3>1. one \in Seq(Variables) /\ DOMAIN one = {1} /\ one[1] = x
      BY <2>1, <2>6
    <3> QED BY <2>1, <2>6, <3>1, AppendOne
  <2>8. x.name = n => First(one, n, x)
    BY <2>7 DEF First
  <2>9. x.name # n => Absent(one, n)
    BY <2>7 DEF Absent
  <2>10. (\A i \in 1..k : e[i].name # n) => Absent(c, n)
    <3>1. SUFFICES ASSUME \A i \in 1..k : e[i].name # n PROVE Absent(c, n)
      OBVIOUS
    <3>2. Absent(b, n) /\ x.name # n
      BY <2>2, <2>4, <3>1 DEF x
    <3>3. Absent(b \o one, n)
      BY <2>1, <2>7, <2>9, <3>2, ConcatSecond
    <3> QED BY <2>1, <2>7, <3>2, <3>3
  <2>11. ASSUME NEW i \in 1..k, e[i].name = n, \A j \in 1..(i - 1) : e[j].name # n PROVE First(c, n, e[i])
    <3>1. CASE i = k
      <4>1. Absent(b, n) /\ e[i] = x /\ x.name = n
        BY <2>2, <2>11, <3>1 DEF x
      <4>2. First(b \o one, n, x)
        BY <2>1, <2>7, <2>8, <4>1, ConcatSecond
      <4> QED BY <2>1, <2>3, <2>7, <4>1, <4>2
    <3>2. CASE i # k
      <4>1. First(b, n, e[i])
        BY <2>2, <2>4, <2>11, <3>2
      <4>2. First(b \o one, n, e[i])
        BY <2>1, <2>7, <4>1, ConcatFirst
      <4> QED BY <2>1, <2>7, <4>1, <4>2
    <3> QED BY <3>1, <3>2
  <2>12. Good(k)
    BY <2>5, <2>10, <2>11 DEF c
  <2> HIDE DEF Good
  <2> QED BY <2>4, <2>12
<1>4. Good(Len(e))
  <2> HIDE DEF Good
  <2>1. 0..Len(e) \subseteq E
    BY <1>0, <1>2, <1>3, UpTo
  <2> QED BY <1>0, <2>1
<1>5. ASSUME NEW x, First(e, n, x) PROVE First(Chosen(e, S), n, x)
  <2>1. PICK i \in DOMAIN e : e[i] = x /\ x.name = n /\ \A j \in DOMAIN e : j < i => e[j].name # n
    BY <1>5 DEF First
  <2>2. i \in 1..Len(e) /\ \A j \in 1..(i - 1) : j \in DOMAIN e /\ j < i
    BY <1>0
  <2>3. \A j \in 1..(i - 1) : e[j].name # n
    BY <2>1, <2>2
  <2> QED BY <1>1, <1>4, <2>1, <2>2, <2>3
<1>6. Absent(e, n) => Absent(Chosen(e, S), n)
  BY <1>0, <1>1, <1>4 DEF Absent
<1>7. Chosen(e, S) \in Seq(Variables)
  BY <1>1, <1>4
<1> QED BY <1>5, <1>6, <1>7

-----------------------------------------------------------------------------
(***************************************************************************)
(* If no words of the command look like options, its utility's options are *)
(* those before it.                                                        *)
(***************************************************************************)
LEMMA LeastUpTo ==
  ASSUME NEW n \in Nat, NEW S \in SUBSET (1..n)
  PROVE  LET m == Min({n + 1} \cup S)
         IN /\ m \in 1..(n + 1) /\ (m # n + 1 => m \in S)
            /\ \A i \in 1..n : i < m => i \notin S
<1> DEFINE T == {n + 1} \cup S
           m == Min(T)
<1>1. T \in SUBSET Nat /\ T # {}
  OBVIOUS
<1>2. m \in T /\ \A y \in T : m <= y
  BY <1>1, MinOfNats
<1> HIDE DEF m
<1>3. m \in 1..(n + 1)
  BY <1>2
<1>4. \A i \in 1..n : i < m => i \notin S
  BY <1>2, <1>3
<1> QED BY <1>2, <1>3, <1>4 DEF m

LEMMA FirstOperandIs ==
  ASSUME cmd.words \in Seq(STRING)
  PROVE  /\ FirstOperand \in 1..(Len(cmd.words) + 1)
         /\ FirstOperand <= Len(cmd.words) => cmd.words[FirstOperand] \notin Options
         /\ \A i \in 1..Len(cmd.words) : i < FirstOperand => cmd.words[i] \in Options
<1> DEFINE s == cmd.words
           S == {i \in DOMAIN s : s[i] \notin Options}
           n == Len(s)
<1>1. n \in Nat /\ DOMAIN s = 1..n /\ S \in SUBSET (1..n)
  OBVIOUS
<1>2. FirstOperand = Min({n + 1} \cup S)
  BY Zenon DEF FirstOperand
<1> HIDE DEF n, S
<1> DEFINE m == Min({n + 1} \cup S)
<1>3. m \in 1..(n + 1) /\ (m # n + 1 => m \in S) /\ \A i \in 1..n : i < m => i \notin S
  BY <1>1, LeastUpTo
<1> HIDE DEF m
<1>4. m <= n => s[m] \notin Options
  BY <1>1, <1>3 DEF S
<1>5. \A i \in 1..n : i < m => s[i] \in Options
  BY <1>1, <1>3 DEF S
<1> QED BY <1>2, <1>3, <1>4, <1>5 DEF n, m

LEMMA EndOfOptionsIs ==
  ASSUME NEW s \in Seq(STRING)
  PROVE  /\ EndOfOptions(s) \in 1..(Len(s) + 1)
         /\ EndOfOptions(s) <= Len(s) => s[EndOfOptions(s)] = "--"
         /\ \A i \in 1..Len(s) : i < EndOfOptions(s) => s[i] # "--"
<1> DEFINE S == {i \in DOMAIN s : s[i] = "--"}
           n == Len(s)
<1>1. n \in Nat /\ DOMAIN s = 1..n /\ S \in SUBSET (1..n)
  OBVIOUS
<1>2. EndOfOptions(s) = Min({n + 1} \cup S)
  BY Zenon DEF EndOfOptions
<1> HIDE DEF n, S
<1> DEFINE m == Min({n + 1} \cup S)
<1>3. m \in 1..(n + 1) /\ (m # n + 1 => m \in S) /\ \A i \in 1..n : i < m => i \notin S
  BY <1>1, LeastUpTo
<1> HIDE DEF m
<1>4. m <= n => s[m] = "--"
  BY <1>1, <1>3 DEF S
<1>5. \A i \in 1..n : i < m => s[i] # "--"
  BY <1>1, <1>3 DEF S
<1> QED BY <1>2, <1>3, <1>4, <1>5 DEF n, m

LEMMA OptionsFirst ==
  ASSUME cmd.words \in Seq(STRING), cmd.util \in {"nice", "env"}, ~Permuted
  PROVE  /\ GivenOptions(cmd.words) = SubSeq(cmd.words, 1, FirstOperand - 1)
         /\ Operands(cmd.words) = OwnWords /\ OwnWords \in Seq(STRING)
<1> DEFINE s == cmd.words
           n == FirstOperand
           end == EndOfOptions(s)
           len == Len(s)
           before == SubSeq(s, 1, end - 1)
           after == SubSeq(s, end + 1, len)
           others1 == Range(s) \ Options
<1>1. s \in Seq(STRING) /\ len \in Nat /\ DOMAIN s = 1..len /\ len = Len(s)
  OBVIOUS
<1>2. n \in 1..(len + 1) /\ (n <= len => s[n] \notin Options) /\ \A i \in 1..len : i < n => s[i] \in Options
  BY FirstOperandIs
<1>3. end \in 1..(len + 1) /\ (end <= len => s[end] = "--") /\ \A i \in 1..len : i < end => s[i] # "--"
  BY EndOfOptionsIs
<1>4. GivenOptions(s) = Chosen(before, Options) /\ Operands(s) = Chosen(before, others1) \o after
  BY Zenon DEF GivenOptions, Operands
<1>5. OwnWords = IF n <= len /\ s[n] = "--" THEN SubSeq(s, n + 1, len) ELSE SubSeq(s, n, len)
  BY Zenon DEF OwnWords
<1>6. OwnWords \in Seq(STRING)
  <2>1. SubSeq(s, n + 1, len) \in Seq(STRING) /\ SubSeq(s, n, len) \in Seq(STRING)
    BY <1>1, <1>2
  <2> QED BY <1>5, <2>1
<1>7. \A i \in 1..len : s[i] \in others1 <=> s[i] \notin Options
  BY <1>1 DEF Range
<1>8. n <= end
  <2>1. CASE end <= len
    <3>1. s[end] \notin Options
      BY <1>3, <2>1, SessionAssumption
    <3>2. ~(end < n)
      BY <1>1, <1>2, <1>3, <2>1, <3>1
    <3> QED BY <1>2, <1>3, <3>2
  <2>2. CASE ~(end <= len)
    BY <1>1, <1>2, <1>3, <2>2
  <2> QED BY <2>1, <2>2
<1>9. before \in Seq(STRING) /\ Len(before) = end - 1 /\ \A i \in 1..(end - 1) : before[i] = s[i]
  BY <1>1, <1>3
<1> HIDE DEF s, n, end, len, before, others1
<1>10. CASE n <= len /\ s[n] = "--"
  <2>1. end = n
    BY <1>1, <1>2, <1>3, <1>8, <1>10
  <2>2. \A i \in 1..Len(before) : (before[i] \in Options <=> 0 < i /\ i <= n - 1)
                                  /\ (before[i] \in others1 <=> 0 < i /\ i <= 0)
    BY <1>1, <1>2, <1>7, <1>9, <2>1
  <2>3. 0 \in 0..Len(before) /\ n - 1 \in 0..Len(before) /\ 0 \in 0..Len(before)
    BY <1>2, <1>9, <2>1
  <2>4. Chosen(before, Options) = SubSeq(before, 0 + 1, n - 1)
    BY <1>9, <2>2, <2>3, ChosenBetween
  <2>5. Chosen(before, others1) = SubSeq(before, 0 + 1, 0)
    BY <1>9, <2>2, <2>3, ChosenBetween
  <2>6. SubSeq(before, 0 + 1, n - 1) = SubSeq(s, 1, n - 1)
    BY <1>1, <1>2, <1>9, <2>1 DEF before
  <2>7. SubSeq(before, 0 + 1, 0) = <<>> /\ <<>> \o after = after
    BY <1>1, <1>3, <1>9 DEF s, len
  <2>8. after = OwnWords
    BY <1>5, <1>10, <2>1
  <2> QED BY <1>4, <1>6, <2>4, <2>5, <2>6, <2>7, <2>8 DEF s, n
<1>11. CASE ~(n <= len /\ s[n] = "--")
  <2> DEFINE own1 == SubSeq(s, n, len)
  <2>1. OwnWords = own1 /\ own1 \in Seq(STRING) /\ Len(own1) = len - n + 1
        /\ \A i \in 1..(len - n + 1) : own1[i] = s[i + n - 1]
    BY <1>1, <1>2, <1>5, <1>11
  <2>2. n > len \/ s[n] # "--"
    BY <1>1, <1>2, <1>11
  <2>3. \A i \in DOMAIN OwnWords : OwnWords[i] \notin Options /\ OwnWords[i] # "--"
    BY <2>2, Zenon DEF Permuted, s, n, len
  <2> HIDE DEF own1
  <2>4. ASSUME NEW i \in n..len PROVE s[i] \notin Options /\ s[i] # "--"
    <3>1. (i - n + 1) \in 1..(len - n + 1) /\ (i - n + 1) + n - 1 = i
      BY <1>1, <1>2
    <3>2. (i - n + 1) \in DOMAIN OwnWords /\ OwnWords[i - n + 1] = s[i]
      BY <2>1, <3>1
    <3> QED BY <2>3, <3>2
  <2>5. end = len + 1
    <3>1. SUFFICES ASSUME end <= len PROVE FALSE
      BY <1>1, <1>3
    <3>2. end \in n..len /\ s[end] = "--"
      BY <1>1, <1>2, <1>3, <1>8, <3>1
    <3> QED BY <2>4, <3>2
  <2>6. Len(before) = len /\ \A i \in 1..len : before[i] = s[i]
    BY <1>1, <1>9, <2>5
  <2>7. \A i \in 1..Len(before) : (before[i] \in Options <=> 0 < i /\ i <= n - 1)
                                  /\ (before[i] \in others1 <=> n - 1 < i /\ i <= len)
    BY <1>1, <1>2, <1>7, <2>4, <2>6
  <2>8. 0 \in 0..Len(before) /\ n - 1 \in 0..Len(before) /\ len \in (n - 1)..Len(before)
    BY <1>1, <1>2, <2>6
  <2>9. Chosen(before, Options) = SubSeq(before, 0 + 1, n - 1)
    BY <1>9, <2>7, <2>8, ChosenBetween
  <2>10. Chosen(before, others1) = SubSeq(before, n - 1 + 1, len)
    BY <1>9, <2>7, <2>8, ChosenBetween
  <2>11. before = s
    BY <1>1, <1>9, <2>5 DEF before
  <2>12. n - 1 + 1 = n /\ 0 + 1 = 1
    BY <1>2
  <2>13. after = <<>> /\ own1 \o <<>> = own1
    BY <1>1, <2>1, <2>5 DEF s, len
  <2> QED BY <1>4, <1>6, <2>1, <2>9, <2>10, <2>11, <2>12, <2>13 DEF s, n, own1
<1> QED BY <1>10, <1>11

NiceGiven ==
  IF GivenOptions(cmd.words) = <<>> THEN NICE_DEF ELSE Increment[Last(GivenOptions(cmd.words))]
EnvMade ==
  env_list \o (IF opt_no_inherit THEN <<>>
               ELSE Chosen(cmd.environ, {e \in Range(cmd.environ) : ~env_listed(e)}))

LEMMA NiceIsAsked ==
  ASSUME cmd.words \in Seq(STRING), cmd.util = "nice", ~Permuted
  PROVE  Operands(cmd.words) = CommandAsked /\ Clamp(cmd.nice + NiceGiven) = NiceAsked
<1> DEFINE s == cmd.words
           n == FirstOperand
           given == SubSeq(s, 1, n - 1)
<1>1. GivenOptions(s) = given /\ Operands(s) = OwnWords
  BY OptionsFirst
<1>2. n \in 1..(Len(s) + 1) /\ Len(s) \in Nat
  BY FirstOperandIs
<1>3. Len(given) = n - 1 /\ (n > 1 => given[n - 1] = s[n - 1])
  BY <1>2
<1>4. n = 1 => given = <<>>
  BY <1>2
<1>5. n # 1 => given # <<>> /\ Last(given) = s[n - 1]
  <2>1. n # 1 => n > 1 /\ Len(given) # 0
    BY <1>2, <1>3
  <2> QED BY <1>3, <2>1 DEF Last
<1>6. NiceGiven = IF n = 1 THEN NICE_DEF ELSE Increment[s[n - 1]]
  BY <1>1, <1>4, <1>5, Zenon DEF NiceGiven
<1>7. CommandAsked = OwnWords
  BY Zenon DEF CommandAsked
<1> QED BY <1>1, <1>6, <1>7, Zenon DEF NiceAsked

LEMMA AssignmentsAsked ==
  ASSUME OwnWords \in Seq(STRING)
  PROVE  Assignments(OwnWords) = AssignedWords /\ AssignedWords \in 0..Len(OwnWords)
         /\ \A i \in 1..AssignedWords : OwnWords[i] \in DOMAIN Assignment
<1> DEFINE s == OwnWords
           n == Len(s)
           S == {i \in DOMAIN s : s[i] \notin DOMAIN Assignment}
           m == Min({n + 1} \cup S)
<1>1. n \in Nat /\ DOMAIN s = 1..n /\ S \in SUBSET (1..n)
  OBVIOUS
<1>2. Assignments(s) = m - 1
  BY Zenon DEF Assignments
<1>3. AssignedWords = IF S = {} THEN n ELSE Min(S) - 1
  <2>1. (\A i \in DOMAIN s : s[i] \in DOMAIN Assignment) <=> S = {}
    OBVIOUS
  <2> QED BY <2>1, Zenon DEF AssignedWords
<1> HIDE DEF s, n, S
<1>4. m \in 1..(n + 1) /\ (m # n + 1 => m \in S) /\ \A i \in 1..n : i < m => i \notin S
  BY <1>1, LeastUpTo
<1>5. S = {} => m = n + 1
  BY <1>4
<1>6. S # {} => Min(S) = m
  <2>1. SUFFICES ASSUME S # {} PROVE Min(S) = m
    OBVIOUS
  <2>2. m \in S
    <3>1. PICK i \in S : TRUE
      BY <2>1
    <3>2. i \in 1..n /\ ~(i < m)
      BY <1>1, <1>4, <3>1
    <3>3. m # n + 1
      BY <1>1, <1>4, <3>2
    <3> QED BY <1>4, <3>3
  <2>3. ASSUME NEW y \in S PROVE m <= y
    <3>1. y \in 1..n /\ ~(y < m)
      BY <1>1, <1>4
    <3>2. m \in Nat
      BY <1>1, <1>4
    <3> HIDE DEF m, S
    <3> QED BY <3>1, <3>2
  <2>4. S \in SUBSET Nat
    BY <1>1
  <2> HIDE DEF m
  <2> QED BY <2>2, <2>3, <2>4, LeastIs
<1> HIDE DEF m
<1>7. AssignedWords = m - 1
  BY <1>1, <1>3, <1>4, <1>5, <1>6
<1>8. ASSUME NEW i \in 1..(m - 1) PROVE s[i] \in DOMAIN Assignment
  <2>1. i \in 1..n /\ i < m
    BY <1>1, <1>4
  <2> QED BY <1>1, <1>4, <2>1 DEF S
<1>9. m - 1 \in 0..n
  BY <1>1, <1>4
<1> QED BY <1>2, <1>7, <1>8, <1>9 DEF s, n

LEMMA EnvIsAsked ==
  ASSUME cmd.words \in Seq(STRING), cmd.environ \in Seq(Variables), cmd.util = "env", ~Permuted, ~EnvUsage
  PROVE  arg_list = CommandAsked /\ \A n : Value(EnvMade, n) = EnvironmentAsked(n)
<1> DEFINE s == cmd.words
           m == FirstOperand
           k == AssignedWords
           assigned == [i \in 1..k |-> Assignment[OwnWords[i]]]
           S == {e \in Range(cmd.environ) : ~env_listed(e)}
           kept == Chosen(cmd.environ, S)
<1>1. GivenOptions(s) = SubSeq(s, 1, m - 1) /\ Operands(s) = OwnWords /\ OwnWords \in Seq(STRING)
  BY OptionsFirst
<1>2. m \in 1..(Len(s) + 1) /\ Len(s) \in Nat
  BY FirstOperandIs
<1>3. Assignments(OwnWords) = k /\ k \in 0..Len(OwnWords) /\ \A i \in 1..k : OwnWords[i] \in DOMAIN Assignment
  BY <1>1, AssignmentsAsked
<1>4. arg_list = SubSeq(OwnWords, k + 1, Len(OwnWords)) /\ CommandAsked = SubSeq(OwnWords, k + 1, Len(OwnWords))
  BY <1>1, <1>3, Zenon DEF arg_list, CommandAsked
<1>5. env_list = assigned
  BY <1>1, <1>3, Zenon DEF env_list
<1>6. assigned \in Seq(Variables) /\ DOMAIN assigned = 1..k
  <2>1. \A i \in 1..k : Assignment[OwnWords[i]] \in Variables
    BY <1>3, SessionAssumption, Zenon DEF Variables
  <2>2. k \in Nat
    BY <1>1, <1>3
  <2> HIDE DEF k
  <2> QED BY <2>1, <2>2
<1>7. opt_no_inherit <=> m > 1 /\ s[1] = "-i"
  <2> DEFINE given == SubSeq(s, 1, m - 1)
  <2>1. opt_no_inherit <=> given # <<>>
    BY <1>1, Zenon DEF opt_no_inherit
  <2>2. Len(given) = m - 1 /\ (m > 1 => given # <<>> /\ 1 \in DOMAIN given /\ given[1] = s[1])
    BY <1>2
  <2>3. m = 1 => given = <<>>
    BY <1>2
  <2>4. m > 1 => s[1] = "-i"
    <3>1. Range(given) \in {{}, {"-i"}}
      BY <1>1, Zenon DEF EnvUsage
    <3> HIDE DEF given
    <3>2. m > 1 => s[1] \in Range(given)
      BY <2>2 DEF Range
    <3> QED BY <3>1, <3>2
  <2> HIDE DEF given
  <2> QED BY <1>2, <2>1, <2>2, <2>3, <2>4
<1>8. EnvMade = assigned \o (IF opt_no_inherit THEN <<>> ELSE kept)
  BY <1>5, Zenon DEF EnvMade
<1>9. ASSUME NEW n PROVE Value(EnvMade, n) = EnvironmentAsked(n)
  <2> DEFINE given == \E i \in DOMAIN assigned : assigned[i].name = n
  <2>1. EnvironmentAsked(n) = IF given \/ (m > 1 /\ s[1] = "-i") THEN Value(assigned, n) ELSE Value(cmd.environ, n)
    BY Zenon DEF EnvironmentAsked
  <2>2. CASE opt_no_inherit
    <3>1. EnvMade = assigned
      BY <1>6, <1>8, <2>2
    <3> QED BY <1>7, <2>1, <2>2, <3>1, Zenon
  <2>3. CASE ~opt_no_inherit /\ given
    <3>1. EnvMade = assigned \o kept
      BY <1>8, <2>3, Zenon
    <3>2. kept \in Seq(Variables)
      BY ChosenStays
    <3>3. ~Absent(assigned, n)
      BY <2>3 DEF Absent
    <3> HIDE DEF assigned, kept, given
    <3>4. PICK x : First(assigned, n, x)
      BY <1>6, <3>3, FirstOrAbsent
    <3>5. First(assigned \o kept, n, x)
      BY <1>6, <3>2, <3>4, ConcatFirst
    <3>6. assigned \o kept \in Seq(Variables)
      BY <1>6, <3>2
    <3>7. Value(assigned \o kept, n) = x.value
      BY <3>5, <3>6, FirstValue
    <3>8. Value(assigned, n) = x.value
      BY <1>6, <3>4, FirstValue
    <3> QED BY <2>1, <2>3, <3>1, <3>7, <3>8, Zenon
  <2>4. CASE ~opt_no_inherit /\ ~given
    <3>1. EnvMade = assigned \o kept /\ EnvironmentAsked(n) = Value(cmd.environ, n)
      BY <1>7, <1>8, <2>1, <2>4, Zenon
    <3>2. Absent(assigned, n)
      BY <2>4 DEF Absent
    <3>3. \A i \in DOMAIN cmd.environ : cmd.environ[i].name = n => cmd.environ[i] \in S
      <4>1. SUFFICES ASSUME NEW i \in DOMAIN cmd.environ, cmd.environ[i].name = n PROVE cmd.environ[i] \in S
        OBVIOUS
      <4>2. cmd.environ[i] \in Range(cmd.environ)
        BY Zenon DEF Range
      <4>3. ~env_listed(cmd.environ[i])
        BY <1>5, <2>4, <4>1, Zenon DEF env_listed
      <4> QED BY <4>2, <4>3
    <3> HIDE DEF assigned, S, given
    <3>4. /\ kept \in Seq(Variables)
          /\ Absent(cmd.environ, n) => Absent(kept, n)
          /\ \A x : First(cmd.environ, n, x) => First(kept, n, x)
      BY <3>3, ChosenFirst
    <3> HIDE DEF kept
    <3>5. assigned \o kept \in Seq(Variables)
      BY <1>6, <3>4
    <3>6. CASE Absent(cmd.environ, n)
      <4>1. Absent(assigned \o kept, n)
        BY <1>6, <3>2, <3>4, <3>6, ConcatSecond
      <4>2. Value(assigned \o kept, n) = "none" /\ Value(cmd.environ, n) = "none"
        BY <3>6, <4>1, AbsentValue, Zenon
      <4> QED BY <3>1, <4>2, Zenon
    <3>7. CASE ~Absent(cmd.environ, n)
      <4>1. PICK x : First(cmd.environ, n, x)
        BY <3>7, FirstOrAbsent
      <4>2. First(assigned \o kept, n, x)
        BY <1>6, <3>2, <3>4, <4>1, ConcatSecond
      <4>3. Value(assigned \o kept, n) = x.value /\ Value(cmd.environ, n) = x.value
        BY <3>5, <4>1, <4>2, FirstValue, Zenon
      <4> QED BY <3>1, <4>3, Zenon
    <3> QED BY <3>6, <3>7
  <2> QED BY <2>2, <2>3, <2>4
<1> QED BY <1>4, <1>9, Zenon

-----------------------------------------------------------------------------
(***************************************************************************)
(* What nohup, nice and env have made ready so far.                        *)
(***************************************************************************)
(* what LaunchedAsAsked says of a command *)
FdAsked(d, v) == v = OutputAsked(d) \/ (cmd.fd[d] = "closed" /\ v = "nohup.out")
AsAsked(l) ==
  ~Permuted =>
    /\ l.argv = CommandAsked
    /\ \A n \in Names : Value(l.environ, n) = EnvironmentAsked(n)
    /\ l.nice = NiceAsked
    /\ l.sighup = IF cmd.util = "nohup" THEN "ignored" ELSE "default"
    /\ \A d \in DOMAIN cmd.fd : FdAsked(d, l.fd[d])

(* A descriptor that nohup has not redirected is what it was, unless it    *)
(* was closed and nohup.out has been opened as it.                         *)
Untouched(d) == fd[d] = cmd.fd[d] \/ (cmd.fd[d] = "closed" /\ fd[d] = "nohup.out")
NohupReady ==
  /\ state.pc \in {"isatty", "home"} => fd = cmd.fd /\ state.redirect_fd = 1
  /\ state.pc = "home" => cmd.fd[1] = "tty"
  /\ state.pc = "dup2" =>
       /\ state.fd \in DOMAIN fd /\ fd[state.fd] = "nohup.out" /\ cmd.fd[1] = "tty"
       /\ \A d \in DOMAIN fd : Untouched(d)
  /\ state.pc = "redirect_stderr" =>
       /\ fd[1] = OutputAsked(1) /\ fd[state.redirect_fd] = fd[1]
       /\ \A d \in DOMAIN fd : d # 1 => Untouched(d)
  /\ state.pc \in {"signal", "exec"} => \A d \in DOMAIN fd : FdAsked(d, fd[d])
NiceReady ==
  /\ state.pc \in {"parse_opt", "nice"} => nice_value[self] = cmd.nice
  /\ state.pc = "nice" => state.nice_inc = NiceGiven
  /\ state.pc = "exec" => nice_value[self] = Clamp(cmd.nice + NiceGiven)
EnvReady ==
  /\ state.pc = "do_env" => environ = cmd.environ
  /\ state.pc = "exec" => ~EnvUsage /\ environ = EnvMade

ReadyInv ==
  IF cmd.util \in LaunchUtils
  THEN /\ DOMAIN fd = DOMAIN cmd.fd
       /\ launched = <<>> \/ \E l : launched = <<l>> /\ AsAsked(l)
       /\ cmd.util # "nohup" => fd = cmd.fd /\ sighup = "default"
       /\ cmd.util # "env" => environ = cmd.environ
       /\ cmd.util # "nice" => nice_value[self] = cmd.nice
       /\ status = "running" =>
            /\ cmd.util = "nohup" => NohupReady
            /\ cmd.util = "nice" => NiceReady
            /\ cmd.util = "env" => EnvReady
  ELSE launched = <<>>

LEMMA CommandsGiven ==
  ASSUME TypeInv, cmd.util \in LaunchUtils
  PROVE  /\ cmd.words \in Seq(STRING) /\ cmd.environ \in Seq(Variables)
         /\ cmd.util = "nohup" => {0, 1, 2} \subseteq DOMAIN cmd.fd /\ DOMAIN cmd.fd \subseteq Nat
                                  /\ \E d \in DOMAIN cmd.fd : cmd.fd[d] = "closed"
<1>1. PICK u \in DOMAIN Commands : cmd \in Commands[u]
  BY DEF TypeInv
<1> QED BY <1>1, CommandsAssumption, Zenon DEF Variables

LEMMA ReadyInit == Init => ReadyInv
<1> SUFFICES ASSUME Init PROVE ReadyInv
  OBVIOUS
<1>1. /\ fd = cmd.fd /\ sighup = "default" /\ environ = cmd.environ /\ launched = <<>>
      /\ nice_value[self] = cmd.nice
  BY DEF Init
<1>2. CASE cmd.util \in LaunchUtils
  <2>1. state = LaunchStart
    BY <1>2 DEF Init
  <2>2. cmd.util = "nohup" => NohupReady
    BY <1>1, <2>1 DEF LaunchStart, NohupStart, NohupReady
  <2>3. cmd.util = "nice" => NiceReady
    BY <1>1, <2>1 DEF LaunchStart, NiceStart, NiceReady
  <2>4. cmd.util = "env" => EnvReady
    BY <1>1, <2>1 DEF LaunchStart, EnvStart, EnvReady
  <2> QED BY <1>1, <1>2, <2>2, <2>3, <2>4, Zenon DEF ReadyInv
<1>3. CASE cmd.util \notin LaunchUtils
  BY <1>1, <1>3, Zenon DEF ReadyInv
<1> QED BY <1>2, <1>3

(* What is asked does not change. *)
LEMMA AskedStays ==
  ASSUME cmd' = cmd
  PROVE  /\ \A l : AsAsked(l)' = AsAsked(l)
         /\ \A d, v : FdAsked(d, v)' = FdAsked(d, v)
<1>1. FirstOperand' = FirstOperand
  BY DEF FirstOperand
<1>2. OwnWords' = OwnWords
  BY <1>1 DEF OwnWords
<1>3. Permuted' = Permuted
  BY <1>1, <1>2, Zenon DEF Permuted
<1>4. AssignedWords' = AssignedWords
  BY <1>2 DEF AssignedWords
<1>5. CommandAsked' = CommandAsked
  BY <1>2, <1>4 DEF CommandAsked
<1>6. Names' = Names
  BY DEF Names
<1>7. \A n : EnvironmentAsked(n)' = EnvironmentAsked(n)
  BY <1>1, <1>2, <1>4 DEF EnvironmentAsked, Value
<1>8. NiceAsked' = NiceAsked
  BY <1>1 DEF NiceAsked, Clamp
<1>9. \A d : OutputAsked(d)' = OutputAsked(d)
  BY DEF OutputAsked
<1>10. \A d, v : FdAsked(d, v)' = FdAsked(d, v)
  BY <1>9 DEF FdAsked
<1>11. \A l : AsAsked(l)' = AsAsked(l)
  BY <1>3, <1>5, <1>6, <1>7, <1>8, <1>10, Zenon DEF AsAsked, Value
<1> QED BY <1>10, <1>11

(* A step that ends the utility, or starts the command. *)
LEMMA ReadyEnds ==
  ASSUME ReadyInv, cmd.util \in LaunchUtils, cmd' = cmd, UNCHANGED <<fd, sighup, environ>>,
         nice_value'[self] = nice_value[self] \/ cmd.util = "nice",
         status' # "running" \/ (state'.pc = "command" /\ cmd.util # "time") \/ cmd.util = "time",
         launched' = launched \/ \E l : launched' = <<l>> /\ AsAsked(l)
  PROVE  ReadyInv'
<1>1. (launched = <<>> \/ \E l : launched = <<l>> /\ AsAsked(l))'
  <2>1. \A l : AsAsked(l)' = AsAsked(l)
    BY AskedStays
  <2> QED BY <2>1, Zenon DEF ReadyInv
<1> QED BY <1>1, Zenon DEF ReadyInv, NohupReady, NiceReady, EnvReady, LaunchUtils

LEMMA OutputIs ==
  ASSUME NEW d
  PROVE  /\ OutputAsked(1) = IF cmd.util = "nohup" /\ cmd.fd[1] = "tty" THEN "nohup.out" ELSE cmd.fd[1]
         /\ OutputAsked(2) = IF cmd.util = "nohup" /\ cmd.fd[2] = "tty" THEN OutputAsked(1) ELSE cmd.fd[2]
         /\ cmd.util # "nohup" \/ d \notin {1, 2} => OutputAsked(d) = cmd.fd[d]
<1>1. CASE cmd.util = "nohup"
  BY <1>1 DEF OutputAsked
<1>2. CASE cmd.util # "nohup"
  BY <1>2 DEF OutputAsked
<1> QED BY <1>1, <1>2

(***************************************************************************)
(* nohup                                                                   *)
(***************************************************************************)
LEMMA NohupSteps ==
  ASSUME ReadyInv, cmd.util = "nohup", cmd' = cmd, UNCHANGED <<environ, launched, processes>>,
         DOMAIN fd' = DOMAIN fd, status' = "running" => NohupReady'
  PROVE  ReadyInv'
<1>1. (launched = <<>> \/ \E l : launched = <<l>> /\ AsAsked(l))'
  BY AskedStays, Zenon DEF ReadyInv, LaunchUtils
<1> QED BY <1>1, Zenon DEF ReadyInv, LaunchUtils, processes

LEMMA NohupOpens ==
  ASSUME TypeInv, cmd.util = "nohup", cmd' = cmd, DOMAIN state = {"pc", "fd", "redirect_fd"},
         fd = cmd.fd, cmd.fd[1] = "tty", Opened
  PROVE  DOMAIN fd' = DOMAIN fd /\ NohupReady'
<1> DEFINE S == {d \in DOMAIN fd : fd[d] = "closed"}
<1>1. S \in SUBSET Nat /\ S # {}
  BY CommandsGiven DEF LaunchUtils
<1>2. LowestFree \in S
  <2>1. Min(S) \in S
    BY <1>1, MinOfNats
  <2> QED BY <2>1, Zenon DEF LowestFree
<1>3. fd' = [fd EXCEPT ![LowestFree] = "nohup.out"]
  BY DEF Opened
<1>4. DOMAIN state' = DOMAIN state /\ state'.pc = "dup2" /\ state'.fd = LowestFree
  BY DEF Opened
<1>5. /\ DOMAIN fd' = DOMAIN fd /\ fd'[LowestFree] = "nohup.out"
      /\ \A d \in DOMAIN fd : d # LowestFree => fd'[d] = fd[d]
  BY <1>2, <1>3
<1>6. \A d \in DOMAIN fd : Untouched(d)'
  BY <1>2, <1>5 DEF Untouched
<1> QED BY <1>2, <1>4, <1>5, <1>6 DEF NohupReady

LEMMA StdoutRedirected ==
  ASSUME TypeInv, cmd.util = "nohup", cmd' = cmd, DOMAIN state = {"pc", "fd", "redirect_fd"},
         NohupReady, state.pc = "dup2", 1 \in DOMAIN fd,
         fd' = [fd EXCEPT ![1] = fd[state.fd]],
         state' = [state EXCEPT !.pc = "redirect_stderr", !.redirect_fd = state.fd]
  PROVE  DOMAIN fd' = DOMAIN fd /\ NohupReady'
<1>1. /\ state.fd \in DOMAIN fd /\ fd[state.fd] = "nohup.out" /\ cmd.fd[1] = "tty"
      /\ \A d \in DOMAIN fd : Untouched(d)
  BY DEF NohupReady
<1>2. DOMAIN fd' = DOMAIN fd /\ fd'[1] = "nohup.out" /\ \A d \in DOMAIN fd : d # 1 => fd'[d] = fd[d]
  BY <1>1
<1>3. state'.pc = "redirect_stderr" /\ state'.redirect_fd = state.fd
  BY <1>1
<1>4. OutputAsked(1) = "nohup.out" /\ OutputAsked(1)' = OutputAsked(1)
  BY <1>1, OutputIs DEF OutputAsked
<1>5. fd'[state.fd] = "nohup.out"
  BY <1>1, <1>2
<1>6. \A d \in DOMAIN fd' : d # 1 => Untouched(d)'
  BY <1>1, <1>2 DEF Untouched
<1> QED BY <1>2, <1>3, <1>4, <1>5, <1>6 DEF NohupReady

LEMMA StderrRedirected ==
  ASSUME TypeInv, cmd.util = "nohup", cmd' = cmd, DOMAIN state = {"pc", "fd", "redirect_fd"},
         NohupReady, state.pc = "redirect_stderr", {1, 2} \subseteq DOMAIN fd, Goto("signal"),
         \/ fd[2] # "tty" /\ UNCHANGED fd
         \/ fd[2] = "tty" /\ fd' = [fd EXCEPT ![2] = fd[state.redirect_fd]]
  PROVE  DOMAIN fd' = DOMAIN fd /\ NohupReady'
<1>1. /\ fd[1] = OutputAsked(1) /\ fd[state.redirect_fd] = fd[1]
      /\ \A d \in DOMAIN fd : d # 1 => Untouched(d)
  BY DEF NohupReady
<1>2. /\ DOMAIN fd' = DOMAIN fd /\ (fd[2] # "tty" => fd'[2] = fd[2])
      /\ (fd[2] = "tty" => fd'[2] = OutputAsked(1)) /\ \A d \in DOMAIN fd : d # 2 => fd'[d] = fd[d]
  BY <1>1
<1>3. state'.pc = "signal"
  BY DEF Goto
<1>4. ASSUME NEW d \in DOMAIN fd PROVE FdAsked(d, fd'[d])
  <2>1. CASE d = 1
    BY <1>1, <1>2, <2>1 DEF FdAsked
  <2>2. CASE d = 2
    <3>1. fd[2] = cmd.fd[2] \/ (cmd.fd[2] = "closed" /\ fd[2] = "nohup.out")
      BY <1>1, <2>2 DEF Untouched
    <3>2. CASE fd[2] = "tty"
      <4>1. OutputAsked(2) = OutputAsked(1)
        BY <3>1, <3>2, OutputIs
      <4> QED BY <1>2, <2>2, <3>2, <4>1 DEF FdAsked
    <3>3. CASE fd[2] # "tty"
      <4>1. fd[2] = cmd.fd[2] => OutputAsked(2) = cmd.fd[2]
        BY <3>3, OutputIs
      <4> QED BY <1>2, <2>2, <3>1, <3>3, <4>1 DEF FdAsked
    <3> QED BY <3>2, <3>3
  <2>3. CASE d \notin {1, 2}
    <3>1. OutputAsked(d) = cmd.fd[d]
      BY <2>3, OutputIs
    <3> QED BY <1>1, <1>2, <2>3, <3>1 DEF FdAsked, Untouched
  <2> QED BY <2>1, <2>2, <2>3
<1>5. \A d \in DOMAIN fd' : FdAsked(d, fd[d])'
  BY <1>2, <1>4, AskedStays
<1> QED BY <1>2, <1>3, <1>5 DEF NohupReady

(* What the command is started with is what has been made ready. *)
LEMMA CommandStarts ==
  ASSUME ReadyInv, cmd.util \in LaunchUtils, launched = <<>>, NEW argv, NEW failure,
         UNCHANGED <<fd, sighup, environ, processes>>, cmd' = cmd,
         status' # "running" \/ state'.pc = "command" \/ cmd.util = "time",
         execvp(argv) => AsAsked(Launched(argv)),
         execvp(argv) \/ execvpFails(argv)
  PROVE  ReadyInv'
<1>1. CASE execvp(argv)
  <2>1. launched' = Append(launched, Launched(argv))
    BY <1>1, Zenon DEF execvp
  <2>2. launched' = <<Launched(argv)>>
    BY <2>1
  <2> QED BY <1>1, <2>2, ReadyEnds DEF processes
<1>2. CASE execvpFails(argv)
  BY <1>2, ReadyEnds DEF execvpFails, processes
<1> QED BY <1>1, <1>2

LEMMA LaunchedHas ==
  ASSUME NEW argv
  PROVE  /\ Launched(argv).argv = argv /\ Launched(argv).fd = fd /\ Launched(argv).sighup = sighup
         /\ Launched(argv).environ = environ /\ Launched(argv).nice = nice_value[self]
BY DEF Launched

(* What a utility that does not change any of them starts its command with. *)
LEMMA Inherited ==
  ASSUME ReadyInv, cmd.util \in LaunchUtils
  PROVE  /\ cmd.util # "nohup" => /\ \A d \in DOMAIN cmd.fd : FdAsked(d, fd[d])
                                  /\ sighup = "default"
         /\ cmd.util # "env" => \A n : Value(environ, n) = EnvironmentAsked(n)
         /\ cmd.util # "nice" => nice_value[self] = NiceAsked
         /\ cmd.util \notin {"env", "nice"} => CommandAsked = cmd.words
<1>1. ASSUME cmd.util # "nohup"
      PROVE  (\A d \in DOMAIN cmd.fd : FdAsked(d, fd[d])) /\ sighup = "default"
  <2>1. fd = cmd.fd /\ sighup = "default"
    BY <1>1 DEF ReadyInv
  <2>2. ASSUME NEW d \in DOMAIN cmd.fd PROVE FdAsked(d, fd[d])
    <3>1. OutputAsked(d) = cmd.fd[d]
      BY <1>1, OutputIs
    <3> QED BY <2>1, <3>1 DEF FdAsked
  <2> QED BY <2>1, <2>2
<1>2. cmd.util # "env" => \A n : Value(environ, n) = EnvironmentAsked(n)
  BY DEF ReadyInv, EnvironmentAsked
<1>3. cmd.util # "nice" => nice_value[self] = NiceAsked
  BY DEF ReadyInv, NiceAsked
<1>4. cmd.util \notin {"env", "nice"} => CommandAsked = cmd.words
  BY DEF CommandAsked
<1> QED BY <1>1, <1>2, <1>3, <1>4

LEMMA ReadyNohup ==
  ASSUME TypeInv, LaunchInv, ReadyInv, nohup, cmd' = cmd
  PROVE  ReadyInv'
<1>1. cmd.util = "nohup" /\ status = "running"
  BY DEF nohup, Redirections, NoArguments, isatty, OpenAtHome, RedirectStdout, RedirectStderr, signal,
         At, Running
<1>2. NohupInv /\ NohupReady /\ DOMAIN fd = DOMAIN cmd.fd
  BY <1>1 DEF LaunchInv, LaunchUtils, ReadyInv
<1>3. DOMAIN state = {"pc", "fd", "redirect_fd"} /\ {1, 2} \subseteq DOMAIN fd
  BY <1>1, <1>2, CommandsGiven DEF NohupInv, LaunchUtils
<1>4. CASE Redirections
  <2>1. UNCHANGED <<environ, launched, processes>>
    BY <1>4 DEF Redirections
  <2>2. ASSUME DOMAIN fd' = DOMAIN fd, status' = "running" => NohupReady' PROVE ReadyInv'
    BY <1>1, <2>1, <2>2, NohupSteps
  <2>3. ASSUME Exit(NOHUP_ERR), UNCHANGED fd PROVE ReadyInv'
    BY <2>2, <2>3 DEF Exit
  <2>4. CASE NoArguments
    BY <2>3, <2>4 DEF NoArguments
  <2>5. CASE isatty
    <3>1. fd = cmd.fd /\ state.redirect_fd = 1
      BY <1>2, <2>5 DEF isatty, At, NohupReady
    <3>2. CASE fd[1] = "tty" /\ Opened
      BY <1>1, <1>3, <2>2, <3>1, <3>2, NohupOpens
    <3>3. CASE fd[1] = "tty" /\ UNCHANGED fd /\ Goto("home")
      <4>1. state'.pc = "home" /\ state'.redirect_fd = 1
        BY <1>3, <3>1, <3>3 DEF Goto
      <4>2. NohupReady'
        BY <3>1, <3>3, <4>1 DEF NohupReady
      <4> QED BY <2>2, <3>3, <4>2
    <3>4. CASE fd[1] # "tty" /\ Goto("redirect_stderr") /\ UNCHANGED fd
      <4>1. state'.pc = "redirect_stderr" /\ state'.redirect_fd = 1
        BY <1>3, <3>1, <3>4 DEF Goto
      <4>2. OutputAsked(1)' = fd[1]
        BY <3>1, <3>4 DEF OutputAsked
      <4>3. \A d : (d \in DOMAIN fd => Untouched(d))'
        BY <3>1, <3>4 DEF Untouched
      <4>4. NohupReady'
        BY <3>4, <4>1, <4>2, <4>3 DEF NohupReady
      <4> QED BY <2>2, <3>4, <4>4
    <3> QED BY <2>3, <2>5, <3>2, <3>3, <3>4 DEF isatty
  <2>6. CASE OpenAtHome
    <3>1. fd = cmd.fd /\ cmd.fd[1] = "tty"
      BY <1>2, <2>6 DEF OpenAtHome, At, NohupReady
    <3>2. Opened => ReadyInv'
      BY <1>1, <1>3, <2>2, <3>1, NohupOpens
    <3> QED BY <2>3, <2>6, <3>2 DEF OpenAtHome
  <2>7. CASE RedirectStdout
    <3>1. \/ /\ fd' = [fd EXCEPT ![1] = fd[state.fd]]
             /\ state' = [state EXCEPT !.pc = "redirect_stderr", !.redirect_fd = state.fd]
          \/ Exit(NOHUP_ERR) /\ UNCHANGED fd
      BY <2>7 DEF RedirectStdout
    <3>2. state.pc = "dup2"
      BY <2>7 DEF RedirectStdout, At
    <3> QED BY <1>1, <1>2, <1>3, <2>2, <2>3, <3>1, <3>2, StdoutRedirected
  <2>8. CASE RedirectStderr
    <3>1. \/ Exit(NOHUP_ERR) /\ UNCHANGED fd
          \/ /\ Goto("signal")
             /\ \/ fd[2] # "tty" /\ UNCHANGED fd
                \/ fd[2] = "tty" /\ fd' = [fd EXCEPT ![2] = fd[state.redirect_fd]]
      BY <2>8 DEF RedirectStderr
    <3>2. state.pc = "redirect_stderr"
      BY <2>8 DEF RedirectStderr, At
    <3> QED BY <1>1, <1>2, <1>3, <2>2, <2>3, <3>1, <3>2, StderrRedirected
  <2> QED BY <1>4, <2>4, <2>5, <2>6, <2>7, <2>8 DEF Redirections
<1>5. CASE signal
  <2>1. UNCHANGED <<fd, environ, launched, processes>> /\ state.pc = "signal" /\ Goto("exec")
    BY <1>5 DEF signal, At
  <2>2. state'.pc = "exec"
    BY <1>3, <2>1 DEF Goto
  <2>3. \A d \in DOMAIN fd' : FdAsked(d, fd[d])'
    BY <1>2, <2>1, AskedStays DEF NohupReady
  <2>4. NohupReady'
    BY <2>2, <2>3 DEF NohupReady
  <2> QED BY <1>1, <2>1, <2>4, NohupSteps
<1>6. CASE At("nohup", "exec") /\ Becomes(cmd.words, NOHUP_ERR)
  <2>1. state.pc = "exec" /\ launched = <<>> /\ sighup = "ignored"
    BY <1>2, <1>6 DEF At, NohupInv, Replaced
  <2>2. /\ UNCHANGED <<fd, sighup, environ, processes>> /\ (execvp(cmd.words) \/ execvpFails(cmd.words))
        /\ (status' # "running" \/ state'.pc = "command")
    BY <1>3, <1>6 DEF Becomes, Goto, Exit
  <2>3. AsAsked(Launched(cmd.words))
    <3>1. \A d \in DOMAIN cmd.fd : FdAsked(d, fd[d])
      BY <1>2, <2>1 DEF NohupReady
    <3> QED BY <1>1, <2>1, <3>1, LaunchedHas, Inherited DEF AsAsked, LaunchUtils
  <2> QED BY <1>1, <2>1, <2>2, <2>3, CommandStarts DEF LaunchUtils
<1> QED BY <1>4, <1>5, <1>6 DEF nohup

(* A step of nice or env that starts nothing. *)
LEMMA PrepareSteps ==
  ASSUME ReadyInv, cmd.util \in {"nice", "env"}, cmd' = cmd, UNCHANGED <<fd, sighup, launched>>,
         cmd.util = "nice" => UNCHANGED environ, cmd.util = "env" => UNCHANGED nice_value,
         status' = "running" => (cmd.util = "nice" => NiceReady') /\ (cmd.util = "env" => EnvReady')
  PROVE  ReadyInv'
<1>1. (launched = <<>> \/ \E l : launched = <<l>> /\ AsAsked(l))'
  BY AskedStays, Zenon DEF ReadyInv, LaunchUtils
<1> QED BY <1>1, Zenon DEF ReadyInv, LaunchUtils

LEMMA ReadyNice ==
  ASSUME TypeInv, LaunchInv, ReadyInv, nice, cmd' = cmd
  PROVE  ReadyInv'
<1>1. cmd.util = "nice" /\ status = "running"
  BY DEF nice, NiceOptions, SetNice, At, Running
<1>2. NiceReady /\ DOMAIN state = {"pc", "nice_inc"} /\ Replaced
  BY <1>1 DEF LaunchInv, LaunchUtils, ReadyInv
<1>3. CASE NiceOptions
  <2>1. UNCHANGED <<fd, sighup, environ, launched, nice_value>> /\ state.pc = "parse_opt"
    BY <1>3 DEF NiceOptions, Usage, own, processes, At
  <2>2. CASE Usage
    BY <1>1, <2>1, <2>2, PrepareSteps DEF Usage, Exit
  <2>3. CASE ~Usage
    <3>1. state' = [pc |-> "nice", nice_inc |-> NiceGiven]
      BY <1>3, <2>3, Zenon DEF NiceOptions, NiceGiven
    <3>2. state'.pc = "nice" /\ state'.nice_inc = NiceGiven
      BY <3>1
    <3>3. NiceGiven' = NiceGiven
      BY DEF NiceGiven, GivenOptions, EndOfOptions, Chosen
    <3>4. NiceReady'
      BY <1>2, <2>1, <3>2, <3>3 DEF NiceReady
    <3> QED BY <1>1, <2>1, <3>4, PrepareSteps
  <2> QED BY <2>2, <2>3
<1>4. CASE SetNice
  <2>1. UNCHANGED <<fd, sighup, environ, launched>> /\ state.pc = "nice"
    BY <1>4 DEF SetNice, own, At
  <2>2. CASE Exit(1)
    BY <1>1, <2>1, <2>2, PrepareSteps DEF Exit
  <2>3. CASE ~Exit(1)
    <3>1. /\ nice_value' = [nice_value EXCEPT ![self] = Clamp(nice_value[self] + state.nice_inc)]
          /\ Goto("exec")
      BY <1>4, <2>3, Zenon DEF SetNice
    <3>2. state'.pc = "exec"
      BY <1>2, <3>1 DEF Goto
    <3>3. self \in DOMAIN nice_value
      BY DEF TypeInv, Pids
    <3>4. nice_value'[self] = Clamp(cmd.nice + NiceGiven)
      BY <1>2, <2>1, <3>1, <3>3 DEF NiceReady
    <3>5. Clamp(cmd.nice + NiceGiven)' = Clamp(cmd.nice + NiceGiven)
      BY DEF NiceGiven, GivenOptions, EndOfOptions, Chosen, Clamp
    <3>6. NiceReady'
      BY <3>2, <3>4, <3>5 DEF NiceReady
    <3> QED BY <1>1, <2>1, <3>6, PrepareSteps
  <2> QED BY <2>2, <2>3
<1>5. CASE At("nice", "exec") /\ Becomes(Operands(cmd.words), 1)
  <2> DEFINE argv == Operands(cmd.words)
  <2>1. state.pc = "exec" /\ launched = <<>>
    BY <1>2, <1>5 DEF At, Replaced
  <2>2. /\ UNCHANGED <<fd, sighup, environ, processes>> /\ (execvp(argv) \/ execvpFails(argv))
        /\ (status' # "running" \/ state'.pc = "command")
    BY <1>2, <1>5 DEF Becomes, Goto, Exit
  <2>3. AsAsked(Launched(argv))
    <3>1. SUFFICES ASSUME ~Permuted
                   PROVE  /\ argv = CommandAsked /\ \A n \in Names : Value(environ, n) = EnvironmentAsked(n)
                          /\ nice_value[self] = NiceAsked /\ sighup = "default"
                          /\ \A d \in DOMAIN cmd.fd : FdAsked(d, fd[d])
      BY <1>1, LaunchedHas DEF AsAsked
    <3>2. argv = CommandAsked /\ Clamp(cmd.nice + NiceGiven) = NiceAsked
      BY <1>1, <3>1, CommandsGiven, NiceIsAsked DEF LaunchUtils
    <3>3. nice_value[self] = NiceAsked
      BY <1>2, <2>1, <3>2 DEF NiceReady
    <3> QED BY <1>1, <3>2, <3>3, Inherited DEF LaunchUtils
  <2> HIDE DEF argv
  <2> QED BY <1>1, <2>1, <2>2, <2>3, CommandStarts DEF LaunchUtils
<1> QED BY <1>3, <1>4, <1>5 DEF nice

LEMMA ReadyEnv ==
  ASSUME TypeInv, LaunchInv, ReadyInv, env, cmd' = cmd
  PROVE  ReadyInv'
<1>1. cmd.util = "env" /\ status = "running"
  BY DEF env, do_env, At, Running
<1>2. EnvReady /\ DOMAIN state = {"pc"} /\ Replaced
  BY <1>1 DEF LaunchInv, LaunchUtils, ReadyInv
<1>3. CASE do_env
  <2>1. state.pc = "do_env" /\ environ = cmd.environ
    BY <1>2, <1>3 DEF do_env, At, EnvReady
  <2>2. CASE Usage
    BY <1>1, <2>2, PrepareSteps DEF Usage, Exit, own, processes
  <2>3. CASE ~Usage
    <3>1. /\ ~EnvUsage /\ Goto("exec") /\ UNCHANGED <<fd, sighup, launched, processes>>
          /\ environ' = EnvMade
      BY <1>3, <2>1, <2>3, Zenon DEF do_env, EnvMade
    <3>2. state'.pc = "exec"
      BY <1>2, <3>1 DEF Goto
    <3>3. EnvUsage' = EnvUsage /\ EnvMade' = EnvMade
      <4>1. GivenOptions(cmd.words)' = GivenOptions(cmd.words) /\ Operands(cmd.words)' = Operands(cmd.words)
        OBVIOUS
      <4>2. arg_list' = arg_list /\ env_list' = env_list /\ opt_no_inherit' = opt_no_inherit
        BY <4>1 DEF arg_list, env_list, opt_no_inherit, Assignments
      <4>3. EnvUsage' = EnvUsage
        BY <4>1, <4>2 DEF EnvUsage
      <4>4. \A e : env_listed(e)' = env_listed(e)
        BY <4>2 DEF env_listed
      <4>5. EnvMade' = EnvMade
        BY <4>2, <4>4 DEF EnvMade
      <4> QED BY <4>3, <4>5
    <3>4. EnvReady'
      BY <3>1, <3>2, <3>3 DEF EnvReady
    <3> QED BY <1>1, <3>1, <3>4, PrepareSteps DEF processes
  <2> QED BY <2>2, <2>3
<1>4. CASE At("env", "exec") /\ Becomes(arg_list, 127)
  <2> DEFINE argv == arg_list
  <2>1. state.pc = "exec" /\ launched = <<>>
    BY <1>2, <1>4 DEF At, Replaced
  <2>2. /\ UNCHANGED <<fd, sighup, environ, processes>> /\ (execvp(argv) \/ execvpFails(argv))
        /\ (status' # "running" \/ state'.pc = "command")
    BY <1>2, <1>4 DEF Becomes, Goto, Exit
  <2>3. AsAsked(Launched(argv))
    <3>1. SUFFICES ASSUME ~Permuted
                   PROVE  /\ argv = CommandAsked /\ \A n \in Names : Value(environ, n) = EnvironmentAsked(n)
                          /\ nice_value[self] = NiceAsked /\ sighup = "default"
                          /\ \A d \in DOMAIN cmd.fd : FdAsked(d, fd[d])
      BY <1>1, LaunchedHas DEF AsAsked
    <3>2. ~EnvUsage /\ environ = EnvMade
      BY <1>2, <2>1 DEF EnvReady
    <3>3. argv = CommandAsked /\ \A n : Value(EnvMade, n) = EnvironmentAsked(n)
      BY <1>1, <3>1, <3>2, CommandsGiven, EnvIsAsked DEF LaunchUtils
    <3> QED BY <1>1, <3>2, <3>3, Inherited DEF LaunchUtils
  <2> HIDE DEF argv
  <2> QED BY <1>1, <2>1, <2>2, <2>3, CommandStarts DEF LaunchUtils
<1> QED BY <1>3, <1>4 DEF env

LEMMA ReadyTime ==
  ASSUME TypeInv, LaunchInv, ReadyInv, time, cmd' = cmd
  PROVE  ReadyInv'
<1>1. cmd.util = "time" /\ cmd.util \in LaunchUtils
  BY DEF time, fork, do_child, do_wait, At, Running, LaunchUtils
<1>2. TimeInv
  BY <1>1 DEF time, fork, do_child, do_wait, At, Running, LaunchInv
<1>3. CASE fork
  BY <1>1, <1>3, ReadyEnds DEF fork, own, processes
<1>4. CASE do_child
  <2>1. launched = <<>> /\ UNCHANGED <<fd, sighup, environ, processes>>
        /\ (execvp(cmd.words) \/ execvpFails(cmd.words))
    BY <1>2, <1>4 DEF do_child, TimeInv
  <2>2. AsAsked(Launched(cmd.words))
    BY <1>1, LaunchedHas, Inherited DEF AsAsked
  <2> QED BY <1>1, <2>1, <2>2, CommandStarts
<1>5. CASE do_wait
  BY <1>1, <1>5, ReadyEnds DEF do_wait, own, processes
<1> QED BY <1>3, <1>4, <1>5 DEF time

LEMMA ReadyStays ==
  ASSUME ReadyInv, cmd' = cmd, UNCHANGED <<state, fd, sighup, environ, launched>>,
         status' = status, cmd.util \in LaunchUtils => nice_value'[self] = nice_value[self]
  PROVE  ReadyInv'
<1>1. CASE cmd.util \in LaunchUtils
  <2>1. (launched = <<>> \/ \E l : launched = <<l>> /\ AsAsked(l))'
    BY <1>1, AskedStays, Zenon DEF ReadyInv
  <2>2. NohupReady' = NohupReady
    <3>1. OutputAsked(1)' = OutputAsked(1)
      BY DEF OutputAsked
    <3> QED BY <3>1, AskedStays DEF NohupReady, Untouched
  <2>3. NiceReady' = NiceReady
    BY <1>1 DEF NiceReady, NiceGiven, Clamp
  <2>4. EnvReady' = EnvReady
    BY DEF EnvReady, EnvUsage, EnvMade, arg_list, env_list, opt_no_inherit, env_listed
  <2> QED BY <1>1, <2>1, <2>2, <2>3, <2>4, Zenon DEF ReadyInv
<1>2. CASE cmd.util \notin LaunchUtils
  BY <1>2 DEF ReadyInv
<1> QED BY <1>1, <1>2

LEMMA ReadyNext == IInv /\ ReadyInv /\ [Next]_vars => ReadyInv'
<1> SUFFICES ASSUME IInv, ReadyInv, [Next]_vars PROVE ReadyInv'
  OBVIOUS
<1>1. TypeInv /\ LaunchInv
  BY DEF IInv
<1>2. CASE LaunchStep
  BY <1>1, <1>2, ReadyNohup, ReadyNice, ReadyEnv, ReadyTime DEF LaunchStep
<1>3. CASE ControlStep
  <2>1. cmd' = cmd /\ UNCHANGED own
    BY <1>1, <1>3, KillFrame, ReniceFrame, SttyFrame, MesgFrame DEF ControlStep
  <2>2. cmd.util \notin LaunchUtils
    BY <1>1, <1>3, KillFrame, ReniceFrame, SttyFrame, MesgFrame DEF ControlStep, LaunchUtils
  <2> QED BY <2>1, <2>2 DEF ReadyInv, own
<1>4. CASE Command
  <2>1. /\ cmd' = cmd /\ UNCHANGED <<own, processes>> /\ cmd.util \in LaunchUtils
        /\ (status' # "running" \/ cmd.util = "time")
    BY <1>4 DEF Command, CommandEnds, Exit
  <2> QED BY <2>1, ReadyEnds DEF own, processes
<1>5. CASE CommandKilled \/ Hangup
  <2>1. /\ cmd' = cmd /\ UNCHANGED <<own, processes>> /\ cmd.util \in LaunchUtils
        /\ (status' # "running" \/ cmd.util = "time")
    BY <1>5 DEF CommandKilled, Hangup, Die, Running, LaunchUtils
  <2> QED BY <2>1, ReadyEnds DEF own, processes
<1>6. CASE ProcessEnds \/ ProcessReniced \/ TerminalSet
  <2>1. cmd' = cmd /\ UNCHANGED own
    BY <1>6 DEF ProcessEnds, ProcessReniced, TerminalSet, Interferes
  <2>2. cmd.util \notin LaunchUtils
    BY <1>6 DEF ProcessEnds, ProcessReniced, TerminalSet, Running, LaunchUtils
  <2> QED BY <2>1, <2>2 DEF ReadyInv, own
<1>7. CASE UNCHANGED vars
  BY <1>7, ReadyStays DEF vars, own, processes
<1> QED BY <1>2, <1>3, <1>4, <1>5, <1>6, <1>7 DEF Next, Program, Other, Done

LEMMA ReadyAsked == IInv /\ ReadyInv => LaunchedAsAsked
<1> SUFFICES ASSUME ReadyInv PROVE LaunchedAsAsked
  OBVIOUS
<1>1. CASE cmd.util \in LaunchUtils /\ launched # <<>>
  <2>1. PICK l : launched = <<l>> /\ AsAsked(l)
    BY <1>1 DEF ReadyInv
  <2>2. DOMAIN fd = DOMAIN cmd.fd
    BY <1>1 DEF ReadyInv
  <2>3. Len(launched) = 1 /\ DOMAIN launched = {1} /\ launched[1] = l
    BY <2>1
  <2> QED BY <2>1, <2>2, <2>3 DEF LaunchedAsAsked, AsAsked, FdAsked
<1>2. CASE launched = <<>>
  BY <1>2 DEF LaunchedAsAsked
<1> QED BY <1>1, <1>2 DEF ReadyInv

(***************************************************************************)
(* For any commands, programs, options, assignments and nice values: nohup,*)
(* nice, env and time start a command at most once, and with the           *)
(* arguments, environment, nice value, descriptors and disposition of      *)
(* SIGHUP that were asked for, unless words of the command were taken for  *)
(* options (main of nohup and nice, do_env, do_child).                     *)
(***************************************************************************)
THEOREM CommandsStartAsAsked == Spec => []LaunchedAsAsked
<1>1. Init => ReadyInv
  BY ReadyInit
<1>2. IInv /\ ReadyInv /\ [Next]_vars => ReadyInv'
  BY ReadyNext
<1>3. IInv /\ ReadyInv => LaunchedAsAsked
  BY ReadyAsked
<1> QED BY <1>1, <1>2, <1>3, SessionInductive, PTL DEF Spec
=============================================================================
