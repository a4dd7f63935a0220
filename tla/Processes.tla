------------------------------- MODULE Processes -------------------------------
(***************************************************************************)
(* What the utilities act on that start a command, signal processes or set *)
(* up a terminal: their own descriptors, nice value, signal disposition    *)
(* and environment, two other processes, and a terminal.  Others act on    *)
(* the processes and the terminal between any two calls (MaxOthers), and a *)
(* call may fail for reasons of its own (MaxFaults).                       *)
(***************************************************************************)
EXTENDS FiniteSets, Integers, SequencesExt

CONSTANTS
  PRIO_MIN, PRIO_MAX,   \* the nice values there are
  Options,              \* the words that begin with "-"
  MaxOthers, MaxFaults

VARIABLES
  cmd,          \* the utility, its command line and what it was started with
  state,        \* the utility's own variables, pc among them
  status,       \* "running", then "exited", "killed" or "aborted"
  exit_status,
  fd,           \* descriptor -> "tty", "pipe", "nohup.out" or "closed"
  sighup,       \* "default" or "ignored"
  environ,      \* [name, value], in their order
  launched,     \* the commands started: what each was started with (history)
  live,         \* the other processes
  nice_value,   \* process -> its nice value
  got,          \* process -> the signals it has been sent
  tty,          \* setting of the terminal -> value
  seen,         \* what the utility has read of it (history)
  others, faults

own == <<fd, sighup, environ, launched>>
processes == <<live, nice_value, got>>
terminal == <<tty, seen>>
vars == <<cmd, state, status, exit_status, own, processes, terminal, others, faults>>

self == 0
Pids == {self, 1, 2}
Group == {self, 1}   \* the process group of the utility
SIGTERM == "TERM"

Running(util) == status = "running" /\ cmd.util = util
At(util, pc) == Running(util) /\ state.pc = pc
Goto(pc) == state' = [state EXCEPT !.pc = pc] /\ UNCHANGED <<status, exit_status>>
Exit(rc) == status' = "exited" /\ exit_status' = rc /\ UNCHANGED state
Die(how) == status' = how /\ UNCHANGED <<state, exit_status>>

Works == UNCHANGED faults
Fault == faults < MaxFaults /\ faults' = faults + 1

(* nice values are confined to their range, and only a privileged process *)
(* lowers one                                                             *)
Clamp(n) == IF n < PRIO_MIN THEN PRIO_MIN ELSE IF n > PRIO_MAX THEN PRIO_MAX ELSE n
CanSetNice(old, new) == new >= old \/ cmd.privileged

(***************************************************************************)
(* argp_parse(): wherever they stand, words that begin with "-" are        *)
(* options, unless "--" has come before them; the others are operands.     *)
(***************************************************************************)
(* SelectSeq, of the members of a set *)
Chosen(s, S) ==
  LET first[n \in 0..Len(s)] == IF n = 0 THEN <<>>
                                ELSE IF s[n] \in S THEN Append(first[n - 1], s[n]) ELSE first[n - 1]
  IN first[Len(s)]
EndOfOptions(words) == Min({Len(words) + 1} \cup {i \in DOMAIN words : words[i] = "--"})
GivenOptions(words) == Chosen(SubSeq(words, 1, EndOfOptions(words) - 1), Options)
Operands(words) ==
  Chosen(SubSeq(words, 1, EndOfOptions(words) - 1), Range(words) \ Options)
  \o SubSeq(words, EndOfOptions(words) + 1, Len(words))
=============================================================================
