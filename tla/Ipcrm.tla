---------------------------------- MODULE Ipcrm ----------------------------------
(***************************************************************************)
(* ipcrm and ipcs.                                                         *)
(*                                                                         *)
(* ipcrm: each operand is an identifier, a key, or no number at all, which *)
(* is found when the command line is read.  unsigned long becomes int, an  *)
(* identifier in remove_one() and a key in the call of msgget(2).          *)
(***************************************************************************)
EXTENDS Names

RmStart == [pc |-> "push", id |-> 0]

int(n) == LET half == INT_RANGE \div 2 IN ((n + half) % INT_RANGE) - half
IPC_PRIVATE == 0
Live == {o \in ipc : o.there}

(* the valid operands are kept, in one go with the others' complaints *)
Invalid(i) ==
  \/ cmd.args[i].kind = "bad"
  \/ cmd.args[i].kind = "key" /\ cmd.args[i].n = IPC_PRIVATE
push_arg_opt ==
  LET bad == {i \in DOMAIN cmd.args : Invalid(i)}
  IN /\ Running("ipcrm") /\ state.pc = "push"
     /\ exit_status' = (IF bad = {} THEN 0 ELSE 1)
     /\ refused' = bad
     /\ state' = [state EXCEPT !.pc = "lookup"]
     /\ UNCHANGED <<cmd, arg, status, files, ipc, faults>>

Skip ==
  /\ AtOperand("ipcrm", "lookup") /\ Invalid(arg)
  /\ NextOperand(exit_status, state) /\ Granted /\ UNCHANGED <<files, ipc>>

Found(id) == state' = [state EXCEPT !.pc = "rmid", !.id = id]
             /\ UNCHANGED <<cmd, arg, exit_status, status>>
Failed == NextOperand(1, [RmStart EXCEPT !.pc = "lookup"])
Fresh == Cardinality(ipc)

(* msgget(2) of a key: that of IPC_PRIVATE, which only a number too big for *)
(* an int can be here, makes an object                                      *)
remove_one ==
  LET key == int(Operand.n)
      found == {o \in Live : o.key = key}
  IN /\ AtOperand("ipcrm", "lookup") /\ ~Invalid(arg)
     /\ \/ /\ Operand.kind = "id" /\ int(Operand.n) >= 0
           /\ Found(int(Operand.n)) /\ Granted /\ UNCHANGED ipc
        \/ /\ Operand.kind = "id" /\ int(Operand.n) < 0
           /\ Failed /\ Deny /\ UNCHANGED ipc
        \/ /\ Operand.kind = "key" /\ key = IPC_PRIVATE
           /\ ipc' = ipc \cup {[id |-> Fresh, key |-> IPC_PRIVATE, there |-> TRUE]}
           /\ Found(Fresh) /\ Granted
        \/ /\ Operand.kind = "key" /\ key # IPC_PRIVATE
           /\ \E o \in found : Found(o.id)
           /\ Granted /\ UNCHANGED ipc
        \/ /\ Operand.kind = "key"
           /\ Refused(key = IPC_PRIVATE \/ found # {})
           /\ Failed /\ UNCHANGED ipc
     /\ UNCHANGED files

Gone(o) == ipc' = (ipc \ {o}) \cup {[o EXCEPT !.there = FALSE]}
IPC_RMID ==
  LET found == {o \in Live : o.id = state.id}
  IN /\ AtOperand("ipcrm", "rmid")
     /\ \/ /\ \E o \in found : Gone(o)
           /\ NextOperand(exit_status, [RmStart EXCEPT !.pc = "lookup"]) /\ Granted
        \/ Refused(found # {}) /\ Failed /\ UNCHANGED ipc
     /\ UNCHANGED files

ipcrm ==
  \/ push_arg_opt \/ Skip \/ remove_one \/ IPC_RMID
  \/ state.pc = "lookup" /\ Finish("ipcrm")
-----------------------------------------------------------------------------
(***************************************************************************)
(* ipcs: the highest index in use, then whatever is found at each index up *)
(* to it.  The number of an object stands for its index, which it keeps.   *)
(***************************************************************************)
(* before: the objects there were when it asked for the index (history) *)
LsStart == [pc |-> "info", index |-> 0, max |-> 0, listed |-> {}, before |-> {}]

IPC_INFO ==
  /\ AtOperand("ipcs", "info")
  /\ \/ /\ \E m \in {0} \cup {o.id : o \in Live} :
             /\ \A o \in Live : o.id <= m
             /\ state' = [state EXCEPT !.pc = "stat", !.before = Live, !.max = m]
        /\ Granted /\ UNCHANGED <<cmd, arg, exit_status, status>>
     \/ Refused(TRUE) /\ Exit(1)
  /\ UNCHANGED <<files, ipc>>

(* what is no longer there is passed over *)
IPC_STAT ==
  LET listed == state.listed \cup {o \in Live : o.id = state.index}
      last == state.index = state.max
  IN /\ AtOperand("ipcs", "stat")
     /\ state' = [state EXCEPT !.pc = IF last THEN "printed" ELSE @,
                               !.index = @ + 1, !.listed = listed]
     /\ Granted /\ UNCHANGED <<cmd, arg, exit_status, status, files, ipc>>

Listed ==
  /\ AtOperand("ipcs", "printed") /\ NextOperand(0, state)
  /\ Granted /\ UNCHANGED <<files, ipc>>

ipcs == IPC_INFO \/ IPC_STAT \/ Listed \/ Finish("ipcs")
-----------------------------------------------------------------------------
IpcUtils == {"ipcrm", "ipcs"}
IpcStart == IF cmd.util = "ipcrm" THEN RmStart ELSE LsStart
IpcStep == ipcrm \/ ipcs
=============================================================================
