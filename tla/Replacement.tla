------------------------------ MODULE Replacement ------------------------------
(***************************************************************************)
(* What a program promises that replaces files by others made of them, one *)
(* operand after the other: mv by files elsewhere, compress by compressed  *)
(* ones.  It deals with the operand it has come to and leaves those before *)
(* and after it alone; at no moment is there neither the source nor the    *)
(* whole of its target; an operand that it turns down keeps its source,    *)
(* and the status says so, unless the user declined.                       *)
(***************************************************************************)
EXTENDS Integers, Sequences

VARIABLES
  place,     \* operand -> where all of its data is
  next,      \* the operand it has come to
  status,    \* 0 until an operand has been turned down
  declined,  \* operands the user has had left as they are
  others     \* steps of other processes

vars == <<place, next, status, declined, others>>

Kept == {"source", "target"}
Places == Kept \cup {"sent"}  \* into a pipe

Init ==
  /\ place \in Seq(SUBSET Places)
  /\ next = 1 /\ status = 0 /\ declined = {}

(* what its own step may do to the operand it has come to *)
Safely(p) == place[next] \cap Kept # {} => p \cap Kept # {}
Put(p) == next <= Len(place) /\ Safely(p) /\ place' = [place EXCEPT ![next] = p]
Advance == next' = next + 1 /\ UNCHANGED others

Work ==
  /\ \E p \in SUBSET Places : Put(p)
  /\ status' = status \/ status' # 0
  /\ UNCHANGED <<next, declined, others>>
Arrive ==
  /\ \E p \in SUBSET Places : Put(p) /\ p \cap {"target", "sent"} # {}
  /\ Advance /\ UNCHANGED <<status, declined>>
Refuse ==
  /\ \E p \in SUBSET Places : Put(p) /\ ("source" \in place[next] => "source" \in p)
  /\ status' # 0
  /\ Advance /\ UNCHANGED declined
Decline ==
  /\ next <= Len(place) /\ declined' = declined \cup {next}
  /\ Advance /\ UNCHANGED <<place, status>>

(* others may take anything away, and bring it back *)
Disturb ==
  /\ others' = others + 1
  /\ place' \in Seq(SUBSET Places) /\ Len(place') = Len(place)
  /\ UNCHANGED <<next, status, declined>>

Next == Work \/ Arrive \/ Refuse \/ Decline \/ Disturb
Spec == Init /\ [][Next]_vars
=============================================================================
