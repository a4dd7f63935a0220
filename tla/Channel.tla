-------------------------------- MODULE Channel --------------------------------
(***************************************************************************)
(* What a coding of data promises, whatever it sends: the reader is given  *)
(* what the writer was given, in that order and once.  It is told the end  *)
(* after all of it if the writer has closed the channel, and at any point  *)
(* if the writer was killed.                                               *)
(***************************************************************************)
EXTENDS Integers, Sequences

CONSTANT Data

VARIABLES
  given,      \* what the writer has been given
  delivered,  \* what the reader has given back
  writer,     \* "open", "closed" or "killed"
  ended       \* the reader has been told the end

vars == <<given, delivered, writer, ended>>

Init == given = <<>> /\ delivered = <<>> /\ writer = "open" /\ ended = FALSE

Give ==
  /\ writer = "open" /\ \E d \in Data : given' = Append(given, d)
  /\ UNCHANGED <<delivered, writer, ended>>
Leave ==
  /\ writer = "open" /\ writer' \in {"closed", "killed"}
  /\ UNCHANGED <<given, delivered, ended>>
Deliver ==
  /\ ~ended /\ Len(delivered) < Len(given)
  /\ delivered' = Append(delivered, given[Len(delivered) + 1])
  /\ UNCHANGED <<given, writer, ended>>
End ==
  /\ ~ended /\ ended'
  /\ writer = "killed" \/ (writer = "closed" /\ delivered = given)
  /\ UNCHANGED <<given, delivered, writer>>

Next == Give \/ Leave \/ Deliver \/ End
Spec == Init /\ [][Next]_vars
=============================================================================
