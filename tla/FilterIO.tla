------------------------------ MODULE FilterIO ------------------------------
(***************************************************************************)
(* What the filters share: their operands, their outputs, the calls they   *)
(* make of the kernel and of stdio, and the operand loop of libpu/walk.cc. *)
(*                                                                         *)
(* A file is a sequence of octets, or of lines for the filters that read   *)
(* with fgets(3).  read(2) returns some of what is asked for, as a pipe    *)
(* does; any call may fail, up to MaxFaults of them.                       *)
(***************************************************************************)
EXTENDS FiniteSets, Integers, SequencesExt

CONSTANT MaxFaults  \* calls that fail in one behaviour

VARIABLES
  cmd,          \* the utility, its options and operands
  arg,          \* the operand walk_strlist() is at
  opened,       \* TRUE while its actor runs
  offset,       \* how much of each file has been read
  state,        \* the utility's own variables
  out,          \* what each of its outputs has received
  held,         \* what stdio holds back of standard output
  exit_status,
  status,       \* "running", then "ok" or "error" for the exit status, or "aborted"
  faults        \* the calls that failed: kind and operand (history)

vars == <<cmd, arg, opened, offset, state, out, held, exit_status, status, faults>>
walker == <<arg, opened>>
results == <<out, held>>

Running(util) == status = "running" /\ cmd.util = util
Fault(kind) == Len(faults) < MaxFaults /\ faults' = Append(faults, <<kind, arg>>)

Least(m, n) == IF m < n THEN m ELSE n
Left(i) == Len(cmd.files[i]) - offset[i]
Sizes(i, room) == 1..Least(room, Left(i))
Chunk(i, n) == SubSeq(cmd.files[i], offset[i] + 1, offset[i] + n)
Take(i, n) == offset' = [offset EXCEPT ![i] = @ + n]

(* write(2) of all of a text, and of a part of it before it fails *)
Write(o, text) == out' = [out EXCEPT ![o] = @ \o text] /\ UNCHANGED faults
WriteFails(o, text) ==
  /\ Fault("write")
  /\ \E k \in 0..(Len(text) - 1) : out' = [out EXCEPT ![o] = @ \o SubSeq(text, 1, k)]

(* how much of each text that fails is taken: less than all of it *)
MaxLen(texts) == Max({0} \cup {Len(texts[k]) : k \in DOMAIN texts})
Cuts(failing, texts) ==
  {c \in [failing -> 0..MaxLen(texts)] : \A k \in failing : c[k] < Len(texts[k])}

(* several writes, each tried whatever became of those before it *)
Writes(o, texts) ==
  \E failing \in SUBSET DOMAIN texts :
    /\ Len(faults) + Cardinality(failing) <= MaxFaults
    /\ faults' = faults \o [j \in 1..Cardinality(failing) |-> <<"write", arg>>]
    /\ \E cut \in Cuts(failing, texts) :
         out' = [out EXCEPT ![o] = @ \o FlattenSeq(
                   [k \in DOMAIN texts |-> IF k \in failing THEN SubSeq(texts[k], 1, cut[k])
                                                             ELSE texts[k]])]

(* printf(3): a terminal gets a line at once, anything else when the program *)
(* ends, where nobody looks whether the last flush worked.                   *)
Printf(text) ==
  IF cmd.tty THEN out' = [out EXCEPT ![1] = @ \o text] /\ UNCHANGED held
             ELSE held' = held \o text /\ UNCHANGED out
Flush ==
  \/ out' = [out EXCEPT ![1] = @ \o held] /\ UNCHANGED faults
  \/ /\ held # <<>> /\ Fault("flush")
     /\ \E k \in 0..(Len(held) - 1) : out' = [out EXCEPT ![1] = @ \o SubSeq(held, 1, k)]

Exit(rc) ==
  /\ status' = IF rc = 0 THEN "ok" ELSE "error"
  /\ Flush /\ held' = <<>>
  /\ exit_status' = rc
  /\ UNCHANGED <<cmd, walker, offset, state>>

(***************************************************************************)
(* walk_entry() takes 1 for no code it knows, and asserts.                 *)
(***************************************************************************)
Abort == status' = "aborted" /\ UNCHANGED <<cmd, walker, offset, state, held, exit_status>>

(* walk_cmdline_fd(): open(2), before the actor runs *)
AtArg(util) == Running(util) /\ ~opened /\ arg <= Len(cmd.files)
Open(util, start) ==
  /\ AtArg(util)
  /\ opened' = TRUE /\ state' = start
  /\ UNCHANGED <<cmd, arg, offset, exit_status, status, faults>>
OpenFails(util) ==
  /\ AtArg(util) /\ Fault("open")
  /\ arg' = arg + 1 /\ exit_status' = 1
  /\ UNCHANGED <<cmd, opened, offset, state, results, status>>

(* a utility that opens its own files, and ends if it cannot *)
OpenInput(util) ==
  /\ AtArg(util)
  /\ \/ opened' = TRUE /\ UNCHANGED <<exit_status, status, faults>>
     \/ Fault("open") /\ status' = "error" /\ exit_status' = 1 /\ UNCHANGED opened
  /\ UNCHANGED <<cmd, arg, offset, state, results>>

(* walk_cmdline_fd(): the actor has returned 0; close(2) *)
Return ==
  /\ opened' = FALSE /\ arg' = arg + 1
  /\ UNCHANGED <<cmd, status>>
Close == Return /\ UNCHANGED <<exit_status, faults>>
CloseFails == Return /\ Fault("close") /\ exit_status' = 1

WalkDone(util) == Running(util) /\ ~opened /\ arg > Len(cmd.files)
=============================================================================
