-------------------------------- MODULE Outputs --------------------------------
(***************************************************************************)
(* tee and split, which write to outputs of their own.                     *)
(***************************************************************************)
EXTENDS FilterIO

CONSTANTS
  TEE_BUF_SZ,
  INBUF,     \* sizeof(inbuf)
  MaxPieces   \* how many names a suffix of opt_suffix_len letters gives
-----------------------------------------------------------------------------
(***************************************************************************)
(* tee: opens its operands for output, then copies each block to those     *)
(* outputs that have not failed so far.  out[1] is standard output.        *)
(***************************************************************************)
TeeStart == [pc |-> "open", skip |-> {}]
TeeAt(pc) == Running("tee") /\ state.pc = pc
GoTo(pc) == state' = [state EXCEPT !.pc = pc]

build_flist_actor ==
  /\ TeeAt("open") /\ Len(out) <= cmd.outputs
  /\ \/ out' = Append(out, <<>>) /\ UNCHANGED <<cmd, walker, offset, state, held, exit_status, status, faults>>
     \/ Fault("open") /\ Abort /\ UNCHANGED out

(* O_NONBLOCK is set on standard input; where that fails nothing is copied *)
tee_post_walk ==
  /\ TeeAt("open") /\ Len(out) > cmd.outputs
  /\ \/ GoTo("copy") /\ UNCHANGED <<exit_status, faults>>
     \/ GoTo("close") /\ Fault("fcntl") /\ exit_status' = 1
  /\ UNCHANGED <<cmd, walker, offset, results, status>>

(* as if a failing output ended the loop over the outputs *)
CopyMutant ==
  /\ TeeAt("copy")
  /\ \E n \in Sizes(1, TEE_BUF_SZ), o \in DOMAIN out \ state.skip :
       /\ Fault("write")
       /\ out' = [p \in DOMAIN out |->
                    IF p < o /\ p \notin state.skip THEN out[p] \o Chunk(1, n) ELSE out[p]]
       /\ state' = [state EXCEPT !.skip = @ \cup {o}]
       /\ exit_status' = 1
       /\ Take(1, n)
  /\ UNCHANGED <<cmd, walker, held, status>>

(* tee_output_bytes(): cut[o] is how much of the block a failing output takes *)
Copy ==
  /\ TeeAt("copy")
  /\ \E n \in Sizes(1, TEE_BUF_SZ) : \E failing \in SUBSET (DOMAIN out \ state.skip) :
       \E cut \in [failing -> 0..(n - 1)] :
         LET sent(o) == IF o \in state.skip THEN 0 ELSE IF o \in failing THEN cut[o] ELSE n
         IN /\ Len(faults) + Cardinality(failing) <= MaxFaults
            /\ faults' = faults \o [j \in 1..Cardinality(failing) |-> <<"write", arg>>]
            /\ out' = [o \in DOMAIN out |-> out[o] \o SubSeq(Chunk(1, n), 1, sent(o))]
            /\ state' = [state EXCEPT !.skip = @ \cup failing]
            /\ exit_status' = IF failing = {} THEN exit_status ELSE 1
            /\ Take(1, n)
  /\ UNCHANGED <<cmd, walker, held, status>>

(* select(2) or read(2) fails: rc is set, err is not *)
CopyEnds ==
  /\ TeeAt("copy") /\ GoTo("close")
  /\ (Left(1) = 0 /\ UNCHANGED faults) \/ Fault("read")
  /\ UNCHANGED <<cmd, walker, offset, results, exit_status, status>>

(* free_flist() *)
free_flist ==
  /\ TeeAt("close")
  /\ \/ Exit(exit_status)
     \/ /\ Fault("close") /\ status' = "error" /\ exit_status' = 1
        /\ UNCHANGED <<cmd, walker, offset, state, results>>

TeeStep == build_flist_actor \/ tee_post_walk \/ Copy \/ CopyEnds \/ free_flist
-----------------------------------------------------------------------------
(***************************************************************************)
(* split: cuts a file into pieces of opt_piece_size octets or lines.  out  *)
(* has the pieces in the order of their names.                             *)
(***************************************************************************)
SplitStart == [buf |-> <<>>, eof |-> FALSE, open |-> FALSE, suffix |-> 0,
          output_count |-> 0, rc |-> 0]

SplitAt(test) == Running("split") /\ test
Going == state.rc = 0 /\ ~(state.eof /\ state.buf = <<>>)
Private == <<cmd, walker, held, exit_status, status>>

(* fgets(3) returns up to a newline, or as much as fits *)
Line ==
  LET room == Least(INBUF, Left(1))
      ends == {j \in 1..room : Chunk(1, j)[j] = "newline"}
  IN IF ends = {} THEN room ELSE Min(ends)

SplitReading == SplitAt(opened /\ Going /\ state.buf = <<>>)

SplitBegin == OpenInput("split")

(* A block that is not full is the last. *)
SplitRead ==
  /\ SplitReading
  /\ LET n == IF cmd.lines THEN Line ELSE Least(INBUF, Left(1))
     IN /\ Take(1, n)
        /\ state' = [state EXCEPT !.buf = Chunk(1, n),
                       !.eof = IF cmd.lines THEN n = 0 ELSE n < INBUF]
  /\ UNCHANGED <<Private, out, faults>>

SplitReadFails ==
  /\ SplitReading /\ Fault("read")
  /\ state' = [state EXCEPT !.rc = 1]
  /\ UNCHANGED <<Private, offset, out>>

(* open_output() and incr_suffix() *)
open_output ==
  /\ SplitAt(opened /\ Going /\ state.buf # <<>> /\ ~state.open)
  /\ IF state.suffix = MaxPieces
     THEN state' = [state EXCEPT !.rc = 1] /\ UNCHANGED <<out, faults>>
     ELSE \/ /\ state' = [state EXCEPT !.suffix = @ + 1, !.open = TRUE]
             /\ out' = Append(out, <<>>) /\ UNCHANGED faults
          \/ /\ state' = [state EXCEPT !.suffix = @ + 1, !.rc = 1]
             /\ Fault("open") /\ UNCHANGED out
  /\ UNCHANGED <<Private, offset>>

(* as if the piece were always empty when a block begins *)
wlenMutant == IF cmd.lines THEN Len(state.buf) ELSE Least(cmd.piece_size, Len(state.buf))

(* what goes to the piece that is open, and what that counts for *)
wlen == IF cmd.lines THEN Len(state.buf)
        ELSE Least(cmd.piece_size - state.output_count, Len(state.buf))
incr == IF cmd.lines THEN 1 ELSE wlen

Remaining(n) == SubSeq(state.buf, n + 1, Len(state.buf))

output_bytes ==
  /\ SplitAt(opened /\ Going /\ state.buf # <<>> /\ state.open)
  /\ LET text == SubSeq(state.buf, 1, wlen)
         full == state.output_count + incr = cmd.piece_size
         next == [state EXCEPT !.buf = Remaining(wlen)]
     IN \/ /\ Write(Len(out), text) /\ ~full
           /\ state' = [next EXCEPT !.output_count = @ + incr]
        \/ /\ Write(Len(out), text) /\ full
           /\ state' = [next EXCEPT !.open = FALSE, !.output_count = 0]
        \/ /\ full /\ Fault("close")
           /\ out' = [out EXCEPT ![Len(out)] = @ \o text]
           /\ state' = [next EXCEPT !.open = FALSE, !.output_count = 0, !.rc = 1]
        \/ WriteFails(Len(out), text) /\ state' = [state EXCEPT !.rc = 1]
  /\ UNCHANGED <<Private, offset>>

(* execute_split() closes the last piece, and fails whatever has happened *)
SplitFinish ==
  /\ SplitAt(opened /\ ~Going)
  /\ status' = "error"
  /\ \/ exit_status' = state.rc /\ UNCHANGED faults
     \/ state.open /\ Fault("close") /\ exit_status' = 1
  /\ UNCHANGED <<cmd, walker, offset, state, results>>

SplitStep == SplitBegin \/ SplitRead \/ SplitReadFails \/ open_output \/ output_bytes \/ SplitFinish
=============================================================================
