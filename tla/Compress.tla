------------------------------- MODULE Compress -------------------------------
(***************************************************************************)
(* compress, uncompress and zcat: what they do to files.  The operand loop *)
(* of main(), compress(), decompress() and setfile(); the coding itself is *)
(* in module Lzw, here a compressed file simply holds the blocks that were *)
(* put into it.                                                            *)
(*                                                                         *)
(* The two functions have one shape.  Each reads one stream and writes     *)
(* another, compress() ifp and zfp, decompress() zfp and ofp, and they are *)
(* called rd and wr here.  What is written stays in the stream's buffer    *)
(* until it is flushed, at the latest when the stream is closed.           *)
(***************************************************************************)
EXTENDS Integers, Sequences

CONSTANTS
  Bases,       \* file names without a suffix
  Blocks,      \* units of data
  NONE,        \* no file
  StartFiles,  \* the files there are, by path
  Commands,    \* [style, cat, force, stdout, ops]; ops is a sequence of paths
  Terminal,    \* TRUE iff standard error is a terminal
  MaxFaults    \* bound on the calls that fail for reasons of their own

VARIABLES
  cmd,            \* the command line
  file,           \* the file system
  idx, eval,      \* main: next operand, exit status so far
  isreg, oreg,    \* input and output are files, the output is one
  rd, wr,         \* the streams: not open, open, or freed by a failed close
  nr,             \* decompress: what the first compress_zread() returned
  st,             \* what stat() said of the input
  pos, buf,       \* blocks read so far, blocks in wr's buffer
  pc,
  leaked,         \* history: outputs a return left open
  unreadable,     \* history: compressed files a read of which failed
  kept,           \* history: outputs unlink() could not remove
  declined,       \* history: operands whose output the user left as it was
  faults

hist == <<leaked, unreadable, kept, declined>>
streams == <<rd, wr, nr, pos, buf>>
vars == <<cmd, file, idx, eval, isreg, oreg, streams, st, pc, hist, faults>>

Suffixes == {"", ".Z"}
(* the operand "-", or none: what /dev/stdin and /dev/stdout may be *)
Stdin == {<<"stdin", "pipe">>, <<"stdin", "file">>}
Stdout == {<<"stdout", "pipe">>, <<"stdout", "file">>}
Operands == (Bases \X Suffixes) \cup Stdin
Paths == Operands \cup Stdout
Files == [kind : {"file", "pipe"}, form : {"plain", "Z", "junk"},
          data : Seq(Blocks), own : {"user", "other"}, setid : BOOLEAN]
CommandLines == [style : {"compress", "decompress"}, cat : BOOLEAN, force : BOOLEAN,
                 stdout : Stdout, ops : Seq(Operands)]

ASSUME CompressAssumption ==
  /\ NONE \notin Files
  /\ StartFiles \in [Paths -> Files \cup {NONE}]
  /\ \A p \in Stdin \cup Stdout : StartFiles[p] # NONE
  /\ Commands \subseteq CommandLines
  /\ \A c \in Commands :
       /\ c.cat => Len(c.ops) <= 1
       /\ \A i, j \in DOMAIN c.ops : c.ops[i] \in Stdin /\ c.ops[j] \in Stdin => i = j
  /\ Terminal \in BOOLEAN /\ MaxFaults \in Nat

Init ==
  /\ cmd \in Commands
  /\ file = StartFiles
  /\ idx = 1 /\ eval = 0
  /\ isreg = FALSE /\ oreg = FALSE
  /\ rd = "closed" /\ wr = "closed" /\ nr = 0 /\ pos = 0 /\ buf = <<>>
  /\ st = [own |-> "user", setid |-> FALSE]
  /\ pc = "operand"
  /\ leaked = {} /\ unreadable = {} /\ kept = {} /\ declined = {}
  /\ faults = 0

Compressing == cmd.style = "compress"
(* the input and output made of an operand *)
Source(i) == IF cmd.ops[i] \in Stdin THEN cmd.ops[i]
             ELSE <<cmd.ops[i][1], IF Compressing THEN "" ELSE ".Z">>
Target(i) == IF cmd.cat \/ cmd.ops[i] \in Stdin THEN cmd.stdout
             ELSE <<cmd.ops[i][1], IF Compressing THEN ".Z" ELSE "">>
In == Source(idx)
Out == Target(idx)
Exists(p) == file[p] # NONE
IsFile(p) == Exists(p) /\ file[p].kind = "file"
Works == UNCHANGED faults
Fault == faults < MaxFaults /\ faults' = faults + 1
Put(p, f) == file' = [file EXCEPT ![p] = f]

(* What the calls make of a file; chown() takes the set-ID bits away.      *)
Created(form) == [kind |-> "file", form |-> form, data |-> <<>>,
                  own |-> "user", setid |-> FALSE]
Truncated(f, form) == [f EXCEPT !.form = form, !.data = <<>>]
Garbled(f) == [f EXCEPT !.form = "junk"]
Extended(f, data) == [f EXCEPT !.data = @ \o data]
Owned(f, own) == [f EXCEPT !.own = own, !.setid = FALSE]
Moded(f, setid) == [f EXCEPT !.setid = setid]
Unlink(p) == Put(p, NONE)
Removable(p) == p \notin Stdin \cup Stdout
OutForm == IF Compressing THEN "Z" ELSE "plain"

(* The function returns, main() takes the next operand.                    *)
NextOperand == idx' = idx + 1 /\ pc' = "operand"
Goto(label) == pc' = label /\ UNCHANGED idx
CloseWrite ==  \* mutant: leaves the input open
  wr' = "closed" /\ UNCHANGED <<rd, nr, pos, buf>>
CloseAll == rd' = "closed" /\ wr' = "closed" /\ UNCHANGED <<nr, pos, buf>>
Warn == eval' = 1

-----------------------------------------------------------------------------
(* main(): compress does not take a name that ends in .Z.                  *)
RefuseOperand ==
  /\ pc = "operand" /\ idx <= Len(cmd.ops)
  /\ Compressing /\ ~cmd.cat /\ cmd.ops[idx][2] = ".Z"
  /\ Warn /\ NextOperand
  /\ Works /\ UNCHANGED <<cmd, file, isreg, oreg, streams, st, hist>>

NeedsPermission == ~cmd.force /\ IsFile(Out)

StartOperand ==
  /\ pc = "operand" /\ idx <= Len(cmd.ops)
  /\ ~(Compressing /\ ~cmd.cat /\ cmd.ops[idx][2] = ".Z")
  /\ oreg' = (Exists(Out) => IsFile(Out)) /\ isreg' = oreg'
  /\ Goto(IF NeedsPermission THEN "permission" ELSE "open_in")
  /\ Works /\ UNCHANGED <<cmd, file, eval, streams, st, hist>>

PermissionGiven ==
  /\ pc = "permission" /\ Terminal
  /\ Goto("open_in")
  /\ Works /\ UNCHANGED <<cmd, file, eval, isreg, oreg, streams, st, hist>>

PermissionDenied ==
  /\ pc = "permission"
  /\ declined' = declined \cup {idx}
  /\ NextOperand
  /\ Works
  /\ UNCHANGED <<cmd, file, eval, isreg, oreg, streams, st, leaked, unreadable,
                 kept>>

-----------------------------------------------------------------------------
(* Opening the two streams.                                                *)
OpenInput ==
  /\ pc = "open_in" /\ Exists(In)
  /\ rd' = "open" /\ nr' = 0 /\ pos' = 0 /\ buf' = <<>>
  /\ Goto("stat_in")
  /\ Works /\ UNCHANGED <<cmd, file, eval, isreg, oreg, wr, st, hist>>

OpenInputFails ==
  /\ pc = "open_in" /\ ((~Exists(In) /\ Works) \/ Fault)
  /\ Warn /\ NextOperand
  /\ UNCHANGED <<cmd, file, isreg, oreg, streams, st, hist>>

StatInput ==
  /\ pc = "stat_in" /\ Exists(In)
  /\ isreg' = (isreg /\ IsFile(In))
  /\ st' = [own |-> file[In].own, setid |-> file[In].setid]
  /\ Goto(IF Compressing THEN "open_out" ELSE "first")
  /\ Works /\ UNCHANGED <<cmd, file, eval, oreg, streams, hist>>

StatInputFails ==
  /\ pc = "stat_in" /\ Fault
  /\ Warn /\ Goto("err")
  /\ UNCHANGED <<cmd, file, isreg, oreg, streams, st, hist>>

(* decompress() reads a first buffer before it opens the output: 0 at the  *)
(* end of the data, -1 for a file that is not compressed.  A read that     *)
(* fails looks like the one or the other.                                  *)
FirstRead ==
  /\ pc = "first"
  /\ \/ /\ Works /\ file[In].form = "Z" /\ file[In].data # <<>>
        /\ nr' = 1 /\ pos' = 1 /\ Goto("open_out")
        /\ UNCHANGED <<rd, eval, unreadable>>
     \/ /\ \/ Works /\ file[In].form # "Z" /\ UNCHANGED unreadable
           \/ Fault /\ unreadable' = unreadable \cup {In}
        /\ nr' = -1 /\ Goto("open_out")
        /\ UNCHANGED <<rd, eval, pos>>
     \/ /\ \/ Works /\ file[In].form = "Z" /\ file[In].data = <<>> /\ UNCHANGED unreadable
           \/ Fault /\ unreadable' = unreadable \cup {In}
        /\ rd' = "closed" /\ Warn /\ NextOperand
        /\ UNCHANGED <<nr, pos>>
  /\ UNCHANGED <<cmd, file, isreg, oreg, wr, buf, st, leaked, kept, declined>>

OpenOutput ==
  /\ pc = "open_out"
  /\ wr' = "open"
  /\ Put(Out, IF Exists(Out) THEN Truncated(file[Out], OutForm) ELSE Created(OutForm))
  /\ Goto(IF Compressing THEN "copy" ELSE "first_write")
  /\ Works /\ UNCHANGED <<cmd, eval, isreg, oreg, rd, nr, pos, buf, st, hist>>

OpenOutputFails ==
  /\ pc = "open_out" /\ Fault
  /\ Warn
  /\ IF Compressing THEN Goto("err") /\ UNCHANGED streams
                    ELSE NextOperand /\ CloseAll
  /\ UNCHANGED <<cmd, file, isreg, oreg, st, hist>>

(* fwrite(buf, 1, nr, ofp): -1 is an enormous number of bytes, of which    *)
(* some are written before the call fails, or faults.                      *)
FirstWrite ==
  /\ pc = "first_write" /\ nr = 1
  /\ buf' = <<file[In].data[1]>>
  /\ Goto("copy")
  /\ Works /\ UNCHANGED <<cmd, file, eval, isreg, oreg, rd, wr, nr, pos, st, hist>>

FirstWriteFails ==  \* returns with ofp open
  /\ pc = "first_write"
  /\ \/ nr = 1 /\ Fault /\ UNCHANGED file
     \/ nr = -1 /\ Works /\ Put(Out, Garbled(file[Out]))
  /\ leaked' = leaked \cup {Out}
  /\ \/ Warn /\ NextOperand /\ CloseAll
     \/ nr = -1 /\ Goto("crashed") /\ UNCHANGED <<eval, streams>>
  /\ UNCHANGED <<cmd, isreg, oreg, st, unreadable, kept, declined>>

-----------------------------------------------------------------------------
(* The copying loop and the two closes.                                    *)
Flushed == Extended(file[Out], buf)

CopyBlock ==
  /\ pc = "copy" /\ pos < Len(file[In].data)
  /\ pos' = pos + 1 /\ buf' = Append(buf, file[In].data[pos + 1])
  /\ Works
  /\ UNCHANGED <<cmd, file, idx, eval, isreg, oreg, rd, wr, nr, st, pc, hist>>

FlushBuffer ==  \* stdio writes when its buffer is full
  /\ pc = "copy" /\ buf # <<>>
  /\ Put(Out, Flushed) /\ buf' = <<>>
  /\ Works /\ UNCHANGED <<cmd, idx, eval, isreg, oreg, rd, wr, nr, pos, st, pc, hist>>

WriteFails ==
  /\ pc = "copy" /\ Fault
  /\ Warn /\ Goto("err")
  /\ UNCHANGED <<cmd, file, isreg, oreg, streams, st, hist>>

ReadEnds ==
  /\ pc = "copy" /\ pos = Len(file[In].data)
  /\ Goto("close_in")
  /\ Works /\ UNCHANGED <<cmd, file, eval, isreg, oreg, streams, st, hist>>

(* compress() asks ferror(); getcode() takes an error for the end.         *)
ReadFails ==
  /\ pc = "copy" /\ Fault
  /\ IF Compressing
     THEN Warn /\ Goto("err") /\ UNCHANGED unreadable
     ELSE Goto("close_in") /\ unreadable' = unreadable \cup {In} /\ UNCHANGED eval
  /\ UNCHANGED <<cmd, file, isreg, oreg, streams, st, leaked, kept, declined>>

CloseInput ==
  /\ pc = "close_in"
  /\ \/ Works /\ rd' = "closed" /\ Goto("close_out") /\ UNCHANGED eval
     \/ Fault /\ rd' = "freed" /\ Warn /\ Goto("err")
  /\ UNCHANGED <<cmd, file, isreg, oreg, wr, nr, pos, buf, st, hist>>

CloseOutputMutant ==  \* mutant: a failed close goes unnoticed
  /\ pc = "close_out"
  /\ \/ Works /\ Put(Out, Flushed)
     \/ Fault /\ UNCHANGED file
  /\ wr' = "closed" /\ buf' = <<>>
  /\ UNCHANGED <<cmd, eval, isreg, oreg, rd, nr, pos, st, hist>>
  /\ IF isreg THEN Goto(IF Compressing THEN "stat_out" ELSE "utime") ELSE NextOperand

CloseOutput ==
  /\ pc = "close_out"
  /\ \/ /\ Works /\ Put(Out, Flushed) /\ wr' = "closed" /\ UNCHANGED eval
        /\ IF isreg THEN Goto(IF Compressing THEN "stat_out" ELSE "utime")
                    ELSE NextOperand
     \/ Fault /\ wr' = "freed" /\ Warn /\ Goto("err") /\ UNCHANGED file
  /\ buf' = <<>>
  /\ UNCHANGED <<cmd, isreg, oreg, rd, nr, pos, st, hist>>

-----------------------------------------------------------------------------
(* compress() keeps its output only if it is smaller, unless -f is given.  *)
StatOutput ==
  /\ pc = "stat_out"
  /\ Goto("utime")
  /\ Works /\ UNCHANGED <<cmd, file, eval, isreg, oreg, streams, st, hist>>

StatOutputFails ==
  /\ pc = "stat_out" /\ Fault
  /\ Warn /\ NextOperand
  /\ UNCHANGED <<cmd, file, isreg, oreg, streams, st, hist>>

WouldGrow ==
  /\ pc = "stat_out" /\ ~cmd.force
  /\ \/ Works /\ Removable(Out) /\ Unlink(Out) /\ eval' = 2 /\ UNCHANGED kept
     \/ /\ (Works /\ ~Removable(Out)) \/ Fault
        /\ Warn /\ kept' = kept \cup {Out} /\ UNCHANGED file
  /\ NextOperand
  /\ UNCHANGED <<cmd, isreg, oreg, streams, st, leaked, unreadable, declined>>

(* setfile(): owner first, the set-ID bits only under the right owner.     *)
SetTimes ==
  /\ pc = "utime"
  /\ (Works /\ UNCHANGED eval) \/ (Fault /\ Warn)
  /\ Goto("chown")
  /\ UNCHANGED <<cmd, file, isreg, oreg, streams, st, hist>>

SetOwnerMutant ==  \* mutant: keeps the bits when chown() fails
  /\ pc = "chown"
  /\ \/ Works /\ Put(Out, Owned(file[Out], st.own))
        /\ UNCHANGED eval
     \/ Works /\ st.own # "user" /\ UNCHANGED <<file, eval>>
     \/ Fault /\ Warn /\ UNCHANGED file
  /\ Goto("chmod")
  /\ UNCHANGED <<cmd, isreg, oreg, streams, st, hist>>

SetOwner ==
  /\ pc = "chown"
  /\ \/ /\ Works /\ Put(Out, Owned(file[Out], st.own))
        /\ UNCHANGED <<eval, st>>
     \/ \* EPERM
        /\ Works /\ st.own # "user" /\ st' = [st EXCEPT !.setid = FALSE]
        /\ UNCHANGED <<file, eval>>
     \/ Fault /\ Warn /\ st' = [st EXCEPT !.setid = FALSE] /\ UNCHANGED file
  /\ Goto("chmod")
  /\ UNCHANGED <<cmd, isreg, oreg, streams, hist>>

SetMode ==
  /\ pc = "chmod"
  /\ \/ Works /\ Put(Out, Moded(file[Out], st.setid)) /\ UNCHANGED eval
     \/ Fault /\ Warn /\ UNCHANGED file
  /\ Goto("unlink_in")
  /\ UNCHANGED <<cmd, isreg, oreg, streams, st, hist>>

RemoveInputMutant ==  \* mutant: does not report that the input stays
  /\ pc = "unlink_in"
  /\ \/ Works /\ Removable(In) /\ Unlink(In)
     \/ (IF Removable(In) THEN Fault ELSE Works) /\ UNCHANGED file
  /\ NextOperand
  /\ UNCHANGED <<cmd, eval, isreg, oreg, streams, st, hist>>

RemoveInput ==
  /\ pc = "unlink_in"
  /\ \/ Works /\ Removable(In) /\ Unlink(In) /\ UNCHANGED eval
     \/ (IF Removable(In) THEN Fault ELSE Works) /\ Warn /\ UNCHANGED file
  /\ NextOperand
  /\ UNCHANGED <<cmd, isreg, oreg, streams, st, hist>>

-----------------------------------------------------------------------------
(* err: the output is removed if it was opened and is a file; then what is *)
(* still set is closed, which is undefined for a stream freed before.      *)
CleanUpMutant ==  \* mutant: does not remove the output
  /\ pc = "err"
  /\ IF wr = "open" THEN Put(Out, Flushed) ELSE UNCHANGED file
  /\ CloseAll /\ NextOperand
  /\ Works /\ UNCHANGED <<cmd, eval, isreg, oreg, st, hist>>

Removing == wr # "closed" /\ oreg

CleanUp ==
  /\ pc = "err"
  /\ \/ /\ Works /\ Removing /\ Removable(Out)
        /\ Unlink(Out) /\ UNCHANGED kept
     \/ /\ (Works /\ ~(Removing /\ Removable(Out))) \/ (Removing /\ Fault)
        /\ IF wr = "open" THEN Put(Out, Flushed) ELSE UNCHANGED file
        /\ kept' = IF Removing THEN kept \cup {Out} ELSE kept
  /\ \/ NextOperand /\ CloseAll
     \/ "freed" \in {rd, wr} /\ Goto("crashed") /\ UNCHANGED streams
  /\ UNCHANGED <<cmd, eval, isreg, oreg, st, leaked, unreadable, declined>>

Exit ==
  /\ pc = "operand" /\ idx > Len(cmd.ops)
  /\ Goto("done")
  /\ Works /\ UNCHANGED <<cmd, file, eval, isreg, oreg, streams, st, hist>>

Step ==
  \/ RefuseOperand \/ StartOperand \/ PermissionGiven \/ PermissionDenied
  \/ OpenInput \/ OpenInputFails \/ StatInput \/ StatInputFails \/ FirstRead
  \/ OpenOutput \/ OpenOutputFails \/ FirstWrite \/ FirstWriteFails
  \/ CopyBlock \/ FlushBuffer \/ WriteFails \/ ReadEnds \/ ReadFails
  \/ CloseInput \/ CloseOutput \/ StatOutput \/ StatOutputFails \/ WouldGrow
  \/ SetTimes \/ SetOwner \/ SetMode \/ RemoveInput \/ CleanUp \/ Exit
Done == pc \in {"done", "crashed"} /\ UNCHANGED vars
Next == Step \/ Done

Spec == Init /\ [][Next]_vars
-----------------------------------------------------------------------------
(* What compress and uncompress promise.                                   *)

Writing == {"first_write", "copy", "close_in", "close_out"}
Closing == {"stat_out", "utime", "chown", "chmod", "unlink_in"}
Busy == {"permission", "open_in", "stat_in", "first", "open_out", "err"}
        \cup Writing \cup Closing

(* Type correctness: the variables keep their types, and outside of the    *)
(* two functions no stream is open.                                        *)
TypeOK ==
  /\ cmd \in Commands /\ file \in [Paths -> Files \cup {NONE}]
  /\ idx \in 1..(Len(cmd.ops) + 1) /\ eval \in 0..2
  /\ isreg \in BOOLEAN /\ oreg \in BOOLEAN
  /\ {rd, wr} \subseteq {"closed", "open", "freed"} /\ nr \in {-1, 0, 1}
  /\ pos \in Nat /\ buf \in Seq(Blocks)
  /\ st \in [own : {"user", "other"}, setid : BOOLEAN]
  /\ pc \in Busy \cup {"operand", "done", "crashed"} /\ faults \in 0..MaxFaults
  /\ leaked \cup unreadable \cup kept \subseteq Paths /\ declined \subseteq 1..Len(cmd.ops)
  /\ pc \in {"operand", "done"} => rd = "closed" /\ wr = "closed"

Holds(p, i) ==  \* p holds the whole of operand i's data
  /\ Exists(p)
  /\ file[p].data = StartFiles[Source(i)].data
  /\ file[p].form \in {StartFiles[Source(i)].form, OutForm}

(* Files are replaced one by one (Replacement): the input is removed only  *)
(* when its data is completely written out, so that nothing is lost when a *)
(* call fails or the program is killed at any point, an operand that fails *)
(* keeps its input, and the status tells (compress.cc:231-262, 345-354).   *)
(* A read error in a compressed file is the exception, for which the data  *)
(* counts as being everywhere: getcode() takes it for the end.  What comes *)
(* from a pipe cannot be kept, only sent.  Of an operand that is given     *)
(* twice nothing is said.                                                  *)
Alone(i) == \A j \in DOMAIN cmd.ops \ {i} : Source(j) # Source(i)
Keeps(i) == StartFiles[Source(i)].kind = "file" /\ IsFile(Target(i))
place == [i \in DOMAIN cmd.ops |->
  {w \in {"source", "target", "sent"} :
     \/ ~Alone(i) \/ Source(i) \in unreadable
     \/ /\ StartFiles[Source(i)] # NONE
        /\ \/ w = "source" /\ IsFile(Source(i)) /\ Holds(Source(i), i)
           \/ w = "target" /\ Keeps(i) /\ Holds(Target(i), i)
           \/ w = "sent" /\ ~Keeps(i) /\ Holds(Target(i), i)}]
replacement == INSTANCE Replacement WITH next <- idx, status <- eval, others <- 0
Replaces == replacement!Spec

(* compress.cc:379-391: a set-ID bit is set only under the owner it was    *)
(* granted by, at every moment and whatever chown() and chmod() return.    *)
SetidOnlyForOwner ==
  \A p \in Paths : Exists(p) /\ file[p].setid =>
    \E q \in Paths : /\ StartFiles[q] # NONE /\ StartFiles[q].setid
                     /\ StartFiles[q].own = file[p].own

(* compress.cc:276-279, 358-361: no half-written output is left behind: an *)
(* output that was not there is absent again or complete between operands, *)
(* unless it could not be removed.  Nor does it hold where decompress()    *)
(* returns with ofp open, or read an error as the end.                     *)
NoHalfOutput ==
  pc \in {"operand", "done"} =>
    \A i \in DOMAIN cmd.ops :
      /\ StartFiles[Target(i)] = NONE /\ Source(i) \notin unreadable
      /\ Target(i) \notin leaked \cup kept
      => ~Exists(Target(i)) \/ Holds(Target(i), i)

(* Exit status 0 means that every operand the user did not decline to      *)
(* overwrite was replaced by its output, complete and with its owner or,   *)
(* if that was not permitted, without its set-ID bits.                     *)
StatusZeroMeansReplaced ==
  pc = "done" /\ eval = 0 =>
    \A i \in DOMAIN cmd.ops \ declined : Source(i) \notin unreadable =>
      /\ Holds(Target(i), i)
      /\ ~(IsFile(Target(i)) /\ IsFile(Source(i)))

(* compress.cc:313-316: the first bytes are read before the output is      *)
(* truncated, so that a file that is no compressed one destroys nothing.   *)
BadInputDestroysNothing ==
  ~Compressing /\ faults = 0 =>
    \A i \in DOMAIN cmd.ops :
      StartFiles[Source(i)] # NONE /\ StartFiles[Source(i)].form # "Z" =>
        file[Target(i)] = StartFiles[Target(i)]
=============================================================================
