-------------------------------- MODULE Compare --------------------------------
(***************************************************************************)
(* Utilities that compare the lines or the octets of files: uniq, comm and *)
(* cmp.                                                                    *)
(***************************************************************************)
EXTENDS FilterIO

(***************************************************************************)
(* uniq: a line is held until one differs from it.  Lines are numbers.     *)
(***************************************************************************)
UniqStart == [have_last_line |-> FALSE, last_line |-> 0, last_line_dups |-> 0]

Lines == IF state.have_last_line THEN <<<<state.last_line, state.last_line_dups>>>> ELSE <<>>

(* do_uniq() opens the source, then the destination *)
UniqBegin == OpenInput("uniq")

UniqReading == Running("uniq") /\ opened /\ arg = 1

process_line ==
  /\ UniqReading /\ Left(1) > 0 /\ Take(1, 1)
  /\ LET line == Chunk(1, 1)[1]
     IN IF state.have_last_line /\ line = state.last_line
        THEN /\ state' = [state EXCEPT !.last_line_dups = @ + 1]
             /\ UNCHANGED results
        ELSE /\ state' = [have_last_line |-> TRUE, last_line |-> line, last_line_dups |-> 1]
             /\ Printf(Lines)
  /\ UNCHANGED <<cmd, walker, exit_status, status, faults>>

(* fgets(3) finds the end of the file, or fails *)
LastLine ==
  /\ UniqReading /\ Printf(Lines)
  /\ \/ Left(1) = 0 /\ UNCHANGED <<exit_status, faults>>
     \/ Fault("read") /\ exit_status' = 1
  /\ arg' = 2
  /\ UNCHANGED <<cmd, opened, offset, state, status>>

(* fclose(outf) may fail, for which there is a message but no status *)
UniqFinish == Running("uniq") /\ arg = 2 /\ Exit(exit_status)

UniqStep == UniqBegin \/ process_line \/ LastLine \/ UniqFinish
-----------------------------------------------------------------------------
(***************************************************************************)
(* comm: a line of each file is held until it is known to be in one file   *)
(* or in both.  Lines are numbers, strcoll(3) their order.                 *)
(***************************************************************************)
(* line[i] is the line held of file i; there is none where it is 0 *)
CommStart == [line |-> <<0, 0>>, want |-> <<TRUE, TRUE>>]

OPT_FILE1 == 1
OPT_FILE2 == 2
OPT_DUP == 3
line_out(ltype, line) == IF ltype \in cmd.outmask THEN <<>> ELSE <<<<ltype, line>>>>

CommBegin == OpenInput("comm")

Comparing == Running("comm") /\ opened
Needs(i) == state.want[i] /\ state.line[i] = 0

ReadLine(i) ==
  /\ Comparing /\ Needs(i)
  /\ i = 2 => ~Needs(1)
  /\ IF Left(i) > 0
     THEN Take(i, 1) /\ state' = [state EXCEPT !.line[i] = Chunk(i, 1)[1]]
     ELSE state' = [state EXCEPT !.want[i] = FALSE] /\ UNCHANGED offset
  /\ UNCHANGED <<cmd, walker, results, exit_status, status, faults>>

CommReadFails(i) ==
  /\ Comparing /\ Needs(i) /\ (i = 2 => ~Needs(1)) /\ Fault("read")
  /\ opened' = FALSE /\ arg' = 3 /\ exit_status' = 1
  /\ UNCHANGED <<cmd, offset, state, results, status>>

(* the loop body, once both lines are as they should be *)
Held == ~Needs(1) /\ ~Needs(2)
CompareLines ==
  LET l1 == state.line[1]
      l2 == state.line[2]
  IN /\ Comparing /\ Held /\ l1 + l2 > 0
     /\ \/ /\ l1 = 0 \/ (l2 > 0 /\ l1 > l2)
           /\ Printf(line_out(OPT_FILE2, l2)) /\ state' = [state EXCEPT !.line[2] = 0]
        \/ /\ l2 = 0 \/ (l1 > 0 /\ l1 < l2)
           /\ Printf(line_out(OPT_FILE1, l1)) /\ state' = [state EXCEPT !.line[1] = 0]
        \/ /\ l1 = l2
           /\ Printf(line_out(OPT_DUP, l1)) /\ state' = [state EXCEPT !.line = <<0, 0>>]
     /\ UNCHANGED <<cmd, walker, offset, exit_status, status, faults>>

BothEnded ==
  /\ Comparing /\ Held /\ state.line = <<0, 0>>
  /\ opened' = FALSE /\ arg' = 3
  /\ UNCHANGED <<cmd, offset, state, results, exit_status, status, faults>>

CommFinish == Running("comm") /\ arg = 3 /\ Exit(exit_status)

CommStep ==
  \/ CommBegin \/ (\E i \in {1, 2} : ReadLine(i) \/ CommReadFails(i))
  \/ CompareLines \/ BothEnded \/ CommFinish
-----------------------------------------------------------------------------
(***************************************************************************)
(* cmp: an octet of each file at a time, with getc(3).  Nobody asks why    *)
(* there is none.                                                          *)
(***************************************************************************)
CmpStart == [bytes |-> 0, lines |-> 1, diff |-> FALSE]
EOF == "EOF"

(* fopen(3) of one file, then of the other *)
cmp_open ==
  /\ AtArg("cmp")
  /\ \/ /\ arg' = arg + 1 /\ opened' = (arg = 2)
        /\ UNCHANGED <<exit_status, status, faults>>
     \/ /\ Fault("open") /\ status' = "error" /\ exit_status' = 2
        /\ UNCHANGED walker
  /\ UNCHANGED <<cmd, offset, state, results>>

getc(i, failing) == IF i \in failing \/ Left(i) = 0 THEN EOF ELSE Chunk(i, 1)[1]
Failures(failing) ==
  /\ Len(faults) + Cardinality(failing) <= MaxFaults
  /\ faults' = faults \o [j \in 1..Cardinality(failing) |-> <<"read", arg>>]

(* one turn of the loop *)
Differ(c1, c2) ==
  LET here == <<state'.bytes, c1, c2>>
      where == <<"differ", state'.bytes, state'.lines>>
  IN Printf(IF cmd.silent THEN <<>> ELSE IF cmd.verbose THEN <<here>> ELSE <<where>>)

cmp_post_walk ==
  \E failing \in SUBSET {1, 2} :
    LET c1 == getc(1, failing)
        c2 == getc(2, failing)
        eof == EOF \in {c1, c2}
        diff == ~eof /\ (state.diff \/ c1 # c2)
        last == eof \/ (diff /\ (cmd.silent \/ ~cmd.verbose))
    IN /\ Running("cmp") /\ opened /\ Failures(failing)
       /\ offset' = [i \in DOMAIN offset |->
                       offset[i] + (IF getc(i, failing) = EOF THEN 0 ELSE 1)]
       /\ state' = [bytes |-> state.bytes + 1, diff |-> state.diff \/ diff,
                    lines |-> state.lines + (IF c1 = "newline" THEN 1 ELSE 0)]
       /\ IF diff THEN Differ(c1, c2) ELSE UNCHANGED results
       /\ opened' = ~last
       /\ exit_status' = IF last /\ (diff \/ c1 # c2) THEN 1 ELSE 0
       /\ UNCHANGED <<cmd, arg, status>>

CmpFinish == WalkDone("cmp") /\ Exit(exit_status)

CmpStep == cmp_open \/ cmp_post_walk \/ CmpFinish
-----------------------------------------------------------------------------
Utils == {"uniq", "comm", "cmp"}
Start ==
  CASE cmd.util = "uniq" -> UniqStart
    [] cmd.util = "comm" -> CommStart
    [] cmd.util = "cmp" -> CmpStart
Step == UniqStep \/ CommStep \/ CmpStep
=============================================================================
