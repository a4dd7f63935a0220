-------------------------------- MODULE Sort --------------------------------
(***************************************************************************)
(* sort: the lines of all files are read and sorted; with -m, of the lines *)
(* held, one of each file, the first in the order is written; with -c each *)
(* is compared with the one before.  Lines are numbers, strcoll(3) their   *)
(* order.                                                                  *)
(*                                                                         *)
(* MergeFile::have_line is not initialized.  Where it happens to be TRUE   *)
(* the file's first line is an empty one, which no file has.               *)
(***************************************************************************)
EXTENDS FilterIO

CONSTANT INTROSORT  \* std::sort treats as many elements as a small array

EMPTY == 0

(* mergeFiles: [file, line, have_line]; junk: some have_line was (history) *)
Start == [pc |-> "walk", mergeFiles |-> <<>>, junk |-> FALSE, lines |-> <<>>]
At(pc) == Running("sort") /\ state.pc = pc

line_compare(a, b) == IF cmd.reverse THEN a >= b ELSE a <= b
-----------------------------------------------------------------------------
(***************************************************************************)
(* Without -m.                                                             *)
(***************************************************************************)
Sorting == Running("sort") /\ cmd.mode # "merge"
Begin == Sorting /\ Open("sort", state) /\ UNCHANGED results
BeginFails == Sorting /\ OpenFails("sort")
Reading == At("walk") /\ opened

(* check_line() keeps the previous line even from one file to the next *)
check_line(line) == state.lines = <<>> \/ line_compare(Last(state.lines), line)

sort_actor ==
  /\ Reading /\ Left(arg) > 0 /\ Take(arg, 1)
  /\ LET line == Chunk(arg, 1)[1]
     IN IF cmd.mode = "check" /\ ~check_line(line)
        THEN /\ opened' = FALSE /\ arg' = Len(cmd.files) + 1
             /\ exit_status' = 1 /\ UNCHANGED state
        ELSE /\ state' = [state EXCEPT !.lines =
                            IF cmd.mode = "check" THEN <<line>> ELSE Append(@, line)]
             /\ UNCHANGED <<walker, exit_status>>
  /\ UNCHANGED <<cmd, results, status, faults>>

EndOfFile ==
  /\ Reading /\ Left(arg) = 0
  /\ UNCHANGED <<offset, state, results>> /\ (Close \/ CloseFails)
ReadError ==
  /\ Reading /\ Fault("read") /\ Return /\ exit_status' = 1
  /\ UNCHANGED <<offset, state, results>>

(* line_compare() is no strict order, as std::sort requires: with more lines *)
(* than a small array has it may look for one that stops it beyond the ends, *)
(* if the first or the last in the order is there twice.                     *)
Sorted(lines) == SortSeq(lines, LAMBDA a, b : line_compare(a, b) /\ a # b)
MayRunOut(lines) ==
  /\ Len(lines) > INTROSORT
  /\ \E end \in {Sorted(lines)[1], Last(Sorted(lines))} :
       Cardinality({j \in DOMAIN lines : lines[j] = end}) > 1

sort_mode_post_walk ==
  /\ WalkDone("sort") /\ At("walk") /\ cmd.mode = "sort"
  /\ \/ /\ Printf(Sorted(state.lines))
        /\ state' = [state EXCEPT !.pc = "done"]
        /\ UNCHANGED <<cmd, walker, offset, exit_status, status, faults>>
     \/ MayRunOut(state.lines) /\ Abort /\ UNCHANGED <<out, faults>>

SortDone ==
  \/ At("done") /\ Exit(exit_status)
  \/ WalkDone("sort") /\ cmd.mode = "check" /\ Exit(exit_status)
-----------------------------------------------------------------------------
(***************************************************************************)
(* With -m.                                                                *)
(***************************************************************************)
File(k) == state.mergeFiles[k].file

Merging == Running("sort") /\ cmd.mode = "merge"

(* walk_cmdline_file() and merge_actor(), with WF_NO_CLOSE *)
merge_actor ==
  /\ Merging /\ AtArg("sort")
  /\ arg' = arg + 1
  /\ \/ /\ \E junk \in BOOLEAN :
             state' = [state EXCEPT !.junk = @ \/ junk, !.mergeFiles =
                         Append(@, [file |-> arg, line |-> EMPTY, have_line |-> junk])]
        /\ UNCHANGED <<exit_status, faults>>
     \/ Fault("open") /\ exit_status' = 1 /\ UNCHANGED state
  /\ UNCHANGED <<cmd, opened, offset, results, status>>

Merge ==
  /\ Merging /\ WalkDone("sort") /\ At("walk")
  /\ state' = [state EXCEPT !.pc = "input"]
  /\ UNCHANGED <<cmd, walker, offset, results, exit_status, status, faults>>

(* merge_mode_input_more(): a line of every file that lacks one; the files *)
(* that have none left are dropped                                         *)
merge_mode_input(m) ==
  IF m.have_line \/ Left(m.file) = 0 THEN m
  ELSE [m EXCEPT !.line = Chunk(m.file, 1)[1], !.have_line = TRUE]

merge_mode_input_more ==
  LET read == {m \in Range(state.mergeFiles) : ~m.have_line /\ Left(m.file) > 0}
      filled == [k \in DOMAIN state.mergeFiles |-> merge_mode_input(state.mergeFiles[k])]
      HasLine(m) == m.have_line
  IN /\ At("input")
     /\ offset' = [i \in DOMAIN offset |->
                     offset[i] + (IF \E m \in read : m.file = i THEN 1 ELSE 0)]
     /\ state' = [state EXCEPT !.pc = "output", !.mergeFiles = SelectSeq(filled, HasLine)]
     /\ UNCHANGED <<cmd, walker, results, exit_status, status, faults>>

ReadFails ==
  /\ At("input") /\ \E m \in Range(state.mergeFiles) : ~m.have_line
  /\ Fault("read")
  /\ state' = [state EXCEPT !.pc = "failed"]
  /\ UNCHANGED <<cmd, walker, offset, results, exit_status, status>>

(* The comparisons are with the best so far, from the first file on. *)
merge_mode_next_idx ==
  LET better(best, k) ==
        IF line_compare(state.mergeFiles[best].line, state.mergeFiles[k].line) THEN best ELSE k
  IN FoldLeft(better, 1, [k \in 1..Len(state.mergeFiles) |-> k])

Text(line) == IF line = EMPTY THEN <<>> ELSE <<line>>

merge_mode_output ==
  /\ At("output") /\ state.mergeFiles # <<>>
  /\ Printf(Text(state.mergeFiles[merge_mode_next_idx].line))
  /\ state' = [state EXCEPT !.pc = "input",
                 !.mergeFiles[merge_mode_next_idx].have_line = FALSE]
  /\ UNCHANGED <<cmd, walker, offset, exit_status, status, faults>>

(* merge_mode_post_walk() returns what became of the merge, not of the walk *)
Finish ==
  \/ At("output") /\ state.mergeFiles = <<>> /\ Exit(0)
  \/ At("failed") /\ Exit(1)

Step ==
  \/ Begin \/ BeginFails \/ sort_actor \/ EndOfFile \/ ReadError
  \/ sort_mode_post_walk \/ SortDone
  \/ merge_actor \/ Merge \/ merge_mode_input_more \/ ReadFails
  \/ merge_mode_output \/ Finish
=============================================================================
