--------------------------------- MODULE Search ---------------------------------
(***************************************************************************)
(* Utilities that look for something in every line: grep and what.         *)
(***************************************************************************)
EXTENDS FilterIO

(***************************************************************************)
(* grep: a line at a time, against all patterns.  Lines are numbers, and a *)
(* pattern is the set of lines that regexec(3) or strstr(3) finds it in.   *)
(***************************************************************************)
GrepStart == [n_lines |-> 0, n_matches |-> 0, total_matches |-> 0, stop |-> FALSE]

match_regex(line) == \E p \in cmd.patterns : line \in p
Selected(line) == match_regex(line) # cmd.match_invert

n_files == Len(cmd.files)
pr_fn == IF n_files > 1 THEN <<arg>> ELSE <<>>
numbuf(n) == IF cmd.OUT_LINENO THEN <<n>> ELSE <<>>

(* grep_pre_walk() takes the first operand for a pattern if there is no other *)
NoPatterns ==
  /\ Running("grep") /\ cmd.patterns = {}
  /\ status' = "error" /\ exit_status' = 2
  /\ UNCHANGED <<cmd, walker, offset, state, results, faults>>

Searching == Running("grep") /\ cmd.patterns # {}
GrepBegin ==
  /\ Searching
  /\ Open("grep", [state EXCEPT !.n_lines = 0, !.n_matches = 0, !.stop = FALSE])
  /\ UNCHANGED results

GrepReading == Running("grep") /\ opened
More == GrepReading /\ ~state.stop

(* what is written of a line that is selected, the n-th *)
Content(line, n) ==
  CASE cmd.opt_output = "content" -> <<<<pr_fn, numbuf(n), line>>>>
    [] cmd.opt_output = "path" -> <<<<"path", arg>>>>
    [] cmd.opt_output \in {"none", "count"} -> <<>>

grep_line ==
  /\ More /\ Left(arg) > 0 /\ Take(arg, 1)
  /\ LET line == Chunk(arg, 1)[1]
         match == Selected(line)
     IN /\ state' = [state EXCEPT !.n_lines = @ + 1,
                       !.n_matches = @ + (IF match THEN 1 ELSE 0),
                       !.stop = match /\ cmd.opt_output \in {"none", "path"}]
        /\ Printf(IF match THEN Content(line, state.n_lines + 1) ELSE <<>>)
  /\ UNCHANGED <<cmd, walker, exit_status, status, faults>>

(* grep_file() gives a read that failed the status 2, and then             *)
(* walk_cmdline_file() finds the error once more and makes it 1.           *)
Ended ==
  /\ Printf(IF cmd.opt_output = "count" THEN <<<<pr_fn, state.n_matches>>>> ELSE <<>>)
  /\ state' = [state EXCEPT !.total_matches = @ + state.n_matches]
  /\ UNCHANGED offset
GrepEndOfFile ==
  /\ GrepReading /\ (Left(arg) = 0 \/ state.stop)
  /\ Ended /\ (Close \/ CloseFails)
GrepReadFails == More /\ Fault("read") /\ Ended /\ Return /\ exit_status' = 1

grep_post_walk ==
  IF state.total_matches > 0 /\ cmd.opt_output = "none" THEN 0
  ELSE IF exit_status > 1 THEN exit_status
  ELSE IF state.total_matches > 0 THEN 0 ELSE 1

GrepFinish == Searching /\ WalkDone("grep") /\ Exit(grep_post_walk)

GrepStep ==
  \/ NoPatterns \/ GrepBegin \/ (Searching /\ OpenFails("grep"))
  \/ grep_line \/ GrepEndOfFile \/ GrepReadFails \/ GrepFinish
-----------------------------------------------------------------------------
(***************************************************************************)
(* what: the texts after "@(#)" in each line, up to a terminator.  A file  *)
(* is a sequence of lines, a line one of "@(#)" (a delimiter), terminators *)
(* other than the newline, which is left out, and other characters.        *)
(***************************************************************************)
WhatStart == [stop |-> FALSE]

(* strstr(3), is_terminator() and restart: a delimiter within a text found *)
(* is part of that text                                                    *)
Scan(found, ch) ==
  IF found.inside
  THEN IF ch = "terminator"
       THEN [found EXCEPT !.inside = FALSE]
       ELSE [found EXCEPT !.texts = Append(Front(@), Append(Last(@), ch))]
  ELSE IF ch = "delimiter" THEN [inside |-> TRUE, texts |-> Append(found.texts, <<>>)]
       ELSE found
Texts(line) == FoldLeft(Scan, [inside |-> FALSE, texts |-> <<>>], line).texts

WhatBegin == Open("what", WhatStart) /\ UNCHANGED results
WhatReading == Running("what") /\ opened

what_actor ==
  /\ WhatReading /\ ~state.stop /\ Left(arg) > 0 /\ Take(arg, 1)
  /\ LET texts == Texts(Chunk(arg, 1)[1])
         printed == IF cmd.short /\ texts # <<>> THEN <<texts[1]>> ELSE texts
     IN /\ Printf([k \in 1..Len(printed) |-> <<arg, printed[k]>>])
        /\ state' = [stop |-> cmd.short /\ texts # <<>>]
  /\ UNCHANGED <<cmd, walker, exit_status, status, faults>>

WhatEndOfFile ==
  /\ WhatReading /\ (state.stop \/ Left(arg) = 0)
  /\ UNCHANGED <<offset, state, results>> /\ (Close \/ CloseFails)
WhatReadFails ==
  /\ WhatReading /\ ~state.stop /\ Fault("read") /\ Return /\ exit_status' = 1
  /\ UNCHANGED <<offset, state, results>>

WhatFinish == WalkDone("what") /\ Exit(exit_status)

WhatStep ==
  \/ WhatBegin \/ OpenFails("what") \/ what_actor \/ WhatEndOfFile \/ WhatReadFails \/ WhatFinish
-----------------------------------------------------------------------------
Utils == {"grep", "what"}
Start ==
  CASE cmd.util = "grep" -> GrepStart
    [] cmd.util = "what" -> WhatStart
Step == GrepStep \/ WhatStep
=============================================================================
