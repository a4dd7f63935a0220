--------------------------------- MODULE Blocks ---------------------------------
(***************************************************************************)
(* Utilities that work block by block: cat, cksum, head and wc.            *)
(***************************************************************************)
EXTENDS FilterIO

CONSTANTS COPY_BUF_SZ, HEAD_BUF_SZ, WC_BUFSZ

(***************************************************************************)
(* cat and cksum: every block of every operand, copied with copy_fd() or   *)
(* added to a checksum.  A checksum stands for the octets it is of.        *)
(***************************************************************************)
CatStart == [crc |-> <<>>]
CatUtils == {"cat", "cksum"}
CatReading == status = "running" /\ cmd.util \in CatUtils /\ opened

CatBegin == (\E u \in CatUtils : Open(u, CatStart)) /\ UNCHANGED results
BeginFails == \E u \in CatUtils : OpenFails(u)

copy_fd ==
  /\ CatReading /\ cmd.util = "cat"
  /\ \E n \in Sizes(arg, COPY_BUF_SZ) : Take(arg, n) /\ Write(1, Chunk(arg, n))
  /\ UNCHANGED <<cmd, walker, state, held, exit_status, status>>

copy_fd_fails ==
  /\ CatReading /\ cmd.util = "cat"
  /\ \E n \in Sizes(arg, COPY_BUF_SZ) : WriteFails(1, Chunk(arg, n))
  /\ Abort

updcrc ==
  /\ CatReading /\ cmd.util = "cksum"
  /\ \E n \in Sizes(arg, COPY_BUF_SZ) :
       Take(arg, n) /\ state' = [state EXCEPT !.crc = @ \o Chunk(arg, n)]
  /\ UNCHANGED <<cmd, walker, results, exit_status, status, faults>>

CatReadFails == CatReading /\ Fault("read") /\ Abort /\ UNCHANGED out

(* fincrc() adds the length; cksum_fd() prints *)
fincrc == Append(state.crc, Len(state.crc))
CatEndOfFile ==
  /\ CatReading /\ Left(arg) = 0
  /\ IF cmd.util = "cksum" THEN Printf(<<fincrc>>) ELSE UNCHANGED results
  /\ UNCHANGED <<offset, state>>
  /\ Close \/ CloseFails

CatFinish == (\E u \in CatUtils : WalkDone(u)) /\ Exit(exit_status)

CatStep ==
  \/ CatBegin \/ BeginFails \/ copy_fd \/ copy_fd_fails \/ updcrc \/ CatReadFails
  \/ CatEndOfFile \/ CatFinish
-----------------------------------------------------------------------------
(***************************************************************************)
(* head: copies blocks until it has seen enough newlines.  The header of a *)
(* file goes through stdio, its text does not.                             *)
(***************************************************************************)
HeadStart == [lines |-> 0, done |-> FALSE]
print_header == Len(cmd.files) > 1
do_print_header(i) == IF print_header THEN <<<<"header", i>>>> ELSE <<>>

(* where the line ends in a text that is the n-th it has; 0 if it has fewer *)
Newlines(text) == {j \in 1..Len(text) : text[j] = "newline"}
NthNewline(text, n) ==
  LET ends == {j \in Newlines(text) : Cardinality({i \in Newlines(text) : i <= j}) = n}
  IN IF ends = {} THEN 0 ELSE CHOOSE j \in ends : TRUE

HeadReading == Running("head") /\ opened /\ ~state.done

HeadBegin ==
  /\ Open("head", HeadStart)
  /\ Printf(do_print_header(arg))

(* The last block: whether it can be written is not looked at. *)
LastBlock(text) ==
  /\ Write(1, text) \/ WriteFails(1, text)
  /\ state' = [state EXCEPT !.done = TRUE]

Block(text) ==
  /\ Write(1, text)
  /\ state' = [state EXCEPT !.lines = @ + Cardinality(Newlines(text))]

Read ==
  /\ HeadReading
  /\ \E n \in Sizes(arg, HEAD_BUF_SZ) :
       LET text == Chunk(arg, n)
           enough == NthNewline(text, cmd.head_lines - state.lines)
       IN /\ Take(arg, n)
          /\ IF enough > 0 THEN LastBlock(SubSeq(text, 1, enough)) ELSE Block(text)
  /\ UNCHANGED <<cmd, walker, held, exit_status, status>>

WriteError ==
  /\ HeadReading
  /\ \E n \in Sizes(arg, HEAD_BUF_SZ) :
       /\ NthNewline(Chunk(arg, n), cmd.head_lines - state.lines) = 0
       /\ WriteFails(1, Chunk(arg, n))
  /\ Abort

HeadReadFails == HeadReading /\ Fault("read") /\ Abort /\ UNCHANGED out

HeadEndOfFile ==
  /\ Running("head") /\ opened
  /\ state.done \/ Left(arg) = 0
  /\ UNCHANGED <<offset, state, results>>
  /\ Close \/ CloseFails

HeadFinish == WalkDone("head") /\ Exit(exit_status)

HeadStep ==
  \/ HeadBegin \/ OpenFails("head") \/ Read \/ WriteError \/ HeadReadFails \/ HeadEndOfFile \/ HeadFinish
-----------------------------------------------------------------------------
(***************************************************************************)
(* wc: counts carried from one read to the next, a line of numbers for     *)
(* each file and one for all.  Octets are single characters: "x", a blank  *)
(* and the newline.                                                        *)
(***************************************************************************)
Counts == [bytes |-> 0, chars |-> 0, words |-> 0, lines |-> 0]
Info == [bytes |-> 0, chars |-> 0, words |-> 0, lines |-> 0,
         in_word |-> FALSE, in_line |-> FALSE]
WcStart == [info |-> Info, totals |-> Counts, total_files |-> 0]
isspace(c) == c \in {"blank", "newline"}

count_buf(info, c) ==
  LET word == isspace(c) /\ info.in_word
  IN [bytes |-> info.bytes + 1, chars |-> info.chars + 1,
      words |-> info.words + (IF word THEN 1 ELSE 0),
      lines |-> info.lines + (IF c = "newline" THEN 1 ELSE 0),
      in_word |-> ~isspace(c),
      in_line |-> IF isspace(c) THEN c # "newline" ELSE info.in_line]

(* the end of the file ends the last word and the last line *)
Final(info) ==
  [info EXCEPT !.words = @ + (IF info.in_word THEN 1 ELSE 0),
               !.lines = @ + (IF info.in_line THEN 1 ELSE 0)]

print_info(kind, n) == <<kind, n.lines, n.words, IF cmd.chars THEN n.chars ELSE n.bytes>>

WcReading == Running("wc") /\ opened

WcBegin == Open("wc", [state EXCEPT !.info = Info]) /\ UNCHANGED results

WcRead ==
  /\ WcReading
  /\ \E n \in Sizes(arg, WC_BUFSZ) :
       Take(arg, n) /\ state' = [state EXCEPT !.info = FoldLeft(count_buf, @, Chunk(arg, n))]
  /\ UNCHANGED <<cmd, walker, results, exit_status, status, faults>>

WcReadFails == WcReading /\ Fault("read") /\ Abort /\ UNCHANGED out

(* totals.chars is not summed *)
WcEndOfFile ==
  /\ WcReading /\ Left(arg) = 0
  /\ LET info == Final(state.info)
     IN /\ Printf(<<print_info("file", info)>>)
        /\ state' = [state EXCEPT !.info = info,
                       !.total_files = @ + 1,
                       !.totals = [@ EXCEPT !.bytes = @ + info.bytes,
                                            !.words = @ + info.words,
                                            !.lines = @ + info.lines]]
  /\ UNCHANGED offset
  /\ Close \/ CloseFails

wc_post_walk ==
  /\ WalkDone("wc")
  /\ IF state.total_files > 1
     THEN /\ state' = [state EXCEPT !.total_files = 0]
          /\ Printf(<<print_info("total", state.totals)>>)
          /\ UNCHANGED <<cmd, walker, offset, exit_status, status, faults>>
     ELSE Exit(exit_status)

WcStep ==
  \/ WcBegin \/ OpenFails("wc") \/ WcRead \/ WcReadFails \/ WcEndOfFile \/ wc_post_walk
-----------------------------------------------------------------------------
Utils == CatUtils \cup {"head", "wc"}
Start ==
  CASE cmd.util \in CatUtils -> CatStart
    [] cmd.util = "head" -> HeadStart
    [] cmd.util = "wc" -> WcStart
Step == CatStep \/ HeadStep \/ WcStep
=============================================================================
