------------------------------ MODULE Characters ------------------------------
(***************************************************************************)
(* strings, expand and uuencode, which carry something from one character  *)
(* to the next.                                                            *)
(***************************************************************************)
EXTENDS FilterIO

CONSTANTS BUFLEN, UUE_BUF_SZ, LN_MAX, CHUNK_SZ
-----------------------------------------------------------------------------
(***************************************************************************)
(* strings: looks for separators in a buffer, keeps what follows the last  *)
(* one for the next read, and drops the front of that when it is too long. *)
(***************************************************************************)
StringsStart == [buf |-> <<>>]
IsSep(c) == c = "newline"
isprint(c) == c = "x"

(* the pieces of a text that a separator ends, and what follows the last *)
Seps(text) == {j \in 1..Len(text) : IsSep(text[j])}
Pieces(text) ==
  LET sep == SetToSortSeq(Seps(text), <)
      from(k) == IF k = 1 THEN 1 ELSE sep[k - 1] + 1
  IN [k \in 1..Len(sep) |-> SubSeq(text, from(k), sep[k] - 1)]
Rest(text) ==
  IF Seps(text) = {} THEN text ELSE SubSeq(text, Max(Seps(text)) + 1, Len(text))

(* A piece is printed for the printable characters it ends with. *)
Printable(piece) ==
  Len(piece) >= cmd.strlen
  /\ \A j \in (Len(piece) - cmd.strlen + 1)..Len(piece) : isprint(piece[j])

LastOf(text, n) == IF Len(text) <= n THEN text ELSE SubSeq(text, Len(text) - n + 1, Len(text))

StringsReading == Running("strings") /\ opened

StringsBegin == Open("strings", StringsStart) /\ UNCHANGED results

(* "assert(p != st.buf)" when nothing leaves the buffer *)
strings_buf ==
  /\ StringsReading
  /\ \E n \in Sizes(arg, BUFLEN - Len(state.buf)) :
       LET text == state.buf \o Chunk(arg, n)
           kept == LastOf(Rest(text), BUFLEN \div 2)
       IN IF Len(kept) = Len(text)
          THEN Abort /\ UNCHANGED out
          ELSE /\ Take(arg, n)
               /\ Printf(SelectSeq(Pieces(text), Printable))
               /\ state' = [buf |-> kept]
               /\ UNCHANGED <<cmd, walker, exit_status, status>>
  /\ UNCHANGED faults

strings_buf_fails == StringsReading /\ Fault("read") /\ Abort /\ UNCHANGED out

StringsEndOfFile ==
  /\ StringsReading /\ Left(arg) = 0
  /\ UNCHANGED <<offset, state, results>>
  /\ Close \/ CloseFails

StringsFinish == WalkDone("strings") /\ Exit(exit_status)

StringsStep ==
  \/ StringsBegin \/ OpenFails("strings") \/ strings_buf \/ strings_buf_fails
  \/ StringsEndOfFile \/ StringsFinish
-----------------------------------------------------------------------------
(***************************************************************************)
(* expand: the column is carried from character to character, and a tab    *)
(* becomes the blanks up to the next stop.  run_arg_files() goes on after  *)
(* an operand that failed.                                                 *)
(***************************************************************************)
ExpandStart == [column |-> 1]
ExpandReading == Running("expand") /\ opened
Blanks(n) == [j \in 1..n |-> "blank"]

(* the multiple of repeated_tab that is reached, then one more *)
advance_rtab(column) ==
  LET n == cmd.repeated_tab IN ((column + n - 1) \div n) * n - column + 1

(* the stops after the column: one at the column itself is passed by *)
last_tab == Max(cmd.tab_map)
advance_tablist(column) ==
  IF column >= last_tab THEN 1
  ELSE Min({s \in cmd.tab_map : s > column}) - column + 1

blanks(column) ==
  IF cmd.repeated_tab > 0 THEN advance_rtab(column) ELSE advance_tablist(column)

ExpandBegin ==
  /\ AtArg("expand")
  /\ \/ /\ opened' = TRUE /\ state' = [column |-> 1]
        /\ UNCHANGED <<arg, exit_status, faults>>
     \/ /\ Fault("open") /\ arg' = arg + 1 /\ exit_status' = 1
        /\ UNCHANGED <<opened, state>>
  /\ UNCHANGED <<cmd, offset, results, status>>

arg_file ==
  /\ ExpandReading /\ Left(arg) > 0 /\ Take(arg, 1)
  /\ LET ch == Chunk(arg, 1)[1]
         column == state.column
     IN \/ /\ ch = "backspace" /\ Printf(<<ch>>)
           /\ state' = [column |-> IF column > 1 THEN column - 1 ELSE 1]
        \/ /\ ch = "newline" /\ Printf(<<ch>>)
           /\ state' = [column |-> 1]
        \/ /\ ch = "x" /\ Printf(<<ch>>)
           /\ state' = [column |-> column + 1]
        \/ /\ ch = "tab" /\ Printf(Blanks(blanks(column)))
           /\ state' = [column |-> column + blanks(column)]
  /\ UNCHANGED <<cmd, walker, exit_status, status, faults>>

ExpandEndOfFile ==
  /\ ExpandReading /\ Return /\ UNCHANGED <<offset, state, results>>
  /\ \/ Left(arg) = 0 /\ UNCHANGED <<exit_status, faults>>
     \/ Fault("read") /\ exit_status' = 1

ExpandFinish == WalkDone("expand") /\ Exit(exit_status)

ExpandStep == ExpandBegin \/ arg_file \/ ExpandEndOfFile \/ ExpandFinish
-----------------------------------------------------------------------------
(***************************************************************************)
(* uuencode: three octets make four characters, LN_MAX octets a line.      *)
(* line_start points into outbuf, at the place of the count that begins a  *)
(* line of the traditional format; flush_outbuf() does not move it.        *)
(***************************************************************************)
(* sent: the writes to standard output of this step *)
NoOutput == [outbuf |-> <<>>, sent |-> <<>>, line_start |-> 0, line_bytes |-> 0,
             spill |-> <<>>]

flush_outbuf(s) == [s EXCEPT !.sent = Append(@, s.outbuf), !.outbuf = <<>>]
push_outbuf(s, text) ==
  LET t == IF Len(s.outbuf) + Len(text) > UUE_BUF_SZ THEN flush_outbuf(s) ELSE s
  IN [t EXCEPT !.outbuf = @ \o text]

(* *line_start: past outbuf_len the next push overwrites it *)
SetCount(s, n) ==
  IF s.line_start \in DOMAIN s.outbuf THEN [s EXCEPT !.outbuf[s.line_start] = <<"count", n>>]
  ELSE s
StartLine(s) ==
  IF cmd.base64 THEN s
  ELSE LET t == push_outbuf(s, <<<<"count", 0>>>>) IN [t EXCEPT !.line_start = Len(t.outbuf)]

push_line(s) ==
  LET t == push_outbuf(IF cmd.base64 THEN s ELSE SetCount(s, s.line_bytes), <<<<"newline">>>>)
  IN StartLine([t EXCEPT !.line_bytes = 0])

Codes(octets, n) == [j \in 1..n |-> <<"code", octets, j>>]
encode_chunk(s, octets) ==
  LET t == [push_outbuf(s, Codes(octets, 4)) EXCEPT !.line_bytes = @ + CHUNK_SZ]
  IN IF t.line_bytes >= LN_MAX THEN push_line(t) ELSE t

(* push_bytes(): whole chunks are encoded, the rest is spilled *)
Whole(text) == Len(text) \div CHUNK_SZ
ChunkOf(text, k) == SubSeq(text, (k - 1) * CHUNK_SZ + 1, k * CHUNK_SZ)
push_bytes(s, octets) ==
  LET text == s.spill \o octets
  IN [FoldLeft(encode_chunk, s, [k \in 1..Whole(text) |-> ChunkOf(text, k)])
        EXCEPT !.spill = SubSeq(text, Whole(text) * CHUNK_SZ + 1, Len(text))]

finalize_base64(s) ==
  LET n == Len(s.spill)
      pads == [j \in 1..(3 - n) |-> <<"pad">>]
  IN [push_outbuf(s, Codes(s.spill, n + 1) \o pads) EXCEPT !.line_bytes = @ + n]
finalize_traditional(s) ==
  encode_chunk(s, s.spill \o [j \in 1..(CHUNK_SZ - Len(s.spill)) |-> 0])

(* as if there were always whole chunks *)
flush_last_lineMutant(s) ==
  LET t == push_line(s)
  IN IF cmd.base64 THEN t ELSE push_outbuf(SetCount(t, 0), <<<<"newline">>>>)

flush_last_line(s) ==
  LET final == IF s.spill = <<>> THEN s
               ELSE IF cmd.base64 THEN finalize_base64(s) ELSE finalize_traditional(s)
      t == push_line(final)
  IN IF cmd.base64 THEN t ELSE push_outbuf(SetCount(t, 0), <<<<"newline">>>>)

(* push_outbuf("end\n", 6) takes two octets too many *)
EndMark == IF cmd.base64 THEN <<<<"end">>>> ELSE <<<<"end">>, <<"junk">>, <<"junk">>>>
UuencodeStart == StartLine(push_outbuf(NoOutput, <<<<"begin">>>>))

(* write_buf() may fail: what it returns is not looked at *)
Push(s) ==
  /\ state' = [s EXCEPT !.sent = <<>>]
  /\ Writes(1, s.sent)

UuencodeReading == Running("uuencode") /\ opened

UuencodeBegin == OpenInput("uuencode")

UuencodeRead ==
  /\ UuencodeReading
  /\ \E n \in Sizes(arg, UUE_BUF_SZ) : Take(arg, n) /\ Push(push_bytes(state, Chunk(arg, n)))
  /\ UNCHANGED <<cmd, walker, held, exit_status, status>>

UuencodeReadFails ==
  /\ UuencodeReading /\ Fault("read") /\ status' = "error"
  /\ UNCHANGED <<cmd, walker, offset, state, results, exit_status>>

UuencodeEndOfFile ==
  /\ UuencodeReading /\ Left(arg) = 0
  /\ Push(flush_outbuf(push_outbuf(flush_last_line(state), EndMark)))
  /\ opened' = FALSE /\ arg' = arg + 1
  /\ UNCHANGED <<cmd, offset, held, exit_status, status>>

UuencodeFinish ==
  /\ WalkDone("uuencode")
  /\ \/ status' = "ok" /\ UNCHANGED faults
     \/ Fault("close") /\ status' = "error"
  /\ UNCHANGED <<cmd, walker, offset, state, results, exit_status>>

UuencodeStep == UuencodeBegin \/ UuencodeRead \/ UuencodeReadFails \/ UuencodeEndOfFile \/ UuencodeFinish
=============================================================================
