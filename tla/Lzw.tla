---------------------------------- MODULE Lzw ----------------------------------
(***************************************************************************)
(* The coding of compress, zopen.cc: compress_zwrite() and output() on one *)
(* side of a stream, compress_zread() and getcode() on the other, run side *)
(* by side as in "compress | uncompress".                                  *)
(*                                                                         *)
(* Nothing but codes is sent.  Each side builds the string table, and      *)
(* widens the codes as it fills, from the codes alone, so the two have to  *)
(* take every such step at the same code.  Codes travel in groups that are *)
(* as many bytes long as a code has bits; a change of width ends a group   *)
(* early, and the rest of it is junk.                                      *)
(***************************************************************************)
EXTENDS Integers, Sequences

CONSTANTS
  Letters,     \* number of different bytes (256)
  GroupSize,   \* codes in a group (8)
  INIT_BITS,   \* width of the first codes (9)
  BITS,        \* the widest code there may be (16)
  CHECK_GAP,   \* bytes between two looks at the compression ratio (10000)
  BitOptions,  \* what -b may give
  Chunks,      \* sizes of the reader's buffer
  MaxLength    \* bound on the length of the data

ASSUME LzwAssumption ==
  /\ Letters \in Nat \ {0} /\ GroupSize \in Nat \ {0}
  /\ INIT_BITS \in Nat /\ BITS \in Nat /\ INIT_BITS < BITS
  /\ Letters + 1 < 2^INIT_BITS
  /\ CHECK_GAP \in Nat /\ MaxLength \in Nat
  /\ BitOptions \subseteq 1..BITS /\ Chunks \subseteq Nat \ {0}

(* What the code takes 1 << n for: there are more numbers of more bits.    *)
ASSUME PowersAssumption ==
  \A n \in 0..BITS : 2^n \in Nat /\ \A m \in 0..(n - 1) : 2^m < 2^n

VARIABLES
  maxbits,  \* -b, and the third byte of the file
  input,    \* history: the bytes given to compress_zwrite()
  w,        \* the writer's s_zstate
  sent,     \* the groups it has written
  r,        \* the reader's s_zstate
  output,   \* the bytes compress_zread() has given back
  chunk,    \* size of the buffer compress_zread() is called with
  count     \* room left in it

vars == <<maxbits, input, w, sent, r, output, chunk, count>>

CLEAR == Letters
FIRST == Letters + 1
Bytes == 0 .. Letters - 1
NoTable == [p \in {} |-> 0]
Codes == 0 .. 2^BITS - 1
MAXCODE(bits) == 2^bits - 1
maxmaxcode == 2^maxbits
JUNK == -1  \* what buf holds behind the codes of a group that ended early
EOF == -2

Init ==
  /\ maxbits \in BitOptions /\ chunk \in Chunks
  /\ input = <<>> /\ sent = <<>> /\ output = <<>> /\ count = 0
  /\ w = [state |-> "start", ent |-> 0, n_bits |-> INIT_BITS,
          maxcode |-> MAXCODE(INIT_BITS), free_ent |-> FIRST, clear_flg |-> FALSE,
          table |-> NoTable, group |-> <<>>, in_count |-> 1, checkpoint |-> CHECK_GAP]
  /\ r = [state |-> "start", n_bits |-> INIT_BITS, maxcode |-> MAXCODE(INIT_BITS),
          free_ent |-> FIRST, clear_flg |-> FALSE, prefix |-> [c \in Codes |-> 0],
          suffix |-> [c \in Codes |-> 0], group |-> <<>>, next |-> 1, oldcode |-> 0, incode |-> 0, finchar |-> 0,
          stack |-> <<>>]

WidenMutant(z) ==  \* mutant: widens the last code too
  [z EXCEPT !.n_bits = @ + 1, !.maxcode = MAXCODE(z.n_bits + 1)]

Widen(z) ==  \* the code after this one needs another bit
  LET bits == z.n_bits + 1
  IN [z EXCEPT !.n_bits = bits,
               !.maxcode = IF bits = maxbits THEN maxmaxcode ELSE MAXCODE(bits)]
Narrow(z) ==
  [z EXCEPT !.n_bits = INIT_BITS, !.maxcode = MAXCODE(INIT_BITS), !.clear_flg = FALSE]

-----------------------------------------------------------------------------
(* The writer.  output(): zw is the writer's state, s the groups so far.   *)
Pad(codes) == [i \in 1..GroupSize |-> IF i <= Len(codes) THEN codes[i] ELSE JUNK]
Flush(zw, s, codes) == Append(s, [width |-> zw.n_bits, codes |-> codes])

Output(zw, s, code) ==
  LET full == Append(zw.group, code)
      whole == Len(full) = GroupSize
      z1 == [zw EXCEPT !.group = IF whole THEN <<>> ELSE full]
      s1 == IF whole THEN Flush(zw, s, full) ELSE s
      change == z1.free_ent > z1.maxcode \/ z1.clear_flg
      s2 == IF change /\ z1.group # <<>> THEN Flush(z1, s1, Pad(z1.group)) ELSE s1
      z2 == IF ~change THEN z1
            ELSE [(IF z1.clear_flg THEN Narrow(z1) ELSE Widen(z1)) EXCEPT !.group = <<>>]
  IN [z |-> z2, s |-> s2]

(* table[<<p, c>>] is the code of the string of p followed by c, if any.   *)
Known(zw, c) == <<zw.ent, c>> \in DOMAIN zw.table
NewEntry(zw, c) ==
  [p \in DOMAIN zw.table \cup {<<zw.ent, c>>} |->
     IF p = <<zw.ent, c>> THEN zw.free_ent ELSE zw.table[p]]

WriteFirst(c) ==
  /\ w.state = "start" /\ Len(input) < MaxLength
  /\ w' = [w EXCEPT !.state = "middle", !.ent = c]
  /\ input' = <<c>>
  /\ UNCHANGED <<maxbits, sent, r, output, chunk, count>>

Extends(c) ==
  /\ w.state = "middle" /\ Len(input) < MaxLength
  /\ input' = Append(input, c)
  /\ UNCHANGED <<maxbits, r, output, chunk, count>>

WriteMatch(c) ==
  /\ Extends(c) /\ Known(w, c)
  /\ w' = [w EXCEPT !.ent = w.table[<<w.ent, c>>], !.in_count = @ + 1]
  /\ UNCHANGED sent

WriteNewMutant(c) ==  \* mutant: the table may outgrow the codes
  /\ Extends(c) /\ ~Known(w, c)
  /\ LET o == Output([w EXCEPT !.in_count = @ + 1], sent, w.ent)
     IN /\ w' = [o.z EXCEPT !.ent = c, !.table = NewEntry(o.z, c),
                            !.free_ent = @ + 1]
        /\ sent' = o.s

WriteNew(c) ==
  /\ Extends(c) /\ ~Known(w, c) /\ w.free_ent < maxmaxcode
  /\ LET o == Output([w EXCEPT !.in_count = @ + 1], sent, w.ent)
     IN /\ w' = [o.z EXCEPT !.ent = c, !.table = NewEntry(o.z, c),
                            !.free_ent = @ + 1]
        /\ sent' = o.s

(* The table is full; cl_block() starts a new one if the ratio got worse.  *)
WriteFull(c, worse) ==
  /\ Extends(c) /\ ~Known(w, c) /\ w.free_ent >= maxmaxcode
  /\ LET o == Output([w EXCEPT !.in_count = @ + 1], sent, w.ent)
         z == [o.z EXCEPT !.ent = c]
         looks == z.in_count >= z.checkpoint
         z1 == [z EXCEPT !.checkpoint = z.in_count + CHECK_GAP]
         o1 == Output([z1 EXCEPT !.table = NoTable, !.free_ent = FIRST,
                                 !.clear_flg = TRUE], o.s, CLEAR)
     IN /\ worse => looks
        /\ IF worse THEN w' = o1.z /\ sent' = o1.s
                    ELSE w' = (IF looks THEN z1 ELSE z) /\ sent' = o.s

(* compress_zclose(): the last code, then the rest of the buffer.          *)
Close ==
  /\ w.state = "middle"
  /\ LET o == Output(w, sent, w.ent)
     IN /\ sent' = IF o.z.group = <<>> THEN o.s ELSE Flush(o.z, o.s, o.z.group)
        /\ w' = [o.z EXCEPT !.state = "closed", !.group = <<>>]
  /\ UNCHANGED <<maxbits, input, r, output, chunk, count>>

(* The writer is killed: the reader gets a part of what was written.       *)
Killed(groups, codes) ==
  /\ w.state = "middle" /\ groups \in r.next - 1 .. Len(sent)
  /\ sent' = SubSeq(sent, 1, groups) \o
       (IF groups < Len(sent) /\ codes > 0
        THEN <<[sent[groups + 1] EXCEPT !.codes = SubSeq(@, 1, codes)]>> ELSE <<>>)
  /\ w' = [w EXCEPT !.state = "killed"]
  /\ UNCHANGED <<maxbits, input, r, output, chunk, count>>

-----------------------------------------------------------------------------
(* The reader.  getcode(): the state after it, and the code or EOF.        *)
NeedsGroup(zr) == zr.clear_flg \/ zr.group = <<>> \/ zr.free_ent > zr.maxcode
AtEnd(zr) == zr.next > Len(sent)
MayGet(zr) == NeedsGroup(zr) /\ AtEnd(zr) => w.state \in {"closed", "killed"}

Adjust(zr) ==
  LET z1 == IF zr.free_ent > zr.maxcode THEN Widen(zr) ELSE zr
  IN IF zr.clear_flg THEN Narrow(z1) ELSE z1

GetCode(zr) ==
  IF ~NeedsGroup(zr)
  THEN [z |-> [zr EXCEPT !.group = Tail(@)], code |-> Head(zr.group)]
  ELSE LET z1 == Adjust(zr)
       IN IF AtEnd(zr) THEN [z |-> z1, code |-> EOF]
          ELSE IF sent[zr.next].width # z1.n_bits
          THEN [z |-> z1, code |-> JUNK]  \* cut in the wrong places
          ELSE [z |-> [z1 EXCEPT !.group = Tail(sent[zr.next].codes), !.next = @ + 1],
                code |-> Head(sent[zr.next].codes)]

(* The bytes a code stands for, found from the last one back.              *)
String(zr) ==
  LET s[c \in Codes] == IF c < Letters THEN <<c>>
                        ELSE Append(s[zr.prefix[c]], zr.suffix[c])
  IN s

ReadHeaderFails ==  \* nothing was written at all
  /\ r.state = "start" /\ w.state = "closed" /\ input = <<>>
  /\ r' = [r EXCEPT !.state = "error"]
  /\ UNCHANGED <<maxbits, input, w, sent, output, chunk, count>>

ReadFirst ==
  /\ r.state = "start" /\ input # <<>> /\ MayGet(r)
  /\ LET g == GetCode(r)
     IN IF g.code = EOF
        THEN /\ r' = [g.z EXCEPT !.state = "eof"] /\ UNCHANGED <<output, count>>
        ELSE /\ r' = [g.z EXCEPT !.state = "middle", !.oldcode = g.code,
                                 !.finchar = g.code]
             /\ output' = <<g.code>> /\ count' = chunk - 1
  /\ UNCHANGED <<maxbits, input, w, sent, chunk>>

Reading == r.state = "middle" /\ r.stack = <<>> /\ MayGet(r)

ReadEnd ==  \* the end, or junk, which no reader in step ever gets to see
  /\ Reading
  /\ LET g == GetCode(r)
     IN /\ g.code \in {EOF, JUNK}
        /\ r' = [g.z EXCEPT !.state = "eof"]
        /\ output' = IF g.code = JUNK THEN Append(output, JUNK) ELSE output
  /\ UNCHANGED <<maxbits, input, w, sent, chunk, count>>

(* The first code after CLEAR makes an entry too, in CLEAR's own place.    *)
ReadClearMutant ==  \* mutant: no place is kept for that entry
  /\ Reading
  /\ LET g == GetCode(r)
     IN /\ g.code = CLEAR
        /\ r' = [g.z EXCEPT !.clear_flg = TRUE, !.free_ent = FIRST]
  /\ UNCHANGED <<maxbits, input, w, sent, output, chunk, count>>

ReadClear ==
  /\ Reading
  /\ LET g == GetCode(r)
     IN /\ g.code = CLEAR
        /\ r' = [g.z EXCEPT !.clear_flg = TRUE, !.free_ent = FIRST - 1]
  /\ UNCHANGED <<maxbits, input, w, sent, output, chunk, count>>

ReadCode ==
  /\ Reading
  /\ LET g == GetCode(r)
         code == g.code
         str == IF code >= r.free_ent  \* KwKwK
                THEN Append(String(r)[r.oldcode], r.finchar)
                ELSE String(r)[code]
     IN /\ code \in Codes \ {CLEAR}
        /\ r' = [g.z EXCEPT !.incode = code, !.stack = str, !.finchar = Head(str)]
  /\ UNCHANGED <<maxbits, input, w, sent, output, chunk, count>>

AddEntry(z) ==
  LET n == z.free_ent
      z1 == IF n >= maxmaxcode THEN z
            ELSE [z EXCEPT !.prefix[n] = z.oldcode, !.suffix[n] = z.finchar,
                           !.free_ent = n + 1]
  IN [z1 EXCEPT !.oldcode = z.incode]

Deliver ==
  /\ r.stack # <<>> /\ count > 0
  /\ output' = Append(output, Head(r.stack)) /\ count' = count - 1
  /\ LET z == [r EXCEPT !.stack = Tail(@)]
     IN r' = IF z.stack = <<>> THEN AddEntry(z) ELSE z
  /\ UNCHANGED <<maxbits, input, w, sent, chunk>>

NextCall ==  \* compress_zread() returns with bytes on the stack, and is called again
  /\ r.stack # <<>> /\ count = 0
  /\ count' = chunk
  /\ UNCHANGED <<maxbits, input, w, sent, r, output, chunk>>

CloseEmpty ==
  /\ w.state = "start"
  /\ w' = [w EXCEPT !.state = "closed"]
  /\ UNCHANGED <<maxbits, input, sent, r, output, chunk, count>>

Done ==
  /\ w.state \in {"closed", "killed"} /\ r.state \in {"eof", "error"}
  /\ UNCHANGED vars

Writer == \/ \E c \in Bytes : WriteFirst(c) \/ WriteMatch(c) \/ WriteNew(c)
          \/ \E c \in Bytes, worse \in BOOLEAN : WriteFull(c, worse)
          \/ \E g \in 0..Len(sent), c \in 0..GroupSize : Killed(g, c)
          \/ Close \/ CloseEmpty
Reader == ReadHeaderFails \/ ReadFirst \/ ReadEnd \/ ReadClear \/ ReadCode
          \/ Deliver \/ NextCall

Next == Writer \/ Reader \/ Done
Spec == Init /\ [][Next]_vars
-----------------------------------------------------------------------------
(* What the coding promises.                                               *)

Types(z) == /\ z.n_bits \in Nat /\ z.maxcode \in Nat /\ z.clear_flg \in BOOLEAN
            /\ z.free_ent \in CLEAR..2^BITS

(* Type correctness: no more codes are given out than codetab has room for *)
(* and the string on the reader's stack consists of bytes.                 *)
TypeOK ==
  /\ maxbits \in BitOptions /\ input \in Seq(Bytes) /\ output \in Seq(Bytes \cup {JUNK})
  /\ Types(w) /\ w.ent \in Codes /\ w.group \in Seq(Codes)
  /\ w.state \in {"start", "middle", "closed", "killed"}
  /\ Types(r) /\ {r.oldcode, r.incode} \subseteq Codes /\ r.stack \in Seq(Bytes)
  /\ r.state \in {"start", "middle", "eof", "error"} /\ r.next \in Nat \ {0}
  /\ chunk \in Chunks /\ count \in 0..chunk

(* Writer and reader are a channel (Channel): what the reader gives back   *)
(* is what the writer was given, byte by byte, also when the stream is cut *)
(* off anywhere, and all of it when the stream was closed, whatever state  *)
(* group and table are in at the end.  The two tables agree through every  *)
(* widening, clearing and KwKwK string, and the reader never takes junk    *)
(* for a code (zopen.cc:326-348, 415-449, 502-523, 575-590).  (Of no data  *)
(* compress_zclose() makes a stream that compress_zread() refuses.)        *)
channel == INSTANCE Channel WITH
  Data <- Bytes, given <- input, delivered <- output,
  writer <- IF w.state \in {"closed", "killed"} THEN w.state ELSE "open",
  ended <- r.state \in {"eof", "error"}
ImplementsChannel == channel!Spec

(* A code fits its width, and a group the buffers zs_buf and zs_gbuf of    *)
(* BITS bytes, whatever -b was given.                                      *)
WidthFits ==
  /\ w.n_bits <= BITS /\ r.n_bits <= BITS
  /\ \A i \in 1..Len(sent) : \A j \in 1..Len(sent[i].codes) :
       sent[i].codes[j] < 2^sent[i].width
  /\ \A j \in 1..Len(w.group) : w.group[j] < 2^w.n_bits
=============================================================================
