-------------------------------- MODULE Filters --------------------------------
(***************************************************************************)
(* The filters, one in each behaviour, and what each of them makes of its  *)
(* input, said of the whole input at once: Expected knows neither blocks   *)
(* nor buffers, so the properties say that neither shows in the output.    *)
(***************************************************************************)
EXTENDS FilterIO

CONSTANTS
  Commands,   \* sets of commands: utility, options and files
  BUFSZ,      \* of read(2), in wc, cat, cksum, head and tee
  BUFLEN, INBUF, MaxPieces, UUE_BUF_SZ, LN_MAX, CHUNK_SZ, INTROSORT, MAX_RECURSE, WIDTH

ASSUME FiltersAssumption ==
  /\ {MaxFaults, INTROSORT} \subseteq Nat
  /\ {BUFSZ, INBUF, MaxPieces, CHUNK_SZ, MAX_RECURSE, WIDTH} \subseteq Nat \ {0}
  /\ BUFLEN \in Nat \ {0, 1} /\ UUE_BUF_SZ \in Nat /\ UUE_BUF_SZ > 4
  /\ LN_MAX \in Nat \ {0} /\ LN_MAX % CHUNK_SZ = 0

(* tee, cat, cksum and split -b take octets, the first and the last from one input *)
ASSUME OctetsAssumption ==
  \A u \in DOMAIN Commands : \A c \in Commands[u] :
    /\ c.util \in {"tee", "cat", "cksum"} => c.files \in Seq(Seq(Nat))
    /\ c.util = "tee" => Len(c.files) = 1 /\ c.outputs \in Nat
    /\ c.util = "split" => c.lines \in BOOLEAN
    /\ c.util = "split" /\ ~c.lines =>
         c.files \in Seq(Seq(Nat)) /\ Len(c.files) = 1 /\ c.piece_size \in Nat

blocks == INSTANCE Blocks
            WITH COPY_BUF_SZ <- BUFSZ, HEAD_BUF_SZ <- BUFSZ, WC_BUFSZ <- BUFSZ
outputs == INSTANCE Outputs WITH TEE_BUF_SZ <- BUFSZ
characters == INSTANCE Characters
compare == INSTANCE Compare
search == INSTANCE Search
sort == INSTANCE Sort
tokens == INSTANCE Tokens

Start ==
  CASE cmd.util \in blocks!Utils -> blocks!Start
    [] cmd.util \in compare!Utils -> compare!Start
    [] cmd.util \in search!Utils -> search!Start
    [] cmd.util \in tokens!Utils -> tokens!Start
    [] cmd.util = "tee" -> outputs!TeeStart
    [] cmd.util = "strings" -> characters!StringsStart
    [] cmd.util = "expand" -> characters!ExpandStart
    [] cmd.util = "split" -> outputs!SplitStart
    [] cmd.util = "uuencode" -> characters!UuencodeStart
    [] cmd.util = "sort" -> sort!Start

Init ==
  /\ \E u \in DOMAIN Commands : cmd \in Commands[u]
  /\ arg = 1 /\ opened = FALSE
  /\ offset = [i \in DOMAIN cmd.files |-> 0]
  /\ state = Start
  /\ out = (IF cmd.util = "split" THEN <<>> ELSE <<<<>>>>) /\ held = <<>>
  /\ exit_status = 0 /\ status = "running" /\ faults = <<>>

Step ==
  \/ blocks!Step \/ outputs!TeeStep \/ outputs!SplitStep
  \/ characters!StringsStep \/ characters!ExpandStep \/ characters!UuencodeStep
  \/ compare!Step \/ sort!Step \/ search!Step \/ tokens!Step
Done == status # "running" /\ UNCHANGED vars
Next == Step \/ Done
Spec == Init /\ [][Next]_vars
-----------------------------------------------------------------------------
(***************************************************************************)
(* What is expected of whole files: of the first one, or of all those that *)
(* could be opened.                                                        *)
(***************************************************************************)
Input == cmd.files[1]
Kinds == {faults[k][1] : k \in DOMAIN faults}
Given == SelectSeq([i \in 1..Len(cmd.files) |-> i], LAMBDA i : <<"open", i>> \notin Range(faults))
All(f(_)) == FlattenSeq([k \in 1..Len(Given) |-> f(Given[k])])

(* a file that cannot be read to its end counts as far as it was read *)
AsRead(i) ==
  IF <<"read", i>> \in Range(faults) THEN SubSeq(cmd.files[i], 1, offset[i]) ELSE cmd.files[i]
SumOf(f(_)) == FoldLeft(LAMBDA x, i : x + f(cmd.files[i]), 0, Given)

Times(n, x) == [k \in 1..n |-> x]
CountOf(x, s) == Cardinality({j \in DOMAIN s : s[j] = x})
Cut(s, n) == [k \in 1..((Len(s) + n - 1) \div n) |-> SubSeq(s, (k - 1) * n + 1, Least(k * n, Len(s)))]

(* wc: a word ends before what is no part of one; the text after the last *)
(* newline is a line if it has a blank; totals.chars is never summed.     *)
WordEnds(s) == Cardinality({j \in DOMAIN s : s[j] = "x" /\ (j = Len(s) \/ s[j + 1] # "x")})
LastLine(s) == \E j \in DOMAIN s : s[j] = "blank" /\ \A k \in j..Len(s) : s[k] # "newline"
LineEnds(s) == CountOf("newline", s) + (IF LastLine(s) THEN 1 ELSE 0)
WcExpected ==
  LET row(i) == <<<<"file", LineEnds(cmd.files[i]), WordEnds(cmd.files[i]), Len(cmd.files[i])>>>>
      total == <<"total", SumOf(LineEnds), SumOf(WordEnds), IF cmd.chars THEN 0 ELSE SumOf(Len)>>
  IN All(row) \o (IF Len(Given) > 1 THEN <<total>> ELSE <<>>)

(* head: what is before the n-th newline; headers come last unless they *)
(* go to a terminal.                                                    *)
HeadExpected ==
  LET header(i) == IF Len(cmd.files) > 1 THEN <<<<"header", i>>>> ELSE <<>>
      text(i) ==
        LET s == cmd.files[i]
        IN SubSeq(s, 1, Cardinality({j \in DOMAIN s :
             CountOf("newline", SubSeq(s, 1, j - 1)) < cmd.head_lines}))
      both(i) == header(i) \o text(i)
  IN IF cmd.tty THEN All(both) ELSE All(text) \o All(header)

(* strings: what is between separators and ends in printable characters *)
StringsExpected ==
  LET ends(s) == {0} \cup {j \in DOMAIN s : s[j] = "newline"}
      from(s, j) == Max({i \in ends(s) : i < j}) + 1
      printable(s, j) == j - cmd.strlen >= from(s, j)
                         /\ \A k \in (j - cmd.strlen)..(j - 1) : s[k] = "x"
      found(s) == {j \in ends(s) \ {0} : printable(s, j)}
      of(i) ==
        LET s == cmd.files[i]
            at == SetToSortSeq(found(s), <)
        IN [k \in 1..Len(at) |-> SubSeq(s, from(s, at[k]), at[k] - 1)]
  IN All(of)

(* expand: a character is at the column that what is before it leads to, *)
(* and a tab leads to the column after a stop.                           *)
AfterTab(column) ==
  LET next == IF cmd.repeated_tab > 0
              THEN {s \in column..(column + cmd.repeated_tab) : s % cmd.repeated_tab = 0}
              ELSE {s \in cmd.tab_map : s > column}
  IN IF next = {} THEN column + 1 ELSE Min(next) + 1
After(column, ch) ==
  CASE ch = "x" -> column + 1
    [] ch = "tab" -> AfterTab(column)
    [] ch = "newline" -> 1
    [] ch = "backspace" -> Max({1, column - 1})
ExpandExpected ==
  LET column(s, j) == FoldLeft(After, 1, SubSeq(s, 1, j - 1))
      of(i) ==
        LET s == AsRead(i)
        IN FlattenSeq([j \in DOMAIN s |->
             IF s[j] = "tab" THEN Times(column(s, j + 1) - column(s, j), "blank") ELSE <<s[j]>>])
  IN All(of)

(* split: as many octets or lines in every piece; a line is at most what *)
(* fits into inbuf.                                                      *)
AddOctet(ls, c) ==
  IF ls = <<>> \/ Last(ls)[Len(Last(ls))] = "newline" \/ Len(Last(ls)) = INBUF
  THEN Append(ls, <<c>>) ELSE Append(Front(ls), Append(Last(ls), c))
SplitExpected ==
  LET lines == Cut(FoldLeft(AddOctet, <<>>, Input), cmd.piece_size)
  IN IF cmd.piece_size = 0 THEN Times(IF Input = <<>> THEN 0 ELSE MaxPieces, <<>>)
     ELSE IF cmd.lines THEN [k \in DOMAIN lines |-> FlattenSeq(lines[k])]
     ELSE Cut(Input, cmd.piece_size)

(* uuencode: the last line is short, maybe empty; in the traditional format *)
(* its count is of whole chunks, and a line of none follows.                *)
Characters(c) ==
  LET n == IF cmd.base64 THEN Len(c) ELSE CHUNK_SZ
      octets == IF cmd.base64 THEN c ELSE c \o Times(CHUNK_SZ - Len(c), 0)
  IN [j \in 1..4 |-> IF j <= n + 1 THEN <<"code", octets, j>> ELSE <<"pad">>]
UuencodeLine(chunks) ==
  (IF cmd.base64 THEN <<>> ELSE <<<<"count", CHUNK_SZ * Len(chunks)>>>>)
  \o FlattenSeq([k \in DOMAIN chunks |-> Characters(chunks[k])]) \o <<<<"newline">>>>
UuencodeExpected ==
  LET chunks == Cut(Input, CHUNK_SZ)
      counted == IF cmd.base64 THEN Len(Input) ELSE CHUNK_SZ * Len(chunks)
      lines == Cut(chunks, LN_MAX \div CHUNK_SZ) \o (IF counted % LN_MAX = 0 THEN <<<<>>>> ELSE <<>>)
  IN <<<<"begin">>>> \o FlattenSeq([k \in DOMAIN lines |-> UuencodeLine(lines[k])])
     \o (IF cmd.base64 THEN <<<<"end">>>>
         ELSE <<<<"count", 0>>, <<"newline">>, <<"end">>, <<"junk">>, <<"junk">>>>)

(* uniq, comm and sort -m, of lines *)
UniqExpected ==
  LET ends == {j \in DOMAIN Input : j = Len(Input) \/ Input[j] # Input[j + 1]}
      before(j) == Max({0} \cup {i \in ends : i < j})
      at == SetToSortSeq(ends, <)
  IN [k \in 1..Len(at) |-> <<Input[at[k]], at[k] - before(at[k])>>]

LineValues == SetToSortSeq(UNION {Range(cmd.files[i]) : i \in DOMAIN cmd.files}, <)
CommExpected ==
  LET n(i, v) == CountOf(v, cmd.files[i])
      column(type, v, k) == IF type \in cmd.outmask THEN <<>> ELSE Times(k, <<type, v>>)
      of(v) == LET both == Least(n(1, v), n(2, v))
               IN column(3, v, both) \o column(1, v, n(1, v) - both)
                                     \o column(2, v, n(2, v) - both)
  IN FlattenSeq([k \in DOMAIN LineValues |-> of(LineValues[k])])

SortExpected ==
  LET n(v) == FoldLeft(LAMBDA x, i : x + CountOf(v, AsRead(i)), 0, Given)
      sorted == FlattenSeq([k \in DOMAIN LineValues |-> Times(n(LineValues[k]), LineValues[k])])
  IN IF cmd.mode = "check" THEN <<>> ELSE IF cmd.reverse THEN Reverse(sorted) ELSE sorted

(* grep: the lines selected, or of each file whether there are any, or how *)
(* many.                                                                   *)
Matches(s) == {j \in DOMAIN s : (\E p \in cmd.patterns : s[j] \in p) # cmd.match_invert}
GrepExpected ==
  LET prefix(i) == IF Len(cmd.files) > 1 THEN <<i>> ELSE <<>>
      of(i) ==
        LET s == AsRead(i)
            at == SetToSortSeq(Matches(s), <)
            item(j) == <<prefix(i), IF cmd.OUT_LINENO THEN <<j>> ELSE <<>>, s[j]>>
        IN CASE cmd.opt_output = "none" -> <<>>
             [] cmd.opt_output = "path" -> IF at = <<>> THEN <<>> ELSE <<<<"path", i>>>>
             [] cmd.opt_output = "count" -> <<<<prefix(i), Len(at)>>>>
             [] cmd.opt_output = "content" -> [k \in 1..Len(at) |-> item(at[k])]
  IN All(of)

(* cmp: where the files differ, or with -l everything from there on.  The *)
(* newline that differs counts for the line after it.                     *)
CmpExpected ==
  LET s == cmd.files[1]
      t == cmd.files[2]
      common == 1..Least(Len(s), Len(t))
      first == Min({j \in common : s[j] # t[j]})
  IN IF cmd.silent \/ (\A j \in common : s[j] = t[j]) THEN <<>>
     ELSE IF cmd.verbose
          THEN [k \in 1..(Max(common) - first + 1) |->
                  <<first + k - 1, s[first + k - 1], t[first + k - 1]>>]
          ELSE <<<<"differ", first, 1 + CountOf("newline", SubSeq(s, 1, first))>>>>

(* what: of the parts that terminators cut a line into, those that have a *)
(* delimiter, from what follows the first one.                            *)
WhatExpected ==
  LET starts(l) == {j \in DOMAIN l : l[j] = "delimiter" /\
                      \A i \in 1..(j - 1) : l[i] = "delimiter" =>
                        \E k \in (i + 1)..(j - 1) : l[k] = "terminator"}
      ending(l, j) == Min({Len(l) + 1} \cup {k \in (j + 1)..Len(l) : l[k] = "terminator"}) - 1
      texts(i, l) ==
        LET at == SetToSortSeq(starts(l), <)
        IN [k \in 1..Len(at) |-> <<i, SubSeq(l, at[k] + 1, ending(l, at[k]))>>]
      of(i) ==
        LET found == FlattenSeq([k \in DOMAIN AsRead(i) |-> texts(i, AsRead(i)[k])])
        IN IF cmd.short THEN SubSeq(found, 1, Least(1, Len(found))) ELSE found
  IN All(of)

(* tsort: the tokens once each, in the order that the pairs leave, if they *)
(* leave one; else in any, which may contradict them.                      *)
InOrder(s, input) ==
  \A k \in 1..(Len(input) \div 2) :
    LET at(j) == CHOOSE i \in DOMAIN s : s[i] = input[j]
    IN at(2 * k - 1) <= at(2 * k)
TsortOrders ==
  LET all == SetToSeqs(Range(AsRead(1)))
      ordered == {s \in all : InOrder(s, AsRead(1))}
  IN [all |-> IF Cardinality(ordered) = 1 THEN ordered ELSE all, circle |-> ordered = {}]
TsortExpected ==
  LET continued == {s \in TsortOrders.all : IsPrefix(out[1] \o held, s)}
  IN CHOOSE s \in TsortOrders.all : continued # {} => s \in continued

(* expr: what the words from i to j are worth, in a set that is empty if   *)
(* they are no expression; its last operator of the lowest level is last.  *)
Words == LET great == {k \in DOMAIN Input : tokens!TooGreat(Input[k])}
         IN SubSeq(Input, 1, Min({Len(Input) + 1} \cup great) - 1)
Worth(w) ==
  LET worth[i \in 1..(Len(w) + 1), j \in 0..Len(w)] ==
        LET operators == {k \in (i + 1)..(j - 1) :
                            w[k].type \in tokens!Operators /\ worth[i, k - 1] # {} /\ worth[k + 1, j] # {}}
            sums == {k \in operators : w[k].type \in {"+", "-"}}
            last == Max(IF sums # {} THEN sums ELSE operators)
            apply(x, y) == IF tokens!SIGFPE(w[last].type, x, y) THEN 0
                           ELSE tokens!Apply(w[last].type, x, y)
        IN IF i > j THEN {}
           ELSE IF i = j THEN (IF w[i].type = "number" THEN {w[i].val} ELSE {})
           ELSE IF operators # {} THEN {apply(x, y) : x \in worth[i, last - 1], y \in worth[last + 1, j]}
           ELSE IF w[i].type = "(" /\ w[j].type = ")" THEN worth[i + 1, j - 1]
           ELSE {}
  IN worth

(* The longest expression, then the longest after it, until one is wrong. *)
ExprExpected(w) ==
  LET worth == Worth(w)
      lines[i \in 1..(Len(w) + 1)] ==
        LET ends == {j \in i..Len(w) : worth[i, j] # {}}
            j == Max(ends)
        IN IF i > Len(w) THEN [values |-> <<>>, wrong |-> FALSE]
           ELSE IF ends = {} \/ (j < Len(w) /\ w[j + 1].type \in tokens!Operators)
                THEN [values |-> <<>>, wrong |-> TRUE]
           ELSE [lines[j + 1] EXCEPT !.values = <<CHOOSE x \in worth[i, j] : TRUE>> \o @]
  IN lines[1]

Expected ==
  CASE cmd.util = "wc" -> <<WcExpected>>
    [] cmd.util = "head" -> <<HeadExpected>>
    [] cmd.util = "cat" -> <<FlattenSeq([k \in DOMAIN Given |-> cmd.files[Given[k]]])>>
    [] cmd.util = "cksum" -> <<[k \in DOMAIN Given |->
         Append(cmd.files[Given[k]], Len(cmd.files[Given[k]]))]>>
    [] cmd.util = "strings" -> <<StringsExpected>>
    [] cmd.util = "expand" -> <<ExpandExpected>>
    [] cmd.util = "tee" -> Times(cmd.outputs + 1, Input)
    [] cmd.util = "split" -> SplitExpected
    [] cmd.util = "uuencode" -> <<UuencodeExpected>>
    [] cmd.util = "uniq" -> <<UniqExpected>>
    [] cmd.util = "comm" -> <<CommExpected>>
    [] cmd.util = "sort" -> <<SortExpected>>
    [] cmd.util = "grep" -> <<GrepExpected>>
    [] cmd.util = "cmp" -> <<CmpExpected>>
    [] cmd.util = "what" -> <<WhatExpected>>
    [] cmd.util = "tsort" -> <<TsortExpected>>
    [] cmd.util = "expr" -> <<ExprExpected(Words).values>>

(* What the filters are known to get wrong (see README.md): head and         *)
(* uuencode go on after a write that failed; uuencode corrupts a traditional *)
(* file that does not fit into its buffer; sort -m -r takes an empty line    *)
(* for the last one.                                                         *)
KnownWrong ==
  \/ cmd.util \in {"head", "uuencode"} /\ "write" \in Kinds
  \/ cmd.util = "uuencode" /\ ~cmd.base64 /\ Len(UuencodeExpected) > UUE_BUF_SZ
  \/ cmd.util = "sort" /\ cmd.reverse /\ state.junk

(* strings drops the front of a long one; uniq has not counted the last line *)
(* to its end when a read fails.                                             *)
Same(got, expected) ==
  \/ got = expected
  \/ cmd.util = "strings" /\ IsSuffix(got, expected) /\ Len(got) >= BUFLEN \div 2
  \/ cmd.util = "uniq" /\ "read" \in Kinds /\ got[1] = expected[1] /\ got[2] <= expected[2]
Follows(s, t) == Len(s) <= Len(t) /\ \A j \in DOMAIN s : Same(s[j], t[j])
Stdout == IF cmd.util = "head" THEN out[1] ELSE out[1] \o held

(***************************************************************************)
(* Whatever the reads and whatever fails, what an output has received is   *)
(* the beginning of what the utility makes of its whole input, and split   *)
(* starts no piece before the one before it is full (count_fd, copy_fd,    *)
(* cksum_fd, head_fd, strings_buf, arg_file of expand, tee_output,         *)
(* output_bytes, push_bytes, process_line, compare_files,                  *)
(* merge_mode_post_walk, grep_line, cmp_post_walk, what_actor).            *)
(***************************************************************************)
OutputFollowsInput ==
  \/ KnownWrong
  \/ /\ Len(out) <= Len(Expected)
     /\ \A o \in DOMAIN out :
          /\ Follows(IF o = 1 /\ cmd.util # "split" THEN Stdout ELSE out[o], Expected[o])
          /\ cmd.util = "split" /\ o < Len(out) => out[o] = Expected[o]

(* What some ask of their input, and answer with the status: grep whether    *)
(* lines are selected, cmp whether the files are the same (with -l, whether  *)
(* they are as long), sort -c whether the lines are in order, expr   *)
(* whether its operands are expressions that have values.                    *)
Asks == cmd.util \in {"grep", "cmp", "expr"} \/ (cmd.util = "sort" /\ cmd.mode = "check")
Ordered ==
  LET all == FlattenSeq(cmd.files)
  IN \A i, j \in DOMAIN all : i < j => sort!line_compare(all[i], all[j])
Yes ==
  CASE cmd.util = "grep" -> \E i \in DOMAIN cmd.files : Matches(cmd.files[i]) # {}
    [] cmd.util = "cmp" -> IF cmd.verbose /\ ~cmd.silent
                           THEN Len(cmd.files[1]) = Len(cmd.files[2])
                           ELSE cmd.files[1] = cmd.files[2]
    [] cmd.util = "sort" -> Ordered
    [] cmd.util = "expr" -> ~ExprExpected(Words).wrong /\ status # "aborted"

(***************************************************************************)
(* A utility that ends well has written all of it, except where the code   *)
(* drops an error: tee, cmp and tsort that of a read, sort -m that of an operand, *)
(* grep any if it has found a line, all that use printf(3) that of the     *)
(* last flush.  One that does not has met an error, or answers no, or has  *)
(* a limit of its own: split its names, strings its buffer, std::sort, and *)
(* tsort circles.  The answer is the right one.                            *)
(* split always exits with EXIT_FAILURE; its return code stands for it.    *)
(***************************************************************************)
Dropped ==
  \/ cmd.util \in {"tee", "cmp", "tsort"} /\ "read" \in Kinds
  \/ cmd.util = "sort" /\ cmd.mode = "merge" /\ "open" \in Kinds
  \/ cmd.util = "grep" /\ state.total_matches > 0
  \/ "flush" \in Kinds
OwnLimit ==
  \/ cmd.util = "split" /\ (exit_status = 0 \/ Len(out) = MaxPieces)
  \/ cmd.util = "strings" /\ status = "aborted"
  \/ cmd.util = "sort" /\ status = "aborted" /\ sort!MayRunOut(state.lines)
  \/ cmd.util = "tsort" /\ TsortOrders.circle
EndsWell == status = "ok" \/ (cmd.util = "split" /\ status = "error" /\ exit_status = 0)
CutShort == "flush" \in Kinds \/ (cmd.util \in {"tee", "cmp"} /\ "read" \in Kinds)

StatusTells ==
  /\ EndsWell /\ ~KnownWrong =>
       /\ Kinds = {} \/ Dropped
       /\ ~CutShort =>
            /\ Len(out) = Len(Expected)
            /\ \A o \in DOMAIN out :
                 Len(out[o]) = Len(Expected[o]) /\ Follows(out[o], Expected[o])
  /\ status \in {"error", "aborted"} => faults # <<>> \/ Asks \/ OwnLimit
  /\ Asks /\ faults = <<>> /\ status # "running" => (status = "ok" <=> Yes)

(***************************************************************************)
(* An output of tee that fails keeps no other from receiving what tee has  *)
(* read: with each failing write at most one output falls behind           *)
(* (tee_output_bytes and FileEnt::skip).                                   *)
(***************************************************************************)
OutputsIndependent ==
  cmd.util = "tee" /\ offset[1] > 0 =>
    LET behind == {o \in DOMAIN out : out[o] # SubSeq(Input, 1, offset[1])}
    IN Cardinality(behind) <= Cardinality({k \in DOMAIN faults : faults[k][1] = "write"})
=============================================================================
