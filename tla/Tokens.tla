--------------------------------- MODULE Tokens ---------------------------------
(***************************************************************************)
(* Utilities that work on words: tsort, which reads them all before it     *)
(* sorts them, and expr, which parses its operands.                        *)
(***************************************************************************)
EXTENDS FilterIO

CONSTANTS
  MAX_RECURSE,  \* calls of item_precedes() before tsort gives up
  WIDTH         \* bits of a number

(***************************************************************************)
(* tsort: tokens are numbers, and a line is any number of them.  The one   *)
(* without a partner is kept for the next line.                            *)
(***************************************************************************)
TsortStart == [dict |-> <<>>, order |-> <<>>, extra_token |-> <<>>]

TsortBegin == OpenInput("tsort")
TsortReading == Running("tsort") /\ opened /\ arg = 1

add_token(dict, id) == IF id \in Range(dict) THEN dict ELSE Append(dict, id)
push_token(s, id) ==
  [dict |-> add_token(s.dict, id),
   order |-> IF s.extra_token = <<>> THEN s.order
             ELSE Append(s.order, [pred |-> Last(s.extra_token), succ |-> id]),
   extra_token |-> IF s.extra_token = <<>> THEN <<id>> ELSE <<>>]

process_line ==
  /\ TsortReading
  /\ \E n \in Sizes(1, Left(1)) :
       Take(1, n) /\ state' = FoldLeft(push_token, state, Chunk(1, n))
  /\ UNCHANGED <<cmd, walker, results, exit_status, status, faults>>
NoMemory ==
  /\ TsortReading /\ Left(1) > 0 /\ Chunk(1, 1)[1] \notin Range(state.dict)
  /\ Fault("strndup") /\ status' = "error" /\ exit_status' = 1
  /\ UNCHANGED <<cmd, walker, offset, state, results>>

(* a read that fails ends the file as well *)
TsortEndOfFile ==
  /\ TsortReading
  /\ (Left(1) = 0 /\ UNCHANGED faults) \/ Fault("read")
  /\ arg' = 2
  /\ UNCHANGED <<cmd, opened, offset, state, results, exit_status, status>>

(* The pairs are followed from a to b, with n calls left.  On the way into *)
(* a circle there is no end but that of the calls, or of the stack.        *)
item_precedes[a \in Range(state.dict), b \in Range(state.dict), n \in 0..MAX_RECURSE] ==
  LET follow(x, o) ==
        IF x.found \/ x.left = 0 \/ o.pred # a THEN x
        ELSE IF o.succ = b THEN [x EXCEPT !.found = TRUE]
        ELSE IF o.succ # a THEN item_precedes[o.succ, b, x.left]
        ELSE x
  IN FoldLeft(follow, [left |-> IF n = 0 THEN 0 ELSE n - 1, found |-> FALSE], state.order)
Precedes(a, b) == item_precedes[a, b, MAX_RECURSE].found
GivesUp(a, b) == LET x == item_precedes[a, b, MAX_RECURSE] IN ~x.found /\ x.left = 0

(* Two tokens without relation are each after the other; qsort(3) promises *)
(* nothing of the order then, nor which of them it compares.               *)
qsort ==
  LET all == SetToSeqs(Range(state.dict))
      sorted == {s \in all : \A i, j \in DOMAIN s :
                   i < j => Precedes(s[i], s[j]) /\ ~Precedes(s[j], s[i])}
  IN IF sorted # {} THEN sorted ELSE all

sort_and_write_vals ==
  /\ Running("tsort") /\ arg = 2
  /\ \E out_vals \in qsort : Printf(out_vals)
  /\ arg' = 3
  /\ UNCHANGED <<cmd, opened, offset, state, exit_status, status, faults>>
MaxRecurse ==
  /\ Running("tsort") /\ arg = 2
  /\ \E a, b \in Range(state.dict) : a # b /\ GivesUp(a, b)
  /\ status' \in {"error", "aborted"} /\ exit_status' = 1
  /\ UNCHANGED <<cmd, walker, offset, state, results, faults>>

TsortFinish == Running("tsort") /\ arg = 3 /\ Exit(0)

TsortStep ==
  \/ TsortBegin \/ process_line \/ NoMemory \/ TsortEndOfFile
  \/ sort_and_write_vals \/ MaxRecurse \/ TsortFinish
-----------------------------------------------------------------------------
(***************************************************************************)
(* expr: the parser that bison makes of expr-parse.y.  Its stack holds     *)
(* tokens, and expressions with their values.                              *)
(***************************************************************************)
ExprStart == [stack |-> <<>>]

(* 64 bits, which addition and multiplication wrap around in the end *)
LongLong == -(2^(WIDTH - 1))..(2^(WIDTH - 1) - 1)
Wrap(x) == ((x + 2^(WIDTH - 1)) % 2^WIDTH) - 2^(WIDTH - 1)
Abs(x) == IF x < 0 THEN -x ELSE x
Truncated(x, y) == LET q == Abs(x) \div Abs(y) IN IF (x < 0) = (y < 0) THEN q ELSE -q
SIGFPE(op, x, y) == op = "/" /\ (y = 0 \/ Truncated(x, y) \notin LongLong)
Apply(op, x, y) ==
  CASE op = "+" -> Wrap(x + y)
    [] op = "-" -> Wrap(x - y)
    [] op = "*" -> Wrap(x * y)
    [] op = "/" -> Truncated(x, y)

Operators == {"+", "-", "*", "/"}
Level(op) == IF op \in {"+", "-"} THEN 1 ELSE 2
exp(val) == [type |-> "exp", val |-> val]

(* A number that is too great has no token but -1, with which the parser *)
(* takes the input for ended.                                            *)
TooGreat(t) == t.type = "number" /\ t.val \notin LongLong
yylex ==
  IF Left(1) = 0 THEN "EOF"
  ELSE LET t == Chunk(1, 1)[1] IN IF TooGreat(t) THEN "EOF" ELSE t.type

Parsing == Running("expr")
Top(k) == state.stack[Len(state.stack) + 1 - k]
Types(s) == [k \in DOMAIN s |-> s[k].type]
Below(n) == SubSeq(state.stack, 1, Len(state.stack) - n)
EndsIn(types) == IsSuffix(types, Types(state.stack))

(* exp op exp, unless an operator of a higher level follows *)
Reducible ==
  /\ \E op \in Operators : EndsIn(<<"exp", op, "exp">>)
  /\ yylex \in Operators => Level(yylex) <= Level(Top(2).type)
reduce ==
  /\ Parsing /\ Reducible /\ UNCHANGED <<cmd, walker, offset, out, held, exit_status, faults>>
  /\ IF SIGFPE(Top(2).type, Top(3).val, Top(1).val)
     THEN status' = "aborted" /\ UNCHANGED state
     ELSE /\ state' = [stack |-> Append(Below(3), exp(Apply(Top(2).type, Top(3).val, Top(1).val)))]
          /\ UNCHANGED status
reduce_parentheses ==
  /\ Parsing /\ EndsIn(<<"(", "exp", ")">>)
  /\ state' = [stack |-> Append(Below(3), Top(2))]
  /\ UNCHANGED <<cmd, walker, offset, results, exit_status, status, faults>>

(* a line ends where no operator follows, whatever does *)
line ==
  /\ Parsing /\ Types(state.stack) = <<"exp">> /\ yylex \notin Operators
  /\ Printf(<<Top(1).val>>) /\ state' = ExprStart
  /\ UNCHANGED <<cmd, walker, offset, exit_status, status, faults>>

WantsOperand == state.stack = <<>> \/ \E t \in Operators \cup {"("} : EndsIn(<<t>>)
Shiftable ==
  \/ WantsOperand /\ yylex \in {"number", "("}
  \/ EndsIn(<<"exp">>) /\ ~Reducible /\ yylex \in Operators
  \/ EndsIn(<<"(", "exp">>) /\ yylex = ")"
shift ==
  /\ Parsing /\ Shiftable /\ Take(1, 1)
  /\ LET t == Chunk(1, 1)[1]
     IN state' = [stack |-> Append(state.stack, IF t.type = "number" THEN exp(t.val) ELSE t)]
  /\ UNCHANGED <<cmd, walker, results, exit_status, status, faults>>

accept == Parsing /\ state.stack = <<>> /\ yylex = "EOF" /\ Exit(0)
yyerror ==
  /\ Parsing
  /\ \/ WantsOperand /\ ~Shiftable /\ ~(state.stack = <<>> /\ yylex = "EOF")
     \/ EndsIn(<<"(", "exp">>) /\ ~Shiftable
  /\ Exit(1)

ExprStep == reduce \/ reduce_parentheses \/ line \/ shift \/ accept \/ yyerror
-----------------------------------------------------------------------------
Utils == {"tsort", "expr"}
Start == IF cmd.util = "tsort" THEN TsortStart ELSE ExprStart
Step == TsortStep \/ ExprStep
=============================================================================
