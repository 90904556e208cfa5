----------------------------- MODULE Calculator -----------------------------
(***************************************************************************)
(* calculator.c: a line is scanned once, with a stack of numbers and one   *)
(* of operators.  A line is a sequence of numbers and single characters,   *)
(* the last of them the line feed.  A value is kept as the calculation it  *)
(* stands for, in postfix form: <<"1", "2", "-">> is 1 - 2.                *)
(* Both stacks begin in the cell in front of their array; that cell is     *)
(* taken to be a cell like the others.                                     *)
(***************************************************************************)
EXTENDS Integers, SequencesExt

CONSTANTS
  Number,       \* the numbers users may type, each taken for one character
  Expressions   \* the lines they may type: [text |-> ..., value |-> ...]

Operator == {"+", "-", "*", "/"}
Blank == " "
LF == "\n"

ASSUME NumberAssumption == Number \cap (Operator \cup {"(", ")", Blank, LF}) = {}

VARIABLES
  at,      \* "read", "scan" (a number), "op" (the inner loop), "print", "exit"
  line,    \* the line being worked on
  meant,   \* its value, as arithmetic has it
  p,       \* position in the line
  nums,    \* num_stack
  ops      \* op_stack

vars == <<at, line, meant, p, nums, ops>>

Init ==
  /\ at = "read"
  /\ line = <<>> /\ meant = <<>> /\ p = 1
  /\ nums = <<>> /\ ops = <<>>

\* fgets(); at the end of the input it leaves the last line as it was.
ReadLine ==
  /\ at = "read"
  /\ \E e \in Expressions : line' = Append(e.text, LF) /\ meant' = e.value
  /\ at' = "scan" /\ p' = 1
  /\ UNCHANGED <<nums, ops>>

\* atof() of what was copied to numStr.
Atof(s) ==
  LET i == SelectInSeq(s, LAMBDA t : t \in Number) IN IF i = 0 THEN <<"0">> ELSE <<s[i]>>

\* Digits and blanks are copied, then pushed as a number unless "(" follows.
\* If there were none, the byte in front of numStr decides, whatever it is.
Scan ==
  /\ at = "scan"
  /\ LET q == SelectInSubSeq(line, p, Len(line), LAMBDA t : t \notin Number \cup {Blank}) IN
     /\ p' = q
     /\ IF line[q] = "(" THEN UNCHANGED nums
        ELSE \/ nums' = Append(nums, Atof(SubSeq(line, p, q - 1)))
             \/ q = p /\ UNCHANGED nums
  /\ at' = "op"
  /\ UNCHANGED <<line, meant, ops>>

-----------------------------------------------------------------------------
(* The inner loop, at the operator line[p].                                *)

\* What pop_op() finds.
Top == IF ops = <<>> THEN "none" ELSE Last(ops)

\* The operator is pushed on the one before it.  AnyLevel: without a look at
\* which of them goes first.
AnyLevel(op, next) == next \in Operator \cup {"("} \/ (op = "(" /\ next # ")")
Deeper(op, next) ==
  \/ op \in {"+", "-"} /\ next \in {"*", "/"}
  \/ next = "("
  \/ op = "(" /\ next # ")"
Closes(op, next) == op = "(" /\ next = ")"

\* p++ behind a pair of brackets.  Stay: it is forgotten.
Stay(i) == i
Behind(i) == i + 1

PushOp ==
  /\ at = "op"
  /\ Top = "none" \/ Deeper(Top, line[p])
  /\ ops' = Append(ops, line[p])
  /\ p' = p + 1
  /\ at' = IF p < Len(line) THEN "scan" ELSE "print"
  /\ UNCHANGED <<line, meant, nums>>

\* The character behind ")" is taken for an operator.
CloseBracket ==
  /\ at = "op"
  /\ ~ Deeper(Top, line[p]) /\ Closes(Top, line[p])
  /\ ops' = Front(ops)
  /\ p' = Behind(p)
  /\ UNCHANGED <<at, line, meant, nums>>

\* cal_top_two(); a pop_num() from an empty stack gives no number (NaN).
Popped(s) == IF s = <<>> THEN [val |-> <<"NaN">>, rest |-> s] ELSE [val |-> Last(s), rest |-> Front(s)]
CalTopTwo ==
  /\ at = "op"
  /\ Top # "none" /\ ~ Deeper(Top, line[p]) /\ ~ Closes(Top, line[p])
  /\ LET num1 == Popped(nums)
         num2 == Popped(num1.rest)
     IN IF Top \in Operator
          THEN nums' = Append(num2.rest, num2.val \o num1.val \o <<Top>>) /\ UNCHANGED at
          ELSE nums' = num2.rest /\ at' = "exit"
  /\ ops' = Front(ops)
  /\ UNCHANGED <<line, meant, p>>

\* The result is printed and the stacks are emptied.
PrintResult ==
  /\ at = "print"
  /\ at' = "read"
  /\ nums' = <<>> /\ ops' = <<>>
  /\ line' = <<>> /\ meant' = <<>> /\ p' = 1

Work == Scan \/ PushOp \/ CloseBracket \/ CalTopTwo \/ PrintResult
Next == ReadLine \/ Work

Spec == Init /\ [][Next]_vars

\* The program is sequential; nobody has to type a line.
FairSpec == Spec /\ WF_vars(Work)

-----------------------------------------------------------------------------
(* What users mean.  A phrase is a text, its value, and how tightly it is  *)
(* bound: 1 for a sum, 2 for a product, 3 for a number or brackets; blanks *)
(* may stand before and after the last two.                                *)

Literal(before, n, after) ==
  [text |-> before \o <<n>> \o after, value |-> <<n>>, level |-> 3]
Bracketed(before, e, after) ==
  [text |-> before \o <<"(">> \o e.text \o <<")">> \o after, value |-> e.value, level |-> 3]

\* From left to right, products before sums.
Level(op) == IF op \in {"*", "/"} THEN 2 ELSE 1
MayJoin(op, l, r) == l.level >= Level(op) /\ r.level > Level(op)
Binary(op, l, r) ==
  [text |-> l.text \o <<op>> \o r.text, level |-> Level(op),
   value |-> l.value \o r.value \o <<op>>]

-----------------------------------------------------------------------------
(* Properties.                                                             *)

(* What is printed is the value of the line: one scan with two stacks      *)
(* keeps the rules of precedence, of the order from left to right and of   *)
(* brackets, and a line owes nothing to the ones before (calculator.c:     *)
(* 90-141).                                                                *)
ResultRight == at = "print" => nums # <<>> /\ Last(nums) = meant

(* Every line is worked off, with a result and not an exit, if no blank    *)
(* stands behind a closing bracket (calculator.c:90-129).                  *)
Tight(s) == \A i \in 1 .. Len(s) - 1 : s[i] = ")" => s[i + 1] # Blank
Printed == at = "scan" /\ Tight(line) ~> at = "print"

=============================================================================
