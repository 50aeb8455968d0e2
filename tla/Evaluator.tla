----------------------------- MODULE Evaluator -----------------------------
(***************************************************************************)
(* internal/monitor/evaluator.go: EvaluateExpression, which computes an op *)
(* monitor.  The tokens are put into postfix order (shuntingYard), one     *)
(* action per turn of its loops, and the result is evaluated on a stack    *)
(* (evaluateRPN).  Characters and numbers are abstracted: a token is its   *)
(* symbol and its position, "x" is any number or variable, and a value is  *)
(* the term it was computed by.                                            *)
(***************************************************************************)
EXTENDS Integers, Sequences, ExpressionGrammar

CONSTANTS
    Operators,      \* the binary operators of the instance
    MaxTokens       \* bound: length of an expression

ASSUME OperatorsAssumption == Operators \subseteq {"+", "-", "*", "/"}
ASSUME MaxTokensAssumption == MaxTokens \in Nat

\* What tokenize returns: operands, operators and parentheses in any order.
Tokens == {"x", "(", ")"} \cup Operators
Symbols == Tokens \cup {"u-"}
Items == [sym : Symbols, at : Nat]

getPrecedence(sym) ==
    CASE sym \in {"+", "-"} -> 1
      [] sym \in {"*", "/"} -> 2
      [] sym = "u-" -> 3
      [] OTHER -> 0

Top(s) == s[Len(s)]
Rest(s) == SubSeq(s, 1, Len(s) - 1)

VARIABLES
    expr,           \* the tokens taken so far
    pc,             \* the loop: "tokens", "close", "operator", "flush",
                    \* "evaluate", or "done"
    hand,           \* tok: the operator not yet on the stack
    queue, stack,   \* of shuntingYard
    prev,           \* prevWasOpOrStart
    turn,           \* evaluateRPN: the items of the queue it has taken
    args,           \* evaluateRPN: its stack, of terms
    error           \* why there is no value, or "none"

yard == <<expr, hand, queue, stack, prev>>
rpn == <<turn, args>>
vars == <<yard, pc, rpn, error>>

NoItem == [sym |-> "(", at |-> 1]

Init ==
    /\ expr = <<>> /\ pc = "tokens" /\ hand = NoItem
    /\ queue = <<>> /\ stack = <<>> /\ prev = TRUE
    /\ turn = 0 /\ args = <<>> /\ error = "none"

-----------------------------------------------------------------------------
(* shuntingYard: the loop over the tokens.                                 *)

Fail(why) ==
    /\ pc' = "done" /\ error' = why
    /\ UNCHANGED <<yard, rpn>>

\* The next token of the expression.
Take(sym) ==
    /\ pc = "tokens" /\ Len(expr) < MaxTokens
    /\ expr' = Append(expr, sym)
    /\ UNCHANGED <<rpn, error>>

Item(sym) == [sym |-> sym, at |-> Len(expr) + 1]

TakeOperand ==
    /\ Take("x")
    /\ queue' = Append(queue, Item("x"))
    /\ prev' = FALSE
    /\ UNCHANGED <<pc, hand, stack>>

TakeOpen ==
    /\ Take("(")
    /\ stack' = Append(stack, Item("("))
    /\ prev' = TRUE
    /\ UNCHANGED <<pc, hand, queue>>

TakeClose ==
    /\ Take(")")
    /\ pc' = "close"
    /\ UNCHANGED <<hand, queue, stack, prev>>

\* A minus at the start, after an operator or after "(" is a sign.
Signed(sym) == IF sym = "-" /\ prev THEN "u-" ELSE sym

TakeOperator ==
    \E sym \in Operators :
        /\ Take(sym)
        /\ hand' = Item(Signed(sym))
        /\ pc' = "operator"
        /\ UNCHANGED <<queue, stack, prev>>

\* (mutant) the top is left on the stack
CopyToQueue ==
    /\ queue' = Append(queue, Top(stack))
    /\ stack' = IF Len(stack) = 1 THEN <<>> ELSE Append(Rest(Rest(stack)), Top(stack))

\* The top of the stack goes to the queue.
PopToQueue ==
    /\ queue' = Append(queue, Top(stack))
    /\ stack' = Rest(stack)

\* ")": pop up to its "(".
ClosePop ==
    /\ pc = "close" /\ stack # <<>> /\ Top(stack).sym # "("
    /\ PopToQueue
    /\ UNCHANGED <<expr, pc, hand, prev, rpn, error>>

CloseFound ==
    /\ pc = "close" /\ stack # <<>> /\ Top(stack).sym = "("
    /\ stack' = Rest(stack)
    /\ prev' = FALSE /\ pc' = "tokens"
    /\ UNCHANGED <<expr, hand, queue, rpn, error>>

CloseMissing == pc = "close" /\ stack = <<>> /\ Fail("mismatched")

\* (mutant) operators of equal precedence are grouped from the right
BindsTighter(top, tok) == getPrecedence(tok) < getPrecedence(top)

\* The operator on the stack binds at least as tightly as the new one, or
\* more tightly if the new one is the sign, which is right-associative.
BindsFirst(top, tok) ==
    \/ getPrecedence(tok) < getPrecedence(top)
    \/ getPrecedence(tok) = getPrecedence(top) /\ tok # "u-"

Yields == stack # <<>> /\ Top(stack).sym # "(" /\ BindsFirst(Top(stack).sym, hand.sym)

OperatorPop ==
    /\ pc = "operator" /\ Yields
    /\ PopToQueue
    /\ UNCHANGED <<expr, pc, hand, prev, rpn, error>>

OperatorPush ==
    /\ pc = "operator" /\ ~Yields
    /\ stack' = Append(stack, hand)
    /\ prev' = TRUE /\ pc' = "tokens"
    /\ UNCHANGED <<expr, hand, queue, rpn, error>>

\* There are no more tokens.
End ==
    /\ pc = "tokens"
    /\ pc' = "flush"
    /\ UNCHANGED <<yard, rpn, error>>

FlushPop ==
    /\ pc = "flush" /\ stack # <<>> /\ Top(stack).sym # "("
    /\ PopToQueue
    /\ UNCHANGED <<expr, pc, hand, prev, rpn, error>>

FlushOpen == pc = "flush" /\ stack # <<>> /\ Top(stack).sym = "(" /\ Fail("mismatched")

Flushed ==
    /\ pc = "flush" /\ stack = <<>>
    /\ pc' = "evaluate"
    /\ UNCHANGED <<yard, rpn, error>>

-----------------------------------------------------------------------------
(* evaluateRPN.                                                            *)

Current == queue[turn + 1]

Evaluating == pc = "evaluate" /\ turn < Len(queue)

\* The last n terms are replaced by the result.
Push(n, term) ==
    /\ turn' = turn + 1
    /\ args' = Append(SubSeq(args, 1, Len(args) - n), term)
    /\ UNCHANGED <<yard, pc, error>>

PushOperand ==
    /\ Evaluating /\ Current.sym = "x"
    /\ Push(0, <<"operand", Current.at>>)

\* A number ParseFloat refuses ("1.2.3"), or a variable without a value.
Unreadable == Evaluating /\ Current.sym = "x" /\ Fail("operand")

Negate ==
    /\ Evaluating /\ Current.sym = "u-" /\ Len(args) >= 1
    /\ Push(1, <<"neg", Top(args)>>)

\* a is below b on the stack.
Binary(sym, a, b) == <<sym, a, b>>

Combine ==
    /\ Evaluating /\ Current.sym \in Operators /\ Len(args) >= 2
    /\ Push(2, Binary(Current.sym, args[Len(args) - 1], Top(args)))

Arity(sym) == IF sym = "u-" THEN 1 ELSE 2

MissingArgs ==
    /\ Evaluating /\ Current.sym \in Operators \cup {"u-"}
    /\ Len(args) < Arity(Current.sym)
    /\ Fail("arguments")

Finish ==
    /\ pc = "evaluate" /\ turn = Len(queue)
    /\ pc' = "done"
    /\ error' = IF Len(args) = 1 THEN "none" ELSE "leftover"
    /\ UNCHANGED <<yard, rpn>>

Next ==
    \/ TakeOperand \/ TakeOpen \/ TakeClose \/ TakeOperator
    \/ ClosePop \/ CloseFound \/ CloseMissing
    \/ OperatorPop \/ OperatorPush
    \/ End \/ FlushPop \/ FlushOpen \/ Flushed
    \/ PushOperand \/ Unreadable \/ Negate \/ Combine \/ MissingArgs \/ Finish

Spec == Init /\ [][Next]_vars

-----------------------------------------------------------------------------
(* Properties.                                                             *)

Value == IF pc = "done" /\ error = "none" THEN {args[1]} ELSE {}

\* A well-formed expression has the value its grammar gives it, whatever
\* its signs, its precedences and its parentheses, unless an operand has no
\* value; an expression with unmatched parentheses is never computed.
MeansArithmetic ==
    pc = "done" =>
        /\ error # "operand" /\ Meanings(expr) # {} => Value = Meanings(expr)
        /\ Value # {} => BalancedParens(expr)

Places(s) == {s[i].at : i \in DOMAIN s}
Distinct(s) == \A i, j \in DOMAIN s : s[i].at = s[j].at => i = j

\* While the yard works, every operand and operator taken is in exactly one
\* place: the queue, the stack or the hand.  None is lost or used twice.
Conserved ==
    /\ Distinct(queue) /\ Distinct(stack)
    /\ Places(queue) \cap Places(stack) = {}
    /\ pc = "operator" => hand.at \notin Places(queue) \cup Places(stack)
    /\ \A k \in DOMAIN expr :
        expr[k] \notin {"(", ")"} =>
            \/ k \in Places(queue) \cup Places(stack)
            \/ pc = "operator" /\ k = hand.at
=============================================================================
