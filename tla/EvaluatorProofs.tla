-------------------------- MODULE EvaluatorProofs --------------------------
(* Proofs about Evaluator: it conserves its tokens, computes what the      *)
(* grammar says and ends, for expressions of any length and any set of     *)
(* operators.                                                              *)
EXTENDS Evaluator, FiniteSetTheorems, SequenceTheorems, TLAPS

PcValues == {"tokens", "close", "operator", "flush", "evaluate", "done"}

\* Types of the yard's variables.
YardTypes ==
    /\ expr \in Seq(Tokens)
    /\ queue \in Seq(Items) /\ stack \in Seq(Items)
    /\ hand \in Items
    /\ pc \in PcValues

\* What is in the yard was taken from the expression, and a "(" on the
\* stack stands for one there.
Taken ==
    /\ \A k \in Places(queue) \cup Places(stack) : k <= Len(expr)
    /\ pc = "operator" => hand.at <= Len(expr) /\ hand.sym # "("
    /\ \A i \in DOMAIN stack : stack[i].sym = "(" => expr[stack[i].at] = "("
    /\ Places(stack) \subseteq DOMAIN expr
    /\ pc = "operator" => hand.at \in DOMAIN expr

YardInv == YardTypes /\ Taken /\ Conserved

-----------------------------------------------------------------------------
(* Sequences of items.                                                     *)

\* Appending an item adds its place.
LEMMA AppendPlaces ==
    ASSUME NEW s \in Seq(Items), NEW e \in Items
    PROVE  /\ Append(s, e) \in Seq(Items)
           /\ Places(Append(s, e)) = Places(s) \cup {e.at}
           /\ Distinct(s) /\ e.at \notin Places(s) => Distinct(Append(s, e))
  <1>1. /\ Append(s, e) \in Seq(Items) /\ Len(Append(s, e)) = Len(s) + 1
        /\ \A i \in 1 .. Len(s) : Append(s, e)[i] = s[i]
        /\ Append(s, e)[Len(s) + 1] = e
    BY AppendProperties
  <1>2. /\ DOMAIN s = 1 .. Len(s) /\ Len(s) \in Nat
        /\ DOMAIN Append(s, e) = 1 .. Len(s) + 1
    BY <1>1, LenProperties
  <1>3. Places(Append(s, e)) = Places(s) \cup {e.at}
    BY <1>1, <1>2 DEF Places
  <1>4. Distinct(s) /\ e.at \notin Places(s) => Distinct(Append(s, e))
    BY <1>1, <1>2 DEF Places, Distinct
  <1>5. QED
    BY <1>1, <1>3, <1>4

\* Removing the top removes its place.
LEMMA RestPlaces ==
    ASSUME NEW s \in Seq(Items), s # <<>>, Distinct(s)
    PROVE  /\ Top(s) \in Items /\ Rest(s) \in Seq(Items) /\ Distinct(Rest(s))
           /\ Top(s).at \in Places(s)
           /\ Places(Rest(s)) = Places(s) \ {Top(s).at}
           /\ \A i \in DOMAIN Rest(s) : i \in DOMAIN s /\ Rest(s)[i] = s[i]
  <1>1. /\ Len(s) \in Nat /\ Len(s) > 0 /\ DOMAIN s = 1 .. Len(s)
        /\ \A i \in 1 .. Len(s) : s[i] \in Items
    BY EmptySeq, LenProperties, ElementOfSeq
  <1>2. /\ Rest(s) \in Seq(Items) /\ Len(Rest(s)) = Len(s) - 1
        /\ \A i \in 1 .. Len(s) - 1 : Rest(s)[i] = s[i]
    BY <1>1, SubSeqProperties DEF Rest
  <1>3. DOMAIN Rest(s) = 1 .. Len(s) - 1
    BY <1>2, LenProperties
  <1>4. Top(s) \in Items /\ Top(s).at \in Places(s)
    BY <1>1 DEF Top, Places
  <1>5. Distinct(Rest(s)) /\ Places(Rest(s)) = Places(s) \ {Top(s).at}
    BY <1>1, <1>2, <1>3 DEF Distinct, Places, Top
  <1>6. QED
    BY <1>1, <1>2, <1>3, <1>4, <1>5

\* Places are natural numbers.
LEMMA PlacesNat ==
    ASSUME NEW s \in Seq(Items)
    PROVE  Places(s) \subseteq Nat
  <1>1. \A i \in DOMAIN s : s[i] \in Items
    BY LenProperties, ElementOfSeq
  <1>2. QED
    BY <1>1 DEF Places, Items

\* The empty sequence holds no place.
LEMMA NoPlaces == Places(<<>>) = {} /\ Distinct(<<>>) /\ <<>> \in Seq(Items)
  BY EmptySeq DEF Places, Distinct

-----------------------------------------------------------------------------
(* The yard.                                                               *)

\* The yard is empty at first.
LEMMA YardInit == Init => YardInv
  <1> SUFFICES ASSUME Init PROVE YardInv
    OBVIOUS
  <1>1. expr \in Seq(Tokens) /\ Len(expr) = 0 /\ DOMAIN expr = {}
    BY EmptySeq DEF Init
  <1>2. hand \in Items
    BY DEF Init, NoItem, Items, Symbols, Tokens
  <1>3. YardTypes
    BY <1>1, <1>2, NoPlaces DEF Init, YardTypes, PcValues
  <1>4. Taken /\ Conserved
    BY <1>1, NoPlaces DEF Init, Taken, Conserved
  <1>5. QED
    BY <1>3, <1>4 DEF YardInv

\* The next token lengthens the expression and changes none before it.
LEMMA TakeStep ==
    ASSUME YardInv, NEW sym \in Tokens, Take(sym)
    PROVE  /\ expr' \in Seq(Tokens) /\ Len(expr) \in Nat /\ Len(expr') = Len(expr) + 1
           /\ DOMAIN expr = 1 .. Len(expr) /\ DOMAIN expr' = 1 .. Len(expr) + 1
           /\ \A k \in DOMAIN expr : expr'[k] = expr[k]
           /\ expr'[Len(expr) + 1] = sym
           /\ Len(expr) + 1 \notin Places(queue) \cup Places(stack)
  <1>1. expr \in Seq(Tokens) /\ expr' = Append(expr, sym)
    BY DEF YardInv, YardTypes, Take
  <1>2. /\ expr' \in Seq(Tokens) /\ Len(expr) \in Nat /\ Len(expr') = Len(expr) + 1
        /\ DOMAIN expr = 1 .. Len(expr)
    BY <1>1, AppendProperties, LenProperties
  <1>3. DOMAIN expr' = 1 .. Len(expr) + 1
    BY <1>2, LenProperties
  <1>4. /\ \A k \in DOMAIN expr : expr'[k] = expr[k]
        /\ expr'[Len(expr) + 1] = sym
    BY <1>1, <1>2, AppendProperties
  <1>5. Len(expr) + 1 \notin Places(queue) \cup Places(stack)
    BY <1>2 DEF YardInv, Taken
  <1>6. QED
    BY <1>2, <1>3, <1>4, <1>5

\* An item moved from the stack to the queue stays in the yard.
LEMMA PopStep ==
    ASSUME YardInv, stack # <<>>, PopToQueue, Top(stack).sym # "(",
           UNCHANGED <<expr, pc, hand>>
    PROVE  YardInv'
  <1> DEFINE top == Top(stack)
  <1>1. /\ queue \in Seq(Items) /\ stack \in Seq(Items)
        /\ Distinct(queue) /\ Distinct(stack)
        /\ Places(queue) \cap Places(stack) = {}
    BY DEF YardInv, YardTypes, Conserved
  <1>2. /\ top \in Items /\ top.at \in Places(stack)
        /\ stack' \in Seq(Items) /\ Distinct(stack')
        /\ Places(stack') = Places(stack) \ {top.at}
        /\ \A i \in DOMAIN stack' : i \in DOMAIN stack /\ stack'[i] = stack[i]
    BY <1>1, RestPlaces DEF PopToQueue
  <1>3. /\ queue' \in Seq(Items) /\ Distinct(queue')
        /\ Places(queue') = Places(queue) \cup {top.at}
    BY <1>1, <1>2, AppendPlaces DEF PopToQueue
  <1>4. YardTypes'
    BY <1>2, <1>3 DEF YardInv, YardTypes
  <1>5. Taken'
    BY <1>2, <1>3 DEF YardInv, Taken
  <1>6. Conserved'
    <2>1. /\ Places(queue') \cap Places(stack') = {}
          /\ Places(queue') \cup Places(stack') = Places(queue) \cup Places(stack)
      BY <1>1, <1>2, <1>3
    <2>2. QED
      BY <1>2, <1>3, <2>1 DEF YardInv, Conserved
  <1>7. QED
    BY <1>4, <1>5, <1>6 DEF YardInv

\* An operand goes to the queue.
LEMMA OperandStep == YardInv /\ TakeOperand => YardInv'
  <1> SUFFICES ASSUME YardInv, TakeOperand PROVE YardInv'
    OBVIOUS
  <1> DEFINE e == Item("x")
  <1>1. "x" \in Tokens /\ Take("x") /\ pc = "tokens" /\ pc' = "tokens"
    BY DEF TakeOperand, Take, Tokens
  <1>2. /\ expr' \in Seq(Tokens) /\ Len(expr) \in Nat /\ Len(expr') = Len(expr) + 1
        /\ DOMAIN expr = 1 .. Len(expr) /\ DOMAIN expr' = 1 .. Len(expr) + 1
        /\ \A k \in DOMAIN expr : expr'[k] = expr[k]
        /\ expr'[Len(expr) + 1] = "x"
        /\ Len(expr) + 1 \notin Places(queue) \cup Places(stack)
    BY <1>1, TakeStep
  <1>3. e \in Items /\ e.at = Len(expr) + 1
    BY <1>1, <1>2 DEF Item, Items, Symbols
  <1>4. /\ queue \in Seq(Items) /\ queue' = Append(queue, e) /\ stack' = stack
        /\ hand' = hand /\ Distinct(queue) /\ stack \in Seq(Items)
    BY DEF TakeOperand, YardInv, YardTypes, Conserved
  <1>5. /\ queue' \in Seq(Items) /\ Places(queue') = Places(queue) \cup {Len(expr) + 1}
        /\ Distinct(queue')
    BY <1>2, <1>3, <1>4, AppendPlaces
  <1>6. YardTypes'
    BY <1>1, <1>2, <1>4, <1>5 DEF YardInv, YardTypes
  <1>7. Taken'
    <2>1. \A i \in DOMAIN stack : stack[i].at \in DOMAIN expr
      BY DEF YardInv, Taken, Places
    <2>2. Places(queue) \subseteq Nat /\ Places(stack) \subseteq Nat
      BY <1>4, PlacesNat
    <2>3. QED
      BY <1>1, <1>2, <1>4, <1>5, <2>1, <2>2 DEF YardInv, Taken
  <1>8. Conserved'
    BY <1>1, <1>2, <1>4, <1>5 DEF YardInv, Conserved
  <1>9. QED
    BY <1>6, <1>7, <1>8 DEF YardInv

\* A "(" goes to the stack.
LEMMA OpenStep == YardInv /\ TakeOpen => YardInv'
  <1> SUFFICES ASSUME YardInv, TakeOpen PROVE YardInv'
    OBVIOUS
  <1> DEFINE e == Item("(")
  <1>1. "(" \in Tokens /\ Take("(") /\ pc = "tokens" /\ pc' = "tokens"
    BY DEF TakeOpen, Take, Tokens
  <1>2. /\ expr' \in Seq(Tokens) /\ Len(expr) \in Nat /\ Len(expr') = Len(expr) + 1
        /\ DOMAIN expr = 1 .. Len(expr) /\ DOMAIN expr' = 1 .. Len(expr) + 1
        /\ \A k \in DOMAIN expr : expr'[k] = expr[k]
        /\ expr'[Len(expr) + 1] = "("
        /\ Len(expr) + 1 \notin Places(queue) \cup Places(stack)
    BY <1>1, TakeStep
  <1>3. e \in Items /\ e.at = Len(expr) + 1
    BY <1>1, <1>2 DEF Item, Items, Symbols
  <1>4. /\ stack \in Seq(Items) /\ stack' = Append(stack, e) /\ queue' = queue
        /\ hand' = hand /\ Distinct(stack) /\ queue \in Seq(Items)
    BY DEF TakeOpen, YardInv, YardTypes, Conserved
  <1>5. /\ stack' \in Seq(Items) /\ Places(stack') = Places(stack) \cup {Len(expr) + 1}
        /\ Distinct(stack')
    BY <1>2, <1>3, <1>4, AppendPlaces
  <1>6. YardTypes'
    BY <1>1, <1>2, <1>4, <1>5 DEF YardInv, YardTypes
  <1>7. Taken'
    <2>1. \A i \in DOMAIN stack' : (i \in DOMAIN stack /\ stack'[i] = stack[i]) \/ stack'[i] = e
      <3>1. /\ Len(stack) \in Nat /\ DOMAIN stack = 1 .. Len(stack)
            /\ DOMAIN stack' = 1 .. Len(stack')
        BY <1>4, <1>5, LenProperties
      <3>2. QED
        BY <1>3, <1>4, <3>1, AppendProperties
    <2>2. \A i \in DOMAIN stack : stack[i].at \in DOMAIN expr
      BY DEF YardInv, Taken, Places
    <2>3. \A i \in DOMAIN stack' : stack'[i].sym = "(" => expr'[stack'[i].at] = "("
      BY <1>2, <1>3, <2>1, <2>2 DEF YardInv, Taken
    <2>4. Places(queue) \subseteq Nat /\ Places(stack) \subseteq Nat
      BY <1>4, PlacesNat
    <2>5. QED
      BY <1>1, <1>2, <1>4, <1>5, <2>3, <2>4 DEF YardInv, Taken
  <1>8. Conserved'
    BY <1>1, <1>2, <1>4, <1>5 DEF YardInv, Conserved
  <1>9. QED
    BY <1>6, <1>7, <1>8 DEF YardInv

\* A ")" goes nowhere, an operator into the hand.
LEMMA HandStep ==
    ASSUME YardInv, NEW sym \in Tokens, Take(sym), sym # "(",
           \/ pc' = "close" /\ sym = ")" /\ hand' = hand
           \/ pc' = "operator" /\ hand' = Item(Signed(sym)),
           UNCHANGED <<queue, stack>>
    PROVE  YardInv'
  <1>1. /\ expr' \in Seq(Tokens) /\ Len(expr) \in Nat /\ Len(expr') = Len(expr) + 1
        /\ DOMAIN expr = 1 .. Len(expr) /\ DOMAIN expr' = 1 .. Len(expr) + 1
        /\ \A k \in DOMAIN expr : expr'[k] = expr[k]
        /\ expr'[Len(expr) + 1] = sym
        /\ Len(expr) + 1 \notin Places(queue) \cup Places(stack)
    BY TakeStep
  <1>2. Item(Signed(sym)) \in Items /\ Item(Signed(sym)).at = Len(expr) + 1
        /\ Item(Signed(sym)).sym # "("
    BY <1>1 DEF Item, Items, Signed, Symbols
  <1>3. YardTypes'
    BY <1>1, <1>2 DEF YardInv, YardTypes, PcValues
  <1>4. Taken'
    <2>1. \A i \in DOMAIN stack : stack[i].at \in DOMAIN expr
      BY DEF YardInv, Taken, Places
    <2>2. Places(queue) \subseteq Nat /\ Places(stack) \subseteq Nat
      BY PlacesNat DEF YardInv, YardTypes
    <2>3. QED
      BY <1>1, <1>2, <2>1, <2>2 DEF YardInv, Taken
  <1>5. Conserved'
    <2>1. pc = "tokens"
      BY DEF Take
    <2>2. QED
      BY <1>1, <1>2, <2>1 DEF YardInv, Conserved
  <1>6. QED
    BY <1>3, <1>4, <1>5 DEF YardInv

\* A "(" that is closed leaves the stack; no operator does.
LEMMA FoundStep == YardInv /\ CloseFound => YardInv'
  <1> SUFFICES ASSUME YardInv, CloseFound PROVE YardInv'
    OBVIOUS
  <1>1. /\ stack \in Seq(Items) /\ Distinct(stack) /\ stack # <<>>
        /\ Top(stack).sym = "(" /\ stack' = Rest(stack) /\ pc = "close" /\ pc' = "tokens"
        /\ UNCHANGED <<expr, hand, queue>>
    BY DEF CloseFound, YardInv, YardTypes, Conserved
  <1>2. /\ stack' \in Seq(Items) /\ Distinct(stack')
        /\ Places(stack') = Places(stack) \ {Top(stack).at}
        /\ \A i \in DOMAIN stack' : i \in DOMAIN stack /\ stack'[i] = stack[i]
    BY <1>1, RestPlaces
  <1>3. expr[Top(stack).at] = "("
    <2>1. Len(stack) \in DOMAIN stack
      BY <1>1, EmptySeq, LenProperties
    <2>2. QED
      BY <1>1, <2>1 DEF YardInv, Taken, Top
  <1>4. YardTypes' /\ Taken'
    BY <1>1, <1>2 DEF YardInv, YardTypes, Taken, PcValues
  <1>5. Conserved'
    BY <1>1, <1>2, <1>3 DEF YardInv, Conserved
  <1>6. QED
    BY <1>4, <1>5 DEF YardInv

\* The operator goes from the hand to the stack.
LEMMA PushStep == YardInv /\ OperatorPush => YardInv'
  <1> SUFFICES ASSUME YardInv, OperatorPush PROVE YardInv'
    OBVIOUS
  <1>1. /\ stack \in Seq(Items) /\ Distinct(stack) /\ hand \in Items
        /\ hand.at \notin Places(queue) \cup Places(stack)
        /\ stack' = Append(stack, hand) /\ pc = "operator" /\ pc' = "tokens"
        /\ UNCHANGED <<expr, hand, queue>>
    BY DEF OperatorPush, YardInv, YardTypes, Conserved
  <1>2. /\ stack' \in Seq(Items) /\ Distinct(stack')
        /\ Places(stack') = Places(stack) \cup {hand.at}
    BY <1>1, AppendPlaces
  <1>3. \A i \in DOMAIN stack' : (i \in DOMAIN stack /\ stack'[i] = stack[i]) \/ stack'[i] = hand
    <2>1. /\ Len(stack) \in Nat /\ DOMAIN stack = 1 .. Len(stack)
          /\ DOMAIN stack' = 1 .. Len(stack')
      BY <1>1, <1>2, LenProperties
    <2>2. QED
      BY <1>1, <2>1, AppendProperties
  <1>4. YardTypes'
    BY <1>1, <1>2 DEF YardInv, YardTypes, PcValues
  <1>5. Taken'
    BY <1>1, <1>2, <1>3 DEF YardInv, Taken
  <1>6. Conserved'
    BY <1>1, <1>2 DEF YardInv, Conserved
  <1>7. QED
    BY <1>4, <1>5, <1>6 DEF YardInv

\* Only the loop changes, and it is not left with an operator in the hand.
LEMMA QuietStep ==
    ASSUME YardInv, UNCHANGED yard, pc' \in PcValues,
           pc' = pc \/ (pc # "operator" /\ pc' # "operator")
    PROVE  YardInv'
  BY DEF YardInv, YardTypes, Taken, Conserved, yard

\* Every step of the evaluator keeps the invariant of the yard.
LEMMA YardStep == YardInv /\ [Next]_vars => YardInv'
  <1> SUFFICES ASSUME YardInv, [Next]_vars PROVE YardInv'
    OBVIOUS
  <1>1. CASE TakeOperand
    BY <1>1, OperandStep
  <1>2. CASE TakeOpen
    BY <1>2, OpenStep
  <1>3. CASE TakeClose
    <2>1. ")" \in Tokens
      BY DEF Tokens
    <2>2. QED
      BY <1>3, <2>1, HandStep DEF TakeClose
  <1>12. CASE TakeOperator
    <2>1. PICK sym \in Operators :
            /\ Take(sym) /\ hand' = Item(Signed(sym)) /\ pc' = "operator"
            /\ UNCHANGED <<queue, stack>>
      BY <1>12 DEF TakeOperator
    <2>2. sym \in Tokens /\ sym # "("
      BY OperatorsAssumption DEF Tokens
    <2>3. QED
      BY <2>1, <2>2, HandStep
  <1>4. CASE ClosePop
    BY <1>4, PopStep DEF ClosePop
  <1>5. CASE CloseFound
    BY <1>5, FoundStep
  <1>6. CASE OperatorPop
    BY <1>6, PopStep DEF OperatorPop, Yields
  <1>7. CASE OperatorPush
    BY <1>7, PushStep
  <1>8. CASE FlushPop
    BY <1>8, PopStep DEF FlushPop
  <1>9. CASE CloseMissing \/ FlushOpen \/ Unreadable \/ MissingArgs
    BY <1>9, QuietStep DEF CloseMissing, FlushOpen, Unreadable, MissingArgs, Fail,
                           Evaluating, PcValues
  <1>10. CASE End \/ Flushed \/ Finish
    BY <1>10, QuietStep DEF End, Flushed, Finish, PcValues
  <1>11. CASE PushOperand \/ Negate \/ Combine \/ UNCHANGED vars
    <2>1. UNCHANGED yard /\ pc' = pc
      BY <1>11 DEF PushOperand, Negate, Combine, Push, vars
    <2>2. pc' \in PcValues
      BY <2>1 DEF YardInv, YardTypes
    <2>3. QED
      BY <2>1, <2>2, QuietStep
  <1>13. QED
    BY <1>1, <1>2, <1>3, <1>4, <1>5, <1>6, <1>7, <1>8, <1>9, <1>10, <1>11, <1>12
    DEF Next

-----------------------------------------------------------------------------
(* The grammar.                                                            *)

\* A non-empty set of numbers has a smallest.
LEMMA Least ==
    ASSUME NEW S \in SUBSET Nat, S # {}
    PROVE  \E i \in S : \A j \in S : i <= j
  <1> DEFINE Below(i) == 0 .. i
  <1>1. PICK n \in S : TRUE
    OBVIOUS
  <1> DEFINE U == 0 .. n
             R == {i \in S : i <= n}
             T == {Below(i) : i \in R}
  <1>2. IsFiniteSet(U)
    BY <1>1, FS_Interval
  <1>3. IsWellFoundedOn(StrictSubsetOrdering(U), SUBSET U)
    BY <1>2, FS_StrictSubsetOrderingWellFounded, FS_FiniteSubsetsOfFinite
  <1>4. T \subseteq SUBSET U /\ T # {}
    <2>1. \A j \in R : Below(j) \in SUBSET U
      BY <1>1
    <2>2. n \in R
      BY <1>1
    <2>3. QED
      BY <2>1, <2>2
  <1>5. PICK t \in T : \A u \in T : <<u, t>> \notin StrictSubsetOrdering(U)
    <2> HIDE DEF T
    <2>1. \E x \in T : \A y \in T : ~ (<<y, x>> \in StrictSubsetOrdering(U))
      BY <1>3, <1>4, WFMin
    <2>2. QED
      BY <2>1
  <1>6. PICK i \in R : t = Below(i)
    OBVIOUS
  <1>7. ASSUME NEW j \in R, j < i PROVE FALSE
    <2>1. Below(j) \in T
      OBVIOUS
    <2>2. Below(j) \subseteq Below(i) /\ i \in Below(i) /\ i \notin Below(j)
      BY <1>7
    <2>3. <<Below(j), Below(i)>> \in StrictSubsetOrdering(U)
      BY <1>4, <1>6, <2>1, <2>2 DEF StrictSubsetOrdering
    <2>4. QED
      BY <1>5, <1>6, <2>1, <2>3
  <1>8. ASSUME NEW j \in S PROVE i <= j
    BY <1>1, <1>7
  <1>9. QED
    BY <1>8

-----------------------------------------------------------------------------
(* The grammar: its rules look at smaller nodes only.                      *)

\* A rule looks at nodes with fewer tokens, or of a tighter level.
Looseness(level) == IF level = "sum" THEN 3 ELSE IF level = "prod" THEN 2
                    ELSE IF level = "sign" THEN 1 ELSE 0
Size(x) == IF x.lo > x.hi THEN 0 ELSE 4 * (x.hi - x.lo) + 1 + Looseness(x.level)

Smaller(e, x) == {y \in Nodes(e) : Size(y) < Size(x)}

\* Sizes are numbers, and bounded.
LEMMA SizeNat ==
    ASSUME NEW e, Len(e) \in Nat, NEW x \in Nodes(e)
    PROVE  Size(x) \in Nat /\ Size(x) < 4 * Len(e) + 4
  BY DEF Nodes, Size, Looseness, Levels

\* The nodes below a node, by its rule.
LEMMA NodesBelow ==
    ASSUME NEW e, Len(e) \in Nat, NEW lo \in 1 .. Len(e), NEW hi \in 1 .. Len(e),
           lo <= hi
    PROVE  /\ lo < hi => Node("sum", lo + 1, hi - 1) \in Smaller(e, Node("atom", lo, hi))
           /\ lo < hi => Node("sign", lo + 1, hi) \in Smaller(e, Node("sign", lo, hi))
           /\ Node("atom", lo, hi) \in Smaller(e, Node("sign", lo, hi))
           /\ \A level \in {"sum", "prod"} :
                /\ Node(Tighter(level), lo, hi) \in Smaller(e, Node(level, lo, hi))
                /\ \A k \in lo + 1 .. hi - 1 :
                     /\ Node(level, lo, k - 1) \in Smaller(e, Node(level, lo, hi))
                     /\ Node(Tighter(level), k + 1, hi) \in Smaller(e, Node(level, lo, hi))
  <1>1. ASSUME NEW l1 \in Levels, NEW l2 \in Levels,
               NEW a1 \in 1 .. Len(e), NEW b1 \in 0 .. Len(e), lo <= a1, b1 <= hi,
               a1 > lo \/ b1 < hi \/ Looseness(l1) < Looseness(l2)
        PROVE  Node(l1, a1, b1) \in Smaller(e, Node(l2, lo, hi))
    <2>1. Node(l1, a1, b1) \in Nodes(e)
      BY DEF Node, Nodes
    <2>2. Size(Node(l2, lo, hi)) = 4 * (hi - lo) + 1 + Looseness(l2)
      BY DEF Node, Size
    <2>3. Size(Node(l1, a1, b1)) = IF a1 > b1 THEN 0 ELSE 4 * (b1 - a1) + 1 + Looseness(l1)
      BY DEF Node, Size
    <2>4. Looseness(l1) \in 0 .. 3 /\ Looseness(l2) \in 0 .. 3
      BY DEF Looseness
    <2>5. Size(Node(l1, a1, b1)) < Size(Node(l2, lo, hi))
      BY <1>1, <2>2, <2>3, <2>4
    <2>6. QED
      BY <2>1, <2>5 DEF Smaller
  <1>2. /\ \A level \in {"sum", "prod"} :
             /\ Tighter(level) \in Levels /\ level \in Levels
             /\ Looseness(Tighter(level)) < Looseness(level)
        /\ {"sum", "sign", "atom"} \subseteq Levels
        /\ Looseness("atom") < Looseness("sign")
    BY DEF Levels, Tighter, Looseness
  <1>3. /\ lo < hi => Node("sum", lo + 1, hi - 1) \in Smaller(e, Node("atom", lo, hi))
        /\ lo < hi => Node("sign", lo + 1, hi) \in Smaller(e, Node("sign", lo, hi))
        /\ Node("atom", lo, hi) \in Smaller(e, Node("sign", lo, hi))
    BY <1>1, <1>2
  <1>4. ASSUME NEW level \in {"sum", "prod"}
        PROVE  Node(Tighter(level), lo, hi) \in Smaller(e, Node(level, lo, hi))
    BY <1>1, <1>2
  <1>5. ASSUME NEW level \in {"sum", "prod"}, NEW k \in lo + 1 .. hi - 1
        PROVE  /\ Node(level, lo, k - 1) \in Smaller(e, Node(level, lo, hi))
               /\ Node(Tighter(level), k + 1, hi) \in Smaller(e, Node(level, lo, hi))
    BY <1>1, <1>2
  <1>6. QED
    BY <1>3, <1>4, <1>5

\* What the rules say does not depend on the larger nodes.
LEMMA RuleLocal ==
    ASSUME NEW e, Len(e) \in Nat, NEW x \in Nodes(e), NEW f, NEW g,
           \A y \in Smaller(e, x) : f[y] = g[y]
    PROVE  Rule(e, f, x) = Rule(e, g, x)
  <1> DEFINE lo == x.lo
             hi == x.hi
  <1>1. CASE lo > hi
    BY <1>1 DEF Rule
  <1>2. CASE ~ (lo > hi)
    <2>1. /\ lo \in 1 .. Len(e) /\ hi \in 1 .. Len(e) /\ lo <= hi /\ x.level \in Levels
          /\ x = Node(x.level, lo, hi)
      BY <1>2 DEF Nodes, Node
    <2> HIDE DEF lo, hi
    <2>2. CASE x.level = "atom"
      <3>1. lo < hi => f[Node("sum", lo + 1, hi - 1)] = g[Node("sum", lo + 1, hi - 1)]
        BY <2>1, <2>2, NodesBelow
      <3>2. Atoms(e, f, lo, hi) = Atoms(e, g, lo, hi)
        BY <2>1, <3>1 DEF Atoms
      <3>3. QED
        BY <1>2, <2>2, <3>2 DEF Rule, lo, hi
    <2>3. CASE x.level = "sign"
      <3>1. /\ lo < hi => f[Node("sign", lo + 1, hi)] = g[Node("sign", lo + 1, hi)]
            /\ f[Node("atom", lo, hi)] = g[Node("atom", lo, hi)]
        BY <2>1, <2>3, NodesBelow
      <3>2. Signs(e, f, lo, hi) = Signs(e, g, lo, hi)
        BY <3>1 DEF Signs
      <3>3. QED
        BY <1>2, <2>3, <3>2 DEF Rule, lo, hi
    <2>4. CASE x.level \in {"sum", "prod"}
      <3> DEFINE level == x.level
      <3> HIDE DEF level
      <3>1. level \in {"sum", "prod"} /\ x = Node(level, lo, hi)
        BY <2>1, <2>4 DEF level
      <3>2. /\ Node(Tighter(level), lo, hi) \in Smaller(e, x)
            /\ \A k \in lo + 1 .. hi - 1 :
                     /\ Node(level, lo, k - 1) \in Smaller(e, x)
                     /\ Node(Tighter(level), k + 1, hi) \in Smaller(e, x)
        BY <2>1, <3>1, NodesBelow
      <3>3. f[Node(Tighter(level), lo, hi)] = g[Node(Tighter(level), lo, hi)]
        BY <3>2
      <3>4. ASSUME NEW k \in Splits(e, level, lo, hi)
            PROVE  JoinedAt(e, f, level, lo, k, hi) = JoinedAt(e, g, level, lo, k, hi)
        <4>1. k \in lo + 1 .. hi - 1
          BY <3>4 DEF Splits
        <4>2. /\ f[Node(level, lo, k - 1)] = g[Node(level, lo, k - 1)]
              /\ f[Node(Tighter(level), k + 1, hi)] = g[Node(Tighter(level), k + 1, hi)]
          BY <3>2, <4>1
        <4>3. QED
          BY <4>2 DEF JoinedAt
      <3>5. Joined(e, f, level, lo, hi) = Joined(e, g, level, lo, hi)
        BY <3>3, <3>4 DEF Joined
      <3>6. QED
        BY <1>2, <2>4, <3>5 DEF Rule, lo, hi, level
    <2>5. QED
      BY <2>1, <2>2, <2>3, <2>4 DEF Levels
  <1>3. QED
    BY <1>1, <1>2

\* Induction over the nodes, for a set of them.
LEMMA NodeInduction ==
    ASSUME NEW e, Len(e) \in Nat, NEW P,
           \A x \in Nodes(e) : Smaller(e, x) \subseteq P => x \in P
    PROVE  Nodes(e) \subseteq P
  <1> DEFINE Out == {x \in Nodes(e) : x \notin P}
             S == {Size(x) : x \in Out}
  <1> SUFFICES ASSUME Out # {} PROVE FALSE
    OBVIOUS
  <1>1. S \in SUBSET Nat /\ S # {}
    BY SizeNat
  <1>2. PICK i \in S : \A j \in S : i <= j
    <2> HIDE DEF S
    <2>1. QED
      BY <1>1, Least
  <1>3. PICK x \in Out : i = Size(x)
    OBVIOUS
  <1>4. ASSUME NEW y \in Smaller(e, x) PROVE y \in P
    <2>1. y \in Nodes(e) /\ Size(y) < Size(x) /\ Size(y) \in Nat /\ Size(x) \in Nat
      BY SizeNat DEF Smaller
    <2>2. y \in Out => Size(y) \in S
      OBVIOUS
    <2> HIDE DEF S
    <2>3. QED
      BY <1>2, <1>3, <2>1, <2>2
  <1>5. QED
    BY <1>3, <1>4

\* The terms of a node are those its rule gives it.
LEMMA TermsRule ==
    ASSUME NEW e, Len(e) \in Nat, NEW x \in Nodes(e)
    PROVE  Terms(e)[x] = Rule(e, Terms(e), x)
  <1> DEFINE UpTo(m) == {y \in Nodes(e) : Size(y) < m}
             Body(m, f) == [y \in UpTo(m) |-> Rule(e, f, y)]
             Fails == {m \in Nat : ~ \E f : f = Body(m, f)}
  <1>1. ASSUME NEW m \in Nat, NEW f, f = Body(m, f)
        PROVE  \E g : g = Body(m + 1, g)
    <2> DEFINE g == Body(m + 1, f)
    <2>1. \A y \in UpTo(m) : f[y] = Rule(e, f, y)
      BY <1>1
    <2>2. UpTo(m) \subseteq UpTo(m + 1)
      BY SizeNat
    <2>3. \A y \in UpTo(m + 1) : g[y] = Rule(e, f, y)
      OBVIOUS
    <2>4. \A y \in UpTo(m) : f[y] = g[y]
      <3> HIDE DEF UpTo, g, Body
      <3>1. QED
        BY <2>1, <2>2, <2>3
    <2>5. ASSUME NEW y \in UpTo(m + 1) PROVE Rule(e, f, y) = Rule(e, g, y)
      <3>1. y \in Nodes(e) /\ Smaller(e, y) \subseteq UpTo(m)
        BY SizeNat DEF Smaller
      <3> HIDE DEF UpTo, g
      <3>2. QED
        BY <2>4, <3>1, RuleLocal
    <2>6. g = Body(m + 1, g)
      BY <2>5
    <2>7. QED
      BY <2>6
  <1>2. \E f : f = Body(0, f)
    <2>1. UpTo(0) = {}
      BY SizeNat
    <2>2. \A f : Body(0, f) = [y \in {} |-> {}]
      BY <2>1
    <2> HIDE DEF Body
    <2>3. QED
      BY <2>2
  <1>3. Fails = {}
    <2> HIDE DEF Body
    <2> SUFFICES ASSUME Fails # {} PROVE FALSE
      OBVIOUS
    <2>1. PICK i \in Fails : \A j \in Fails : i <= j
      <3>1. Fails \in SUBSET Nat
        OBVIOUS
      <3> HIDE DEF Fails
      <3>2. QED
        BY <3>1, Least
    <2>2. i \in Nat /\ i # 0
      BY <1>2
    <2>3. i - 1 \in Nat /\ i - 1 \notin Fails
      BY <2>1, <2>2
    <2>4. PICK f : f = Body(i - 1, f)
      BY <2>3
    <2>5. \E g : g = Body((i - 1) + 1, g)
      BY <1>1, <2>3, <2>4
    <2>6. (i - 1) + 1 = i
      BY <2>2
    <2>7. \E g : g = Body(i, g)
      BY <2>5, <2>6
    <2>8. QED
      BY <2>1, <2>7
  <1> DEFINE All(f) == [y \in Nodes(e) |-> Rule(e, f, y)]
  <1>4. \E f : f = All(f)
    <2>1. UpTo(4 * Len(e) + 4) = Nodes(e)
      BY SizeNat
    <2>2. PICK f : f = Body(4 * Len(e) + 4, f)
      <3>1. 4 * Len(e) + 4 \in Nat
        OBVIOUS
      <3> HIDE DEF Body
      <3>2. QED
        BY <1>3, <3>1
    <2>3. f = All(f)
      BY <2>1, <2>2
    <2>4. QED
      BY <2>3
  <1>5. Terms(e) = CHOOSE f : f = All(f)
    BY DEF Terms
  <1>6. Terms(e) = All(Terms(e))
    <2> DEFINE t == Terms(e)
    <2> HIDE DEF All, t
    <2>1. t = CHOOSE f : f = All(f)
      BY <1>5 DEF t
    <2>2. t = All(t)
      BY <1>4, <2>1
    <2>3. QED
      BY <2>2 DEF t
  <1> DEFINE t == Terms(e)
  <1>7. t = All(t)
    BY <1>6
  <1> HIDE DEF t
  <1>8. t[x] = Rule(e, t, x)
    BY <1>7
  <1>9. QED
    BY <1>8 DEF t

\* The terms of tokens lo .. hi, read at a level.
Of(e, level, lo, hi) == Terms(e)[Node(level, lo, hi)]

\* The terms of a node of at least one token, level by level.
LEMMA NodeTerms ==
    ASSUME NEW e, Len(e) \in Nat, NEW lo \in 1 .. Len(e), NEW hi \in 1 .. Len(e),
           lo <= hi
    PROVE  /\ Of(e, "atom", lo, hi) = Atoms(e, Terms(e), lo, hi)
           /\ Of(e, "sign", lo, hi) = Signs(e, Terms(e), lo, hi)
           /\ \A level \in {"sum", "prod"} :
                Of(e, level, lo, hi) = Joined(e, Terms(e), level, lo, hi)
  <1>1. ASSUME NEW level \in Levels
        PROVE  /\ Of(e, level, lo, hi) = Rule(e, Terms(e), Node(level, lo, hi))
               /\ Node(level, lo, hi).level = level
               /\ Node(level, lo, hi).lo = lo /\ Node(level, lo, hi).hi = hi
    <2>1. Node(level, lo, hi) \in Nodes(e)
      BY DEF Node, Nodes
    <2>2. QED
      BY <2>1, TermsRule DEF Of, Node
  <1>2. Of(e, "atom", lo, hi) = Atoms(e, Terms(e), lo, hi)
    BY <1>1 DEF Rule, Levels
  <1>3. Of(e, "sign", lo, hi) = Signs(e, Terms(e), lo, hi)
    BY <1>1 DEF Rule, Levels
  <1>4. ASSUME NEW level \in {"sum", "prod"}
        PROVE  Of(e, level, lo, hi) = Joined(e, Terms(e), level, lo, hi)
    BY <1>1 DEF Rule, Levels
  <1>5. QED
    BY <1>2, <1>3, <1>4

\* A node of no token has no term.
LEMMA NoTerms ==
    ASSUME NEW e, Len(e) \in Nat, NEW level \in Levels, NEW lo \in 1 .. Len(e),
           NEW hi \in 0 .. Len(e), lo > hi
    PROVE  Of(e, level, lo, hi) = {}
  <1>1. Node(level, lo, hi) \in Nodes(e)
    BY DEF Node, Nodes
  <1>2. QED
    BY <1>1, TermsRule DEF Of, Node, Rule

-----------------------------------------------------------------------------
(* Counting.                                                               *)

\* A token more is one more of its kind.
LEMMA Counting ==
    ASSUME NEW e, NEW s, NEW m \in Nat
    PROVE  /\ Count(e, s, 0) = 0
           /\ Count(e, s, m) \in Nat
           /\ Count(e, s, m + 1) = Count(e, s, m) + IF e[m + 1] = s THEN 1 ELSE 0
  <1> DEFINE K(n) == {k \in 1 .. n : e[k] = s}
  <1>1. ASSUME NEW n \in Nat
        PROVE  IsFiniteSet(K(n)) /\ Cardinality(K(n)) \in Nat
    <2>1. IsFiniteSet(1 .. n) /\ K(n) \in SUBSET (1 .. n)
      BY FS_Interval
    <2>2. IsFiniteSet(K(n))
      BY <2>1, FS_Subset
    <2>3. QED
      BY <2>2, FS_CardinalityType
  <1>2. K(0) = {}
    OBVIOUS
  <1>3. ASSUME NEW n \in Nat
        PROVE  Cardinality(K(n + 1)) = Cardinality(K(n)) + IF e[n + 1] = s THEN 1 ELSE 0
    <2>1. IsFiniteSet(K(n)) /\ (n + 1) \notin K(n)
      BY <1>1
    <2>2. CASE e[n + 1] = s
      <3>1. K(n + 1) = K(n) \cup {n + 1}
        BY <2>2
      <3> HIDE DEF K
      <3>2. QED
        BY <2>1, <2>2, <3>1, FS_AddElement
    <2>3. CASE e[n + 1] # s
      <3>1. K(n + 1) = K(n)
        BY <2>3
      <3> HIDE DEF K
      <3>2. QED
        BY <1>1, <2>3, <3>1
    <2>4. QED
      BY <2>2, <2>3
  <1>4. \A n : Count(e, s, n) = Cardinality(K(n))
    BY DEF Count
  <1> HIDE DEF K
  <1>5. QED
    BY <1>1, <1>2, <1>3, <1>4, FS_EmptySet

\* The two kinds of parentheses.
LEMMA ParenCounting ==
    ASSUME NEW e, NEW n \in Nat
    PROVE  /\ Count(e, "(", 0) = 0 /\ Count(e, ")", 0) = 0
           /\ Count(e, "(", n) \in Nat /\ Count(e, ")", n) \in Nat
           /\ Count(e, "(", n + 1) = Count(e, "(", n) + IF e[n + 1] = "(" THEN 1 ELSE 0
           /\ Count(e, ")", n + 1) = Count(e, ")", n) + IF e[n + 1] = ")" THEN 1 ELSE 0
  <1>1. /\ Count(e, "(", 0) = 0 /\ Count(e, "(", n) \in Nat
        /\ Count(e, "(", n + 1) = Count(e, "(", n) + IF e[n + 1] = "(" THEN 1 ELSE 0
    BY Counting
  <1>2. /\ Count(e, ")", 0) = 0 /\ Count(e, ")", n) \in Nat
        /\ Count(e, ")", n + 1) = Count(e, ")", n) + IF e[n + 1] = ")" THEN 1 ELSE 0
    BY Counting
  <1>3. QED
    BY <1>1, <1>2

\* Counts depend on the tokens counted only.
LEMMA CountSame ==
    ASSUME NEW e, NEW f, NEW s, NEW n \in Nat, \A k \in 1 .. n : e[k] = f[k]
    PROVE  Count(e, s, n) = Count(f, s, n)
  <1>1. {k \in 1 .. n : e[k] = s} = {k \in 1 .. n : f[k] = s}
    OBVIOUS
  <1>2. QED
    BY <1>1 DEF Count

\* The parentheses open after a token.
Depth(e, k) == Count(e, "(", k) - Count(e, ")", k)

\* A "(" opens, a ")" closes, and no other token does either.
LEMMA DepthStep ==
    ASSUME NEW e
    PROVE  /\ Depth(e, 0) = 0
           /\ \A n \in Nat : Depth(e, n) \in Int
           /\ \A n \in Nat : n > 0 =>
                Depth(e, n) = Depth(e, n - 1) + IF e[n] = "(" THEN 1
                                                ELSE IF e[n] = ")" THEN - 1 ELSE 0
  <1> DEFINE open(n) == Count(e, "(", n)
             shut(n) == Count(e, ")", n)
  <1>1. ASSUME NEW n \in Nat
        PROVE  /\ open(0) = 0 /\ shut(0) = 0 /\ open(n) \in Nat /\ shut(n) \in Nat
               /\ open(n + 1) = open(n) + IF e[n + 1] = "(" THEN 1 ELSE 0
               /\ shut(n + 1) = shut(n) + IF e[n + 1] = ")" THEN 1 ELSE 0
    BY ParenCounting
  <1>2. \A n : Depth(e, n) = open(n) - shut(n)
    BY DEF Depth
  <1> HIDE DEF open, shut
  <1>3. ASSUME NEW n \in Nat, n > 0
        PROVE  Depth(e, n) = Depth(e, n - 1) + IF e[n] = "(" THEN 1
                                                ELSE IF e[n] = ")" THEN - 1 ELSE 0
    <2>1. n - 1 \in Nat /\ (n - 1) + 1 = n
      BY <1>3
    <2>2. /\ open(n) = open(n - 1) + IF e[n] = "(" THEN 1 ELSE 0
          /\ shut(n) = shut(n - 1) + IF e[n] = ")" THEN 1 ELSE 0
          /\ open(n - 1) \in Nat /\ shut(n - 1) \in Nat
      BY <1>1, <2>1
    <2>3. QED
      BY <1>2, <2>2
  <1>4. QED
    BY <1>1, <1>2, <1>3

-----------------------------------------------------------------------------
(* The shape of what has a meaning.                                        *)

Ends == {"x", ")"}
Starts == {"x", "(", "-"}

\* A token that may follow the one before it.
Follows(e, k) == IF e[k - 1] \in Ends THEN e[k] \notin {"x", "("} ELSE e[k] \in Starts

\* The binary operators a node has inside parentheses only.
Excluded(level) == IF level = "sum" THEN {}
                   ELSE IF level = "prod" THEN {"+", "-"} ELSE {"+", "-", "*", "/"}

Ranged(e, lo, hi) ==
    /\ lo <= hi
    /\ e[lo] \in Starts /\ e[hi] \in Ends
    /\ Depth(e, hi) = Depth(e, lo - 1)
    /\ \A k \in lo .. hi : Depth(e, k) >= Depth(e, lo - 1)
    /\ \A k \in lo + 1 .. hi : Follows(e, k)

Inner(e, level, lo, hi) ==
    \A k \in lo + 1 .. hi :
        e[k - 1] \in Ends /\ e[k] \in Excluded(level) => Depth(e, k) > Depth(e, lo - 1)

Shape(e, level, lo, hi) ==
    /\ Ranged(e, lo, hi) /\ Inner(e, level, lo, hi)
    /\ level = "atom" => e[lo] # "-"

Shaped(e) == {x \in Nodes(e) : Terms(e)[x] # {} => Shape(e, x.level, x.lo, x.hi)}

\* Node by node: an operand, a parenthesis, a sign and a binary operator.
LEMMA OperandShape ==
    ASSUME NEW e, NEW lo \in Nat, lo > 0, e[lo] = "x"
    PROVE  Shape(e, "atom", lo, lo)
  <1>1. Depth(e, lo) = Depth(e, lo - 1) /\ Depth(e, lo) \in Int
    BY DepthStep
  <1>2. QED
    BY <1>1 DEF Shape, Ranged, Inner, Starts, Ends

\* Inside parentheses every token is deeper.
LEMMA ParenShape ==
    ASSUME NEW e, NEW lo \in Nat, NEW hi \in Nat, lo > 0, lo < hi, e[lo] = "(", e[hi] = ")",
           Shape(e, "sum", lo + 1, hi - 1)
    PROVE  Shape(e, "atom", lo, hi)
  <1> DEFINE D(k) == Depth(e, k)
  <1>1. /\ \A k \in Nat : D(k) \in Int
        /\ D(lo) = D(lo - 1) + 1 /\ D(hi) = D(hi - 1) - 1
    BY DepthStep
  <1>2. /\ lo + 1 <= hi - 1 /\ e[lo + 1] \in Starts /\ e[hi - 1] \in Ends
        /\ D(hi - 1) = D(lo)
        /\ \A k \in lo + 1 .. hi - 1 : D(k) >= D(lo)
        /\ \A k \in lo + 2 .. hi - 1 : Follows(e, k)
    BY DEF Shape, Ranged
  <1> HIDE DEF D
  <1>3. Follows(e, lo + 1) /\ Follows(e, hi)
    BY <1>2 DEF Follows, Ends
  <1>4. \A k \in lo + 1 .. hi : Follows(e, k)
    <2>1. \A k \in lo + 1 .. hi : k = lo + 1 \/ k = hi \/ k \in lo + 2 .. hi - 1
      OBVIOUS
    <2>2. QED
      BY <1>2, <1>3, <2>1
  <1>5. \A k \in lo .. hi - 1 : D(k) >= D(lo - 1) + 1
    BY <1>1, <1>2
  <1>6. D(hi) = D(lo - 1)
    BY <1>1, <1>2
  <1>7. \A k \in lo .. hi : D(k) >= D(lo - 1)
    BY <1>1, <1>5, <1>6
  <1>8. Ranged(e, lo, hi)
    BY <1>4, <1>6, <1>7 DEF Ranged, Starts, Ends, D
  <1>9. Inner(e, "atom", lo, hi)
    BY <1>1, <1>5 DEF Inner, Excluded, D
  <1>10. QED
    BY <1>8, <1>9 DEF Shape

\* A sign is followed by its operand.
LEMMA SignShape ==
    ASSUME NEW e, NEW lo \in Nat, NEW hi \in Nat, lo > 0, lo < hi, e[lo] = "-",
           Shape(e, "sign", lo + 1, hi)
    PROVE  Shape(e, "sign", lo, hi)
  <1> DEFINE D(k) == Depth(e, k)
  <1>1. (\A k \in Nat : D(k) \in Int) /\ D(lo) = D(lo - 1)
    BY DepthStep
  <1>2. /\ e[lo + 1] \in Starts /\ e[hi] \in Ends /\ D(hi) = D(lo)
        /\ \A k \in lo + 1 .. hi : D(k) >= D(lo)
        /\ \A k \in lo + 2 .. hi : Follows(e, k)
        /\ \A k \in lo + 2 .. hi : e[k - 1] \in Ends /\ e[k] \in Excluded("sign") => D(k) > D(lo)
    BY DEF Shape, Ranged, Inner
  <1> HIDE DEF D
  <1>3. \A k \in lo + 1 .. hi : k = lo + 1 \/ k \in lo + 2 .. hi
    OBVIOUS
  <1>4. Follows(e, lo + 1) /\ e[lo] \notin Ends
    BY <1>2 DEF Follows, Ends
  <1>5. \A k \in lo + 1 .. hi : Follows(e, k)
    BY <1>2, <1>3, <1>4
  <1>6. Ranged(e, lo, hi)
    BY <1>1, <1>2, <1>5 DEF Ranged, Starts, D
  <1>7. Inner(e, "sign", lo, hi)
    <2>1. ASSUME NEW k \in lo + 1 .. hi, e[k - 1] \in Ends, e[k] \in Excluded("sign")
          PROVE  D(k) > D(lo - 1)
      <3>1. k # lo + 1
        BY <1>4, <2>1
      <3>2. QED
        BY <1>1, <1>2, <1>3, <2>1, <3>1
    <2>2. QED
      BY <2>1 DEF Inner, D
  <1>8. QED
    BY <1>6, <1>7 DEF Shape

\* A tighter node is a looser one too.
LEMMA LooserShape ==
    ASSUME NEW e, NEW lo \in Nat, NEW hi \in Nat,
           NEW a \in Levels, NEW b \in Levels, Looseness(a) <= Looseness(b),
           Shape(e, a, lo, hi)
    PROVE  Shape(e, b, lo, hi)
  <1>1. Excluded(b) \subseteq Excluded(a) /\ (b = "atom" => a = "atom")
    BY DEF Excluded, Looseness, Levels
  <1>2. QED
    BY <1>1 DEF Shape, Inner

\* A binary operator stands between its operands, at their depth.
LEMMA JoinShape ==
    ASSUME NEW e, NEW lo \in Nat, NEW hi \in Nat, lo > 0,
           NEW level \in {"sum", "prod"}, NEW k \in lo + 1 .. hi - 1,
           e[k] \in Joins(level),
           Shape(e, level, lo, k - 1), Shape(e, Tighter(level), k + 1, hi)
    PROVE  /\ Shape(e, level, lo, hi)
           /\ e[k - 1] \in Ends /\ Depth(e, k) = Depth(e, lo - 1)
  <1> DEFINE D(j) == Depth(e, j)
             T == Tighter(level)
  <1>1. /\ e[k] \notin Ends /\ e[k] \notin {"x", "("} /\ e[k] \notin Excluded(level)
        /\ Excluded(level) \subseteq Excluded(T)
    BY DEF Joins, Ends, Excluded, Tighter
  <1>2. (\A j \in Nat : D(j) \in Int) /\ D(k) = D(k - 1)
    BY <1>1, DepthStep DEF Ends
  <1>3. /\ e[lo] \in Starts /\ e[k - 1] \in Ends /\ D(k - 1) = D(lo - 1)
        /\ \A j \in lo .. k - 1 : D(j) >= D(lo - 1)
        /\ \A j \in lo + 1 .. k - 1 : Follows(e, j)
        /\ \A j \in lo + 1 .. k - 1 :
             e[j - 1] \in Ends /\ e[j] \in Excluded(level) => D(j) > D(lo - 1)
    BY DEF Shape, Ranged, Inner
  <1>4. /\ e[k + 1] \in Starts /\ e[hi] \in Ends /\ D(hi) = D(k)
        /\ \A j \in k + 1 .. hi : D(j) >= D(k)
        /\ \A j \in k + 2 .. hi : Follows(e, j)
        /\ \A j \in k + 2 .. hi :
             e[j - 1] \in Ends /\ e[j] \in Excluded(T) => D(j) > D(k)
    BY DEF Shape, Ranged, Inner
  <1> HIDE DEF D, T
  <1>5. \A j \in lo + 1 .. hi : j \in lo + 1 .. k - 1 \/ j = k \/ j = k + 1 \/ j \in k + 2 .. hi
    OBVIOUS
  <1>6. Follows(e, k) /\ Follows(e, k + 1)
    BY <1>1, <1>3, <1>4 DEF Follows
  <1>7. \A j \in lo + 1 .. hi : Follows(e, j)
    BY <1>3, <1>4, <1>5, <1>6
  <1>8. D(k) = D(lo - 1) /\ D(lo - 1) \in Int
    BY <1>2, <1>3
  <1>9. \A j \in lo .. hi : D(j) >= D(lo - 1)
    <2>1. \A j \in lo .. hi : j \in lo .. k - 1 \/ j = k \/ j \in k + 1 .. hi
      OBVIOUS
    <2>2. QED
      BY <1>3, <1>4, <1>8, <2>1
  <1>10. Ranged(e, lo, hi)
    BY <1>3, <1>4, <1>7, <1>8, <1>9 DEF Ranged, D
  <1>11. ASSUME NEW j \in lo + 1 .. hi, e[j - 1] \in Ends, e[j] \in Excluded(level)
         PROVE  D(j) > D(lo - 1)
    <2>1. j # k /\ j # k + 1
      BY <1>1, <1>11
    <2>2. CASE j \in lo + 1 .. k - 1
      BY <1>3, <1>11, <2>2
    <2>3. CASE j \in k + 2 .. hi
      BY <1>1, <1>4, <1>8, <1>11, <2>3
    <2>4. QED
      BY <1>5, <2>1, <2>2, <2>3
  <1>12. Inner(e, level, lo, hi)
    BY <1>11 DEF Inner, D
  <1>13. QED
    BY <1>3, <1>8, <1>10, <1>12 DEF Shape, D

\* What has a meaning is shaped, node by node.
LEMMA ShapedStep ==
    ASSUME NEW e, Len(e) \in Nat, NEW x \in Nodes(e), Smaller(e, x) \subseteq Shaped(e)
    PROVE  x \in Shaped(e)
  <1> DEFINE lo == x.lo
             hi == x.hi
             l == x.level
  <1>1. /\ l \in Levels /\ lo \in 1 .. Len(e) /\ hi \in 0 .. Len(e)
        /\ x = Node(l, lo, hi) /\ Terms(e)[x] = Of(e, l, lo, hi)
    BY DEF Nodes, Node, Of
  <1> SUFFICES ASSUME Of(e, l, lo, hi) # {} PROVE Shape(e, l, lo, hi)
    BY <1>1 DEF Shaped
  <1> HIDE DEF lo, hi, l
  <1>2. lo <= hi /\ hi \in 1 .. Len(e)
    BY <1>1, NoTerms
  <1>3. ASSUME NEW level, NEW a, NEW b, Node(level, a, b) \in Smaller(e, x),
               Of(e, level, a, b) # {}
        PROVE  Shape(e, level, a, b)
    BY <1>3 DEF Shaped, Of, Node
  <1>4. CASE l = "atom"
    <2>1. Atoms(e, Terms(e), lo, hi) # {}
      BY <1>1, <1>2, <1>4, NodeTerms
    <2>2. CASE lo = hi
      <3>1. e[lo] = "x"
        BY <2>1, <2>2 DEF Atoms
      <3>2. QED
        BY <1>1, <1>4, <2>2, <3>1, OperandShape
    <2>3. CASE lo # hi
      <3>1. lo < hi
        BY <1>1, <1>2, <2>3
      <3>2. e[lo] = "(" /\ e[hi] = ")" /\ Of(e, "sum", lo + 1, hi - 1) # {}
        BY <2>1, <2>3 DEF Atoms, Of
      <3>3. Node("sum", lo + 1, hi - 1) \in Smaller(e, x)
        BY <1>1, <1>2, <1>4, <3>1, NodesBelow
      <3>4. Shape(e, "sum", lo + 1, hi - 1)
        BY <1>3, <3>2, <3>3
      <3>5. QED
        BY <1>1, <1>2, <1>4, <3>1, <3>2, <3>4, ParenShape
    <2>4. QED
      BY <2>2, <2>3
  <1>5. CASE l = "sign"
    <2>1. Signs(e, Terms(e), lo, hi) # {}
      BY <1>1, <1>2, <1>5, NodeTerms
    <2>2. CASE e[lo] = "-" /\ lo < hi
      <3>1. Of(e, "sign", lo + 1, hi) # {}
        BY <2>1, <2>2 DEF Signs, Of
      <3>2. Node("sign", lo + 1, hi) \in Smaller(e, x)
        BY <1>1, <1>2, <1>5, <2>2, NodesBelow
      <3>3. Shape(e, "sign", lo + 1, hi)
        BY <1>3, <3>1, <3>2
      <3>4. QED
        BY <1>1, <1>2, <1>5, <2>2, <3>3, SignShape
    <2>3. CASE ~ (e[lo] = "-" /\ lo < hi)
      <3>1. Of(e, "atom", lo, hi) # {}
        BY <2>1, <2>3 DEF Signs, Of
      <3>2. Node("atom", lo, hi) \in Smaller(e, x)
        BY <1>1, <1>2, <1>5, NodesBelow
      <3>3. Shape(e, "atom", lo, hi)
        BY <1>3, <3>1, <3>2
      <3>4. "atom" \in Levels /\ "sign" \in Levels /\ Looseness("atom") <= Looseness("sign")
        BY DEF Levels, Looseness
      <3>5. lo \in Nat /\ hi \in Nat
        BY <1>1, <1>2
      <3>6. Shape(e, "sign", lo, hi)
        BY <3>3, <3>4, <3>5, LooserShape
      <3>7. QED
        BY <1>5, <3>6
    <2>4. QED
      BY <2>2, <2>3
  <1>6. CASE l \in {"sum", "prod"}
    <2>1. Joined(e, Terms(e), l, lo, hi) # {}
      BY <1>1, <1>2, <1>6, NodeTerms
    <2>2. /\ Node(Tighter(l), lo, hi) \in Smaller(e, x)
          /\ \A k \in lo + 1 .. hi - 1 : /\ Node(l, lo, k - 1) \in Smaller(e, x)
                                         /\ Node(Tighter(l), k + 1, hi) \in Smaller(e, x)
      BY <1>1, <1>2, <1>6, NodesBelow
    <2>3. CASE Of(e, Tighter(l), lo, hi) # {}
      <3>1. Shape(e, Tighter(l), lo, hi)
        BY <1>3, <2>2, <2>3
      <3>2. Tighter(l) \in Levels /\ Looseness(Tighter(l)) <= Looseness(l)
        BY <1>6 DEF Tighter, Levels, Looseness
      <3>3. lo \in Nat /\ hi \in Nat
        BY <1>1, <1>2
      <3>4. QED
        BY <1>1, <3>1, <3>2, <3>3, LooserShape
    <2>4. CASE Of(e, Tighter(l), lo, hi) = {}
      <3>1. PICK k \in Splits(e, l, lo, hi) : JoinedAt(e, Terms(e), l, lo, k, hi) # {}
        BY <2>1, <2>4 DEF Joined, Of
      <3>2. k \in lo + 1 .. hi - 1 /\ e[k] \in Joins(l)
        BY <3>1 DEF Splits
      <3>3. Of(e, l, lo, k - 1) # {} /\ Of(e, Tighter(l), k + 1, hi) # {}
        BY <3>1 DEF JoinedAt, Of
      <3>4. Shape(e, l, lo, k - 1) /\ Shape(e, Tighter(l), k + 1, hi)
        BY <1>3, <2>2, <3>2, <3>3
      <3>5. lo \in Nat /\ hi \in Nat /\ lo > 0
        BY <1>1, <1>2
      <3>6. QED
        BY <1>6, <3>2, <3>4, <3>5, JoinShape
    <2>5. QED
      BY <2>3, <2>4
  <1>7. QED
    BY <1>1, <1>4, <1>5, <1>6 DEF Levels

\* What has a term is shaped.
LEMMA HasShape ==
    ASSUME NEW e, Len(e) \in Nat, NEW level \in Levels,
           NEW lo \in 1 .. Len(e), NEW hi \in 0 .. Len(e), Of(e, level, lo, hi) # {}
    PROVE  Shape(e, level, lo, hi)
  <1>1. Nodes(e) \subseteq Shaped(e)
    <2> DEFINE P == Shaped(e)
    <2>1. \A x \in Nodes(e) : Smaller(e, x) \subseteq P => x \in P
      BY ShapedStep
    <2> HIDE DEF P
    <2>2. Nodes(e) \subseteq P
      BY <2>1, NodeInduction
    <2>3. QED
      BY <2>2 DEF P
  <1>2. Node(level, lo, hi) \in Nodes(e)
    BY DEF Node, Nodes
  <1>3. Node(level, lo, hi) \in Shaped(e)
    BY <1>1, <1>2
  <1>4. QED
    BY <1>3 DEF Shaped, Of, Node

-----------------------------------------------------------------------------
(* The grammar is unambiguous.                                             *)

\* A node splits at one operator at most, and not at all if it is tighter.
LEMMA OneSplit ==
    ASSUME NEW e, NEW lo \in Nat, NEW hi \in Nat, lo > 0,
           NEW level \in {"sum", "prod"}, NEW k \in lo + 1 .. hi - 1,
           e[k] \in Joins(level),
           Shape(e, level, lo, k - 1), Shape(e, Tighter(level), k + 1, hi)
    PROVE  /\ ~ Shape(e, Tighter(level), lo, hi)
           /\ \A j \in lo + 1 .. hi - 1 :
                e[j] \in Joins(level) /\ Shape(e, level, lo, j - 1) => j <= k
  <1>1. Joins(level) \subseteq Excluded(Tighter(level))
    BY DEF Joins, Excluded, Tighter
  <1>2. e[k - 1] \in Ends /\ Depth(e, k) = Depth(e, lo - 1)
    BY JoinShape
  <1>3. (\A j \in Nat : Depth(e, j) \in Int)
    BY DepthStep
  <1>4. ~ Shape(e, Tighter(level), lo, hi)
    BY <1>1, <1>2, <1>3 DEF Shape, Inner
  <1>5. ASSUME NEW j \in lo + 1 .. hi - 1, e[j] \in Joins(level), Shape(e, level, lo, j - 1),
               j > k
        PROVE  FALSE
    <2>1. e[j - 1] \in Ends /\ Depth(e, j - 1) = Depth(e, lo - 1)
      BY <1>5 DEF Shape, Ranged
    <2>2. Depth(e, j) = Depth(e, j - 1)
      BY <1>5, DepthStep DEF Joins
    <2>3. j # k + 1
      BY <2>1 DEF Joins, Ends
    <2>4. Depth(e, j) > Depth(e, k)
      <3>1. \A i \in k + 2 .. hi : e[i - 1] \in Ends /\ e[i] \in Excluded(Tighter(level))
                                    => Depth(e, i) > Depth(e, k)
        BY DEF Shape, Inner
      <3>2. QED
        BY <1>1, <1>5, <2>1, <2>3, <3>1
    <2>5. lo - 1 \in Nat
      OBVIOUS
    <2>6. QED
      BY <1>2, <1>3, <2>1, <2>2, <2>4, <2>5
  <1>6. QED
    BY <1>4, <1>5

Single(e) == {x \in Nodes(e) : \A s, t \in Terms(e)[x] : s = t}

\* Two terms of a node are one, if those of the nodes below it are.
LEMMA SingleStep ==
    ASSUME NEW e, Len(e) \in Nat, NEW x \in Nodes(e), Smaller(e, x) \subseteq Single(e)
    PROVE  x \in Single(e)
  <1> DEFINE lo == x.lo
             hi == x.hi
             l == x.level
  <1>1. /\ l \in Levels /\ lo \in 1 .. Len(e) /\ hi \in 0 .. Len(e)
        /\ x = Node(l, lo, hi) /\ Terms(e)[x] = Of(e, l, lo, hi)
    BY DEF Nodes, Node, Of
  <1> SUFFICES ASSUME NEW s \in Of(e, l, lo, hi), NEW t \in Of(e, l, lo, hi) PROVE s = t
    BY <1>1 DEF Single
  <1> HIDE DEF lo, hi, l
  <1>2. lo <= hi /\ hi \in 1 .. Len(e)
    BY <1>1, NoTerms
  <1>3. ASSUME NEW level, NEW a, NEW b, Node(level, a, b) \in Smaller(e, x),
               NEW u \in Of(e, level, a, b), NEW v \in Of(e, level, a, b)
        PROVE  u = v
    BY <1>3 DEF Single, Of
  <1>4. CASE l = "atom"
    <2>1. Of(e, l, lo, hi) = Atoms(e, Terms(e), lo, hi)
      BY <1>1, <1>2, <1>4, NodeTerms
    <2>2. CASE lo = hi
      BY <2>1, <2>2 DEF Atoms
    <2>3. CASE lo # hi
      <3>1. lo < hi
        BY <1>1, <1>2, <2>3
      <3>2. s \in Of(e, "sum", lo + 1, hi - 1) /\ t \in Of(e, "sum", lo + 1, hi - 1)
        BY <2>1, <2>3 DEF Atoms, Of
      <3>3. Node("sum", lo + 1, hi - 1) \in Smaller(e, x)
        BY <1>1, <1>2, <1>4, <3>1, NodesBelow
      <3>4. QED
        BY <1>3, <3>2, <3>3
    <2>4. QED
      BY <2>2, <2>3
  <1>5. CASE l = "sign"
    <2>1. Of(e, l, lo, hi) = Signs(e, Terms(e), lo, hi)
      BY <1>1, <1>2, <1>5, NodeTerms
    <2>2. CASE e[lo] = "-" /\ lo < hi
      <3>1. PICK u \in Of(e, "sign", lo + 1, hi) : s = <<"neg", u>>
        BY <2>1, <2>2 DEF Signs, Of
      <3>2. PICK v \in Of(e, "sign", lo + 1, hi) : t = <<"neg", v>>
        BY <2>1, <2>2 DEF Signs, Of
      <3>3. Node("sign", lo + 1, hi) \in Smaller(e, x)
        BY <1>1, <1>2, <1>5, <2>2, NodesBelow
      <3>4. u = v
        BY <1>3, <3>3
      <3>5. QED
        BY <3>1, <3>2, <3>4
    <2>3. CASE ~ (e[lo] = "-" /\ lo < hi)
      <3>1. s \in Of(e, "atom", lo, hi) /\ t \in Of(e, "atom", lo, hi)
        BY <2>1, <2>3 DEF Signs, Of
      <3>2. Node("atom", lo, hi) \in Smaller(e, x)
        BY <1>1, <1>2, <1>5, NodesBelow
      <3>3. QED
        BY <1>3, <3>1, <3>2
    <2>4. QED
      BY <2>2, <2>3
  <1>6. CASE l \in {"sum", "prod"}
    <2>1. Of(e, l, lo, hi) = Joined(e, Terms(e), l, lo, hi)
      BY <1>1, <1>2, <1>6, NodeTerms
    <2>2. /\ Node(Tighter(l), lo, hi) \in Smaller(e, x)
          /\ \A k \in lo + 1 .. hi - 1 : /\ Node(l, lo, k - 1) \in Smaller(e, x)
                                         /\ Node(Tighter(l), k + 1, hi) \in Smaller(e, x)
      BY <1>1, <1>2, <1>6, NodesBelow
    <2> DEFINE At(k, u) == /\ k \in lo + 1 .. hi - 1 /\ e[k] \in Joins(l)
                           /\ \E a \in Of(e, l, lo, k - 1), b \in Of(e, Tighter(l), k + 1, hi) :
                                u = <<e[k], a, b>>
    <2>3. ASSUME NEW u \in Of(e, l, lo, hi), u \notin Of(e, Tighter(l), lo, hi)
          PROVE  \E k : At(k, u)
      <3>1. PICK k \in Splits(e, l, lo, hi) : u \in JoinedAt(e, Terms(e), l, lo, k, hi)
        BY <2>1, <2>3 DEF Joined, Of
      <3>2. At(k, u)
        BY <3>1 DEF Splits, JoinedAt, Of
      <3>3. QED
        BY <3>2
    <2>4. ASSUME NEW u, NEW k, At(k, u)
          PROVE  /\ k \in lo + 1 .. hi - 1 /\ e[k] \in Joins(l)
                 /\ Shape(e, l, lo, k - 1) /\ Shape(e, Tighter(l), k + 1, hi)
      <3>1. k \in lo + 1 .. hi - 1 /\ Of(e, l, lo, k - 1) # {} /\ Of(e, Tighter(l), k + 1, hi) # {}
        BY <2>4
      <3>2. k - 1 \in 0 .. Len(e) /\ k + 1 \in 1 .. Len(e) /\ hi \in 0 .. Len(e)
        BY <1>1, <1>2, <3>1
      <3>3. Tighter(l) \in Levels
        BY <1>6 DEF Tighter, Levels
      <3>4. QED
        BY <1>1, <2>4, <3>1, <3>2, <3>3, HasShape
    <2>5. lo \in Nat /\ hi \in Nat /\ lo > 0
      BY <1>1, <1>2
    <2>6. ASSUME NEW u, NEW v, NEW k, NEW j, At(k, u), At(j, v) PROVE u = v
      <3>1. k <= j /\ j <= k
        <4> HIDE DEF At
        <4>1. QED
          BY <1>6, <2>4, <2>5, <2>6, OneSplit
      <3>2. k = j
        BY <2>6, <3>1
      <3>3. PICK a \in Of(e, l, lo, k - 1), b \in Of(e, Tighter(l), k + 1, hi) : u = <<e[k], a, b>>
        BY <2>6
      <3>4. PICK c \in Of(e, l, lo, k - 1), d \in Of(e, Tighter(l), k + 1, hi) : v = <<e[k], c, d>>
        BY <2>6, <3>2
      <3>5. a = c /\ b = d
        BY <1>3, <2>2, <2>6
      <3>6. QED
        BY <3>3, <3>4, <3>5
    <2>7. ASSUME NEW u, NEW k, At(k, u) PROVE Of(e, Tighter(l), lo, hi) = {}
      <3>1. Tighter(l) \in Levels
        BY <1>6 DEF Tighter, Levels
      <3>2. ~ Shape(e, Tighter(l), lo, hi)
        <4> HIDE DEF At
        <4>1. QED
          BY <1>6, <2>4, <2>5, <2>7, OneSplit
      <3>3. QED
        BY <1>1, <3>1, <3>2, HasShape
    <2> HIDE DEF At
    <2>8. CASE Of(e, Tighter(l), lo, hi) = {}
      BY <2>3, <2>6, <2>8
    <2>9. CASE Of(e, Tighter(l), lo, hi) # {}
      <3>1. s \in Of(e, Tighter(l), lo, hi) /\ t \in Of(e, Tighter(l), lo, hi)
        BY <2>3, <2>7, <2>9
      <3>2. QED
        BY <1>3, <2>2, <3>1
    <2>10. QED
      BY <2>8, <2>9
  <1>7. QED
    BY <1>1, <1>4, <1>5, <1>6 DEF Levels

\* An expression has one meaning at most: which operator getPrecedence lets
\* bind first is settled by the tokens alone.
THEOREM GrammarUnambiguous ==
    ASSUME NEW e \in Seq(Tokens), NEW s \in Meanings(e), NEW t \in Meanings(e)
    PROVE  s = t
  <1>0. Len(e) \in Nat /\ Len(e) > 0
    BY EmptySeq, LenProperties DEF Meanings
  <1>1. Nodes(e) \subseteq Single(e)
    <2> DEFINE P == Single(e)
    <2>1. \A x \in Nodes(e) : Smaller(e, x) \subseteq P => x \in P
      BY <1>0, SingleStep
    <2> HIDE DEF P
    <2>2. Nodes(e) \subseteq P
      BY <1>0, <2>1, NodeInduction
    <2>3. QED
      BY <2>2 DEF P
  <1>2. Meanings(e) = Terms(e)[Node("sum", 1, Len(e))]
    BY <1>0, EmptySeq DEF Meanings
  <1>3. Node("sum", 1, Len(e)) \in Nodes(e)
    BY <1>0 DEF Node, Nodes, Levels
  <1>4. QED
    BY <1>1, <1>2, <1>3 DEF Single

-----------------------------------------------------------------------------
(* Terms from terms.                                                       *)

\* An operand is a term.
LEMMA OperandTerm ==
    ASSUME NEW e, Len(e) \in Nat, NEW k \in 1 .. Len(e), e[k] = "x"
    PROVE  <<"operand", k>> \in Of(e, "atom", k, k)
  BY NodeTerms DEF Atoms

\* A sum in parentheses is an atom.
LEMMA ParenTerm ==
    ASSUME NEW e, Len(e) \in Nat, NEW lo \in 1 .. Len(e), NEW hi \in 1 .. Len(e), lo < hi,
           e[lo] = "(", e[hi] = ")", NEW t \in Of(e, "sum", lo + 1, hi - 1)
    PROVE  t \in Of(e, "atom", lo, hi)
  <1>1. Of(e, "atom", lo, hi) = Atoms(e, Terms(e), lo, hi)
    BY NodeTerms
  <1>2. QED
    BY <1>1 DEF Atoms, Of

\* A signed term is a sign.
LEMMA SignTerm ==
    ASSUME NEW e, Len(e) \in Nat, NEW lo \in 1 .. Len(e), NEW hi \in 1 .. Len(e), lo < hi,
           e[lo] = "-", NEW t \in Of(e, "sign", lo + 1, hi)
    PROVE  <<"neg", t>> \in Of(e, "sign", lo, hi)
  <1>1. Of(e, "sign", lo, hi) = Signs(e, Terms(e), lo, hi)
    BY NodeTerms
  <1>2. QED
    BY <1>1 DEF Signs, Of

\* Two terms are joined by an operator of their level.
LEMMA JoinTerm ==
    ASSUME NEW e, Len(e) \in Nat, NEW lo \in 1 .. Len(e), NEW hi \in 1 .. Len(e),
           NEW level \in {"sum", "prod"}, NEW k \in lo + 1 .. hi - 1, e[k] \in Joins(level),
           NEW a \in Of(e, level, lo, k - 1), NEW b \in Of(e, Tighter(level), k + 1, hi)
    PROVE  <<e[k], a, b>> \in Of(e, level, lo, hi)
  <1>1. Of(e, level, lo, hi) = Joined(e, Terms(e), level, lo, hi)
    BY NodeTerms
  <1>2. k \in Splits(e, level, lo, hi)
    BY DEF Splits
  <1>3. <<e[k], a, b>> \in JoinedAt(e, Terms(e), level, lo, k, hi)
    BY DEF JoinedAt, Of
  <1>4. QED
    BY <1>1, <1>2, <1>3 DEF Joined

\* A term of a level is one of every looser level.
LEMMA LooserTerm ==
    ASSUME NEW e, Len(e) \in Nat, NEW lo \in 1 .. Len(e), NEW hi \in 1 .. Len(e), lo <= hi,
           NEW a \in Levels, NEW b \in Levels, Looseness(a) <= Looseness(b),
           NEW t \in Of(e, a, lo, hi)
    PROVE  t \in Of(e, b, lo, hi)
  <1>1. Of(e, "atom", lo, hi) \subseteq Of(e, "sign", lo, hi)
    <2>1. /\ Of(e, "atom", lo, hi) = Atoms(e, Terms(e), lo, hi)
          /\ Of(e, "sign", lo, hi) = Signs(e, Terms(e), lo, hi)
      BY NodeTerms
    <2>2. CASE e[lo] = "-" /\ lo < hi
      BY <2>1, <2>2 DEF Atoms
    <2>3. CASE ~ (e[lo] = "-" /\ lo < hi)
      BY <2>1, <2>3 DEF Signs, Of
    <2>4. QED
      BY <2>2, <2>3
  <1>2. /\ Of(e, "sign", lo, hi) \subseteq Of(e, "prod", lo, hi)
        /\ Of(e, "prod", lo, hi) \subseteq Of(e, "sum", lo, hi)
    BY NodeTerms DEF Joined, Tighter, Of
  <1>3. QED
    BY <1>1, <1>2 DEF Levels, Looseness

-----------------------------------------------------------------------------
(* Evaluating a postfix queue.                                             *)

AllTerms(e) == UNION {Terms(e)[x] : x \in Nodes(e)}

\* Terms of a node are terms.
LEMMA TermTyped ==
    ASSUME NEW e, NEW level \in Levels, NEW lo \in 1 .. Len(e), NEW hi \in 0 .. Len(e)
    PROVE  Of(e, level, lo, hi) \subseteq AllTerms(e)
  <1>1. Node(level, lo, hi) \in Nodes(e)
    BY DEF Node, Nodes
  <1>2. QED
    BY <1>1 DEF AllTerms, Of

\* What evaluateRPN does to its stack with an item, and what it needs there.
Needs(sym) == IF sym = "x" THEN 0 ELSE Arity(sym)

Computed(s, item) ==
    IF item.sym = "x" THEN <<"operand", item.at>>
    ELSE IF item.sym = "u-" THEN <<"neg", Top(s)>>
    ELSE Binary(item.sym, s[Len(s) - 1], Top(s))

Reduced(s, item) == Append(SubSeq(s, 1, Len(s) - Needs(item.sym)), Computed(s, item))

Evaluable == {"x", "u-"} \cup Operators

\* h holds the stacks of the evaluation of q, from the first to the last.
Run(e, q, h) ==
    /\ h[0] = <<>>
    /\ \A i \in 0 .. Len(q) : h[i] \in Seq(AllTerms(e))
    /\ \A i \in 1 .. Len(q) : /\ q[i].sym \in Evaluable
                              /\ Len(h[i - 1]) >= Needs(q[i].sym)
                              /\ h[i] = Reduced(h[i - 1], q[i])

Computes(e, q, T) == \E h : Run(e, q, h) /\ h[Len(q)] = T

\* The stack of evaluateRPN holds terms.
LEMMA ComputesTyped ==
    ASSUME NEW e, NEW q, Len(q) \in Nat, NEW T, Computes(e, q, T)
    PROVE  T \in Seq(AllTerms(e))
  BY DEF Computes, Run

\* Nothing is computed by the empty queue.
LEMMA ComputesNothing ==
    ASSUME NEW e
    PROVE  Computes(e, <<>>, <<>>)
  <1> DEFINE h == [i \in {0} |-> <<>>]
  <1>1. <<>> \in Seq(AllTerms(e)) /\ Len(<<>>) = 0
    BY EmptySeq
  <1>2. Run(e, <<>>, h) /\ h[Len(<<>>)] = <<>>
    BY <1>1 DEF Run
  <1> HIDE DEF h
  <1>3. QED
    BY <1>2 DEF Computes

\* The queue is evaluated as it grows.
LEMMA ComputesMore ==
    ASSUME NEW e, NEW q \in Seq(Items), NEW T, Computes(e, q, T),
           NEW item \in Items, item.sym \in Evaluable, Len(T) >= Needs(item.sym),
           Reduced(T, item) \in Seq(AllTerms(e))
    PROVE  Computes(e, Append(q, item), Reduced(T, item))
  <1> DEFINE n == Len(q)
             r == Append(q, item)
  <1>1. PICK h : Run(e, q, h) /\ h[n] = T
    BY DEF Computes
  <1>2. /\ n \in Nat /\ Len(r) = n + 1 /\ r[n + 1] = item
        /\ \A i \in 1 .. n : r[i] = q[i]
    BY LenProperties, AppendProperties
  <1> DEFINE g == [i \in 0 .. n + 1 |-> IF i <= n THEN h[i] ELSE Reduced(T, item)]
  <1>3. /\ g[n + 1] = Reduced(T, item)
        /\ \A i \in 0 .. n : g[i] = h[i]
    BY <1>2
  <1> HIDE DEF g, r
  <1>4. g[0] = <<>>
    BY <1>1, <1>2, <1>3 DEF Run
  <1>5. \A i \in 0 .. n + 1 : g[i] \in Seq(AllTerms(e))
    <2>1. \A i \in 0 .. n + 1 : i = n + 1 \/ i \in 0 .. n
      BY <1>2
    <2>2. QED
      BY <1>1, <1>3, <2>1 DEF Run
  <1>6. ASSUME NEW i \in 1 .. n + 1
        PROVE  /\ r[i].sym \in Evaluable /\ Len(g[i - 1]) >= Needs(r[i].sym)
               /\ g[i] = Reduced(g[i - 1], r[i])
    <2>1. CASE i = n + 1
      <3>1. g[i - 1] = T
        BY <1>1, <1>2, <1>3, <2>1
      <3>2. QED
        BY <1>2, <1>3, <2>1, <3>1
    <2>2. CASE i # n + 1
      <3>1. i \in 1 .. n /\ i - 1 \in 0 .. n /\ i \in 0 .. n
        BY <1>2, <2>2
      <3>2. r[i] = q[i] /\ g[i] = h[i] /\ g[i - 1] = h[i - 1]
        BY <1>2, <1>3, <3>1
      <3>3. QED
        BY <1>1, <3>1, <3>2 DEF Run
    <2>3. QED
      BY <2>1, <2>2
  <1>7. Run(e, r, g)
    BY <1>2, <1>4, <1>5, <1>6 DEF Run
  <1>8. QED
    BY <1>2, <1>3, <1>7 DEF Computes, r

\* An item replaces the terms it needs by one.
LEMMA ReducedStack ==
    ASSUME NEW U, NEW T \in Seq(U), NEW item, Needs(item.sym) \in 0 .. Len(T),
           Computed(T, item) \in U
    PROVE  /\ Reduced(T, item) \in Seq(U)
           /\ Len(Reduced(T, item)) = Len(T) - Needs(item.sym) + 1
           /\ \A i \in 1 .. Len(T) - Needs(item.sym) : Reduced(T, item)[i] = T[i]
           /\ Top(Reduced(T, item)) = Computed(T, item)
  <1> DEFINE n == Len(T) - Needs(item.sym)
             low == SubSeq(T, 1, n)
  <1>1. Len(T) \in Nat /\ n \in Nat /\ n <= Len(T)
    BY LenProperties
  <1> HIDE DEF n
  <1>2. /\ low \in Seq(U) /\ Len(low) = n
        /\ \A i \in 1 .. n : low[i] = T[i]
    <2>1. \A i \in 1 .. n : T[i] \in U
      BY <1>1, ElementOfSeq
    <2>2. QED
      BY <1>1, <2>1, SubSeqProperties
  <1>3. Reduced(T, item) = Append(low, Computed(T, item))
    BY DEF Reduced, n
  <1> HIDE DEF low
  <1>4. QED
    BY <1>1, <1>2, <1>3, AppendProperties DEF Top, n

-----------------------------------------------------------------------------
(* The stack of the yard, between the terms computed so far.               *)

Prefixes == {"(", "u-"}
Token(sym) == IF sym = "u-" THEN "-" ELSE sym

\* The level of the term an operator makes, and of its right operand.
Made(sym) == IF sym \in {"+", "-"} THEN "sum"
             ELSE IF sym \in {"*", "/"} THEN "prod" ELSE "sign"
After(sym) == IF sym = "(" THEN "sum" ELSE IF sym \in {"+", "-"} THEN "prod" ELSE "sign"
Room(s) == IF s = <<>> THEN "sum" ELSE After(Top(s).sym)

\* The place of an item of the stack; 0 is below the first.
At(s, j) == IF j = 0 THEN 0 ELSE s[j].at

\* b[j] of the terms are below item j.  A "(" or a sign stands next to the
\* item below it, a binary operator right of a term of its own.
PrefixAt(e, s, b, j) ==
    /\ b[j] = b[j - 1] /\ At(s, j) = At(s, j - 1) + 1
    /\ e[At(s, j)] = Token(s[j].sym)

BinaryAt(e, s, T, b, j) ==
    /\ s[j].sym \in Operators
    /\ b[j] = b[j - 1] + 1 /\ e[At(s, j)] = s[j].sym
    /\ T[b[j]] \in Of(e, Made(s[j].sym), At(s, j - 1) + 1, At(s, j) - 1)

\* What binds at least as tightly has left the stack.
Ordered(s, j) ==
    \/ j = 1 \/ s[j - 1].sym = "(" \/ s[j].sym \in Prefixes
    \/ getPrecedence(s[j - 1].sym) < getPrecedence(s[j].sym)

Frame(e, s, T, b, j) ==
    /\ IF s[j].sym \in Prefixes THEN PrefixAt(e, s, b, j) ELSE BinaryAt(e, s, T, b, j)
    /\ Ordered(s, j)
    /\ At(s, j) \in 1 .. Len(e) /\ At(s, j - 1) < At(s, j)

Frames(e, s, T, b) ==
    /\ b[0] = 0
    /\ \A j \in 0 .. Len(s) : b[j] \in Nat
    /\ \A i, j \in 0 .. Len(s) : i <= j => b[i] <= b[j]
    /\ \A j \in 1 .. Len(s) : Frame(e, s, T, b, j)

\* Up to token k, an operand is to come ...
Expecting(e, s, q, k) ==
    \E T, b : /\ Computes(e, q, T) /\ Frames(e, s, T, b)
              /\ Len(T) = b[Len(s)] /\ At(s, Len(s)) = k

\* ... or one has been read, of a level.
Holding(e, s, q, k, level) ==
    \E T, b : /\ Computes(e, q, T) /\ Frames(e, s, T, b)
              /\ Len(T) = b[Len(s)] + 1 /\ At(s, Len(s)) < k
              /\ Top(T) \in Of(e, level, At(s, Len(s)) + 1, k)

-----------------------------------------------------------------------------
(* Frames.                                                                 *)

\* Places on the stack are numbers.
LEMMA AtNat ==
    ASSUME NEW s \in Seq(Items)
    PROVE  \A j \in 0 .. Len(s) : At(s, j) \in Nat
  <1>1. \A j \in 1 .. Len(s) : s[j] \in Items
    BY ElementOfSeq
  <1>2. QED
    BY <1>1 DEF At, Items

\* Frames look at the terms below their own only.
LEMMA FramesSame ==
    ASSUME NEW e, NEW s, Len(s) \in Nat, NEW T, NEW b, NEW U, Frames(e, s, T, b),
           \A i \in 1 .. b[Len(s)] : U[i] = T[i]
    PROVE  Frames(e, s, U, b)
  <1>1. ASSUME NEW j \in 1 .. Len(s) PROVE Frame(e, s, U, b, j)
    <2>1. /\ Frame(e, s, T, b, j) /\ b[j] \in Nat /\ b[j - 1] \in Nat
          /\ b[Len(s)] \in Nat /\ b[j] <= b[Len(s)]
      BY DEF Frames
    <2>2. CASE s[j].sym \in Prefixes
      BY <2>1, <2>2 DEF Frame
    <2>3. CASE s[j].sym \notin Prefixes
      <3>1. BinaryAt(e, s, T, b, j)
        BY <2>1, <2>3 DEF Frame
      <3>2. b[j] \in 1 .. b[Len(s)]
        BY <2>1, <3>1 DEF BinaryAt
      <3>3. BinaryAt(e, s, U, b, j)
        BY <3>1, <3>2 DEF BinaryAt
      <3>4. QED
        BY <2>1, <2>3, <3>3 DEF Frame
    <2>4. QED
      BY <2>2, <2>3
  <1>2. QED
    BY <1>1 DEF Frames

\* A stack is its top on the rest.
LEMMA RestOfStack ==
    ASSUME NEW s \in Seq(Items), s # <<>>
    PROVE  /\ Len(s) \in Nat /\ Len(s) > 0
           /\ Rest(s) \in Seq(Items) /\ Len(Rest(s)) = Len(s) - 1
           /\ \A j \in 1 .. Len(s) - 1 : Rest(s)[j] = s[j]
           /\ Top(s) \in Items /\ Top(s) = s[Len(s)]
  <1>1. Len(s) \in Nat /\ Len(s) > 0 /\ \A i \in 1 .. Len(s) : s[i] \in Items
    BY EmptySeq, LenProperties, ElementOfSeq
  <1> DEFINE n == Len(s) - 1
  <1>2. n \in Int /\ n >= 0 /\ \A i \in 1 .. n : s[i] \in Items
    BY <1>1
  <1> HIDE DEF n
  <1>3. /\ SubSeq(s, 1, n) \in Seq(Items) /\ Len(SubSeq(s, 1, n)) = n
        /\ \A j \in 1 .. n : SubSeq(s, 1, n)[j] = s[j]
    BY <1>2, SubSeqProperties
  <1>4. QED
    BY <1>1, <1>3 DEF Rest, Top, n

\* The frames below the top.
LEMMA FramesRest ==
    ASSUME NEW e, NEW s \in Seq(Items), s # <<>>, NEW T, NEW b, Frames(e, s, T, b)
    PROVE  /\ Rest(s) \in Seq(Items) /\ Len(Rest(s)) = Len(s) - 1
           /\ Len(s) \in Nat /\ Len(s) > 0
           /\ \A j \in 1 .. Len(s) - 1 : Rest(s)[j] = s[j]
           /\ \A j \in 0 .. Len(s) - 1 : At(Rest(s), j) = At(s, j)
           /\ Frames(e, Rest(s), T, b)
  <1> DEFINE r == Rest(s)
  <1>1. Len(s) \in Nat /\ Len(s) > 0
    BY RestOfStack
  <1>2. /\ r \in Seq(Items) /\ Len(r) = Len(s) - 1
        /\ \A j \in 1 .. Len(s) - 1 : r[j] = s[j]
    BY RestOfStack
  <1> HIDE DEF r
  <1>3. \A j \in 0 .. Len(s) - 1 : At(r, j) = At(s, j)
    BY <1>1, <1>2 DEF At
  <1>4. ASSUME NEW j \in 1 .. Len(s) - 1 PROVE Frame(e, r, T, b, j)
    <2>1. Frame(e, s, T, b, j)
      BY <1>1 DEF Frames
    <2>2. r[j] = s[j] /\ At(r, j) = At(s, j) /\ At(r, j - 1) = At(s, j - 1)
      BY <1>1, <1>2, <1>3
    <2>3. Ordered(s, j) => Ordered(r, j)
      <3>1. j = 1 \/ r[j - 1] = s[j - 1]
        BY <1>1, <1>2
      <3>2. QED
        BY <2>2, <3>1 DEF Ordered
    <2>4. QED
      BY <2>1, <2>2, <2>3 DEF Frame, PrefixAt, BinaryAt
  <1>5. Frames(e, r, T, b)
    BY <1>1, <1>2, <1>4 DEF Frames
  <1>6. QED
    BY <1>1, <1>2, <1>3, <1>5 DEF r

\* An item that may be put on the stack, d terms below it.
Fits(e, s, T, b, item, d) ==
    IF item.sym \in Prefixes
    THEN d = b[Len(s)] /\ item.at = At(s, Len(s)) + 1 /\ e[item.at] = Token(item.sym)
    ELSE /\ item.sym \in Operators
         /\ d = b[Len(s)] + 1 /\ e[item.at] = item.sym
         /\ T[d] \in Of(e, Made(item.sym), At(s, Len(s)) + 1, item.at - 1)
         /\ \/ s = <<>> \/ Top(s).sym = "("
            \/ getPrecedence(Top(s).sym) < getPrecedence(item.sym)

\* A frame more.
LEMMA FramesMore ==
    ASSUME NEW e, NEW s \in Seq(Items), NEW T, NEW b, NEW item \in Items,
           Frames(e, s, T, b), NEW d \in Nat, d >= b[Len(s)],
           item.at \in 1 .. Len(e), At(s, Len(s)) < item.at,
           Fits(e, s, T, b, item, d)
    PROVE  \E c : /\ Frames(e, Append(s, item), T, c)
                  /\ c[Len(s) + 1] = d
                  /\ Append(s, item) \in Seq(Items)
                  /\ Len(Append(s, item)) = Len(s) + 1
                  /\ At(Append(s, item), Len(s) + 1) = item.at
  <1> DEFINE n == Len(s)
             r == Append(s, item)
             c == [j \in 0 .. n + 1 |-> IF j <= n THEN b[j] ELSE d]
  <1>1. /\ n \in Nat /\ r \in Seq(Items) /\ Len(r) = n + 1 /\ r[n + 1] = item
        /\ \A j \in 1 .. n : r[j] = s[j]
    BY LenProperties, AppendProperties
  <1>2. /\ c[n + 1] = d
        /\ \A j \in 0 .. n : c[j] = b[j]
    BY <1>1
  <1> HIDE DEF r, c
  <1>3. /\ At(r, n + 1) = item.at
        /\ \A j \in 0 .. n : At(r, j) = At(s, j)
    BY <1>1 DEF At
  <1>4. ASSUME NEW j \in 1 .. n PROVE Frame(e, r, T, c, j)
    <2>1. Frame(e, s, T, b, j)
      BY DEF Frames
    <2>2. /\ r[j] = s[j] /\ At(r, j) = At(s, j) /\ At(r, j - 1) = At(s, j - 1)
          /\ c[j] = b[j] /\ c[j - 1] = b[j - 1]
      BY <1>1, <1>2, <1>3
    <2>3. Ordered(s, j) => Ordered(r, j)
      <3>1. j = 1 \/ r[j - 1] = s[j - 1]
        BY <1>1
      <3>2. QED
        BY <2>2, <3>1 DEF Ordered
    <2>4. QED
      BY <2>1, <2>2, <2>3 DEF Frame, PrefixAt, BinaryAt
  <1>5. Frame(e, r, T, c, n + 1)
    <2>1. (n + 1) - 1 = n /\ c[n] = b[n] /\ At(r, n) = At(s, n)
      BY <1>1, <1>2, <1>3
    <2>2. Ordered(r, n + 1)
      <3>1. CASE item.sym \in Prefixes
        BY <1>1, <3>1 DEF Ordered
      <3>2. CASE s = <<>>
        <4>1. n = 0
          BY <3>2, EmptySeq
        <4>2. QED
          BY <4>1 DEF Ordered
      <3>3. CASE s # <<>> /\ item.sym \notin Prefixes
        <4>1. n # 0
          BY <3>3, EmptySeq
        <4>2. r[n] = Top(s)
          BY <1>1, <4>1 DEF Top
        <4>3. QED
          BY <1>1, <2>1, <3>3, <4>2 DEF Ordered, Fits
      <3>4. QED
        BY <3>1, <3>2, <3>3
    <2>3. CASE item.sym \in Prefixes
      BY <1>1, <1>2, <1>3, <2>1, <2>2, <2>3 DEF Frame, PrefixAt, Fits
    <2>4. CASE item.sym \notin Prefixes
      BY <1>1, <1>2, <1>3, <2>1, <2>2, <2>4 DEF Frame, BinaryAt, Fits
    <2>5. QED
      BY <2>3, <2>4
  <1>6. \A j \in 1 .. n + 1 : Frame(e, r, T, c, j)
    <2>1. \A j \in 1 .. n + 1 : j \in 1 .. n \/ j = n + 1
      BY <1>1
    <2>2. QED
      BY <1>4, <1>5, <2>1
  <1>7. /\ c[0] = 0
        /\ \A j \in 0 .. n + 1 : c[j] \in Nat
        /\ \A i, j \in 0 .. n + 1 : i <= j => c[i] <= c[j]
    <2>1. \A j \in 0 .. n + 1 : j \in 0 .. n \/ j = n + 1
      BY <1>1
    <2>2. /\ b[0] = 0 /\ \A j \in 0 .. n : b[j] \in Nat
          /\ \A i, j \in 0 .. n : i <= j => b[i] <= b[j]
      BY DEF Frames
    <2>3. \A i \in 0 .. n : b[i] <= d
      BY <1>1, <2>2
    <2>4. QED
      BY <1>1, <1>2, <2>1, <2>2, <2>3
  <1>8. Frames(e, r, T, c)
    BY <1>1, <1>6, <1>7 DEF Frames
  <1>9. QED
    BY <1>1, <1>2, <1>3, <1>8 DEF r

-----------------------------------------------------------------------------
(* What the yard does to its stack and its queue.                          *)

\* An operand is read.
LEMMA ReadOperand ==
    ASSUME NEW e, Len(e) \in Nat, NEW s \in Seq(Items), NEW q \in Seq(Items),
           NEW k \in 1 .. Len(e), Expecting(e, s, q, k - 1), e[k] = "x"
    PROVE  Holding(e, s, Append(q, [sym |-> "x", at |-> k]), k, "atom")
  <1> DEFINE item == [sym |-> "x", at |-> k]
             n == Len(s)
  <1>1. PICK T, b : /\ Computes(e, q, T) /\ Frames(e, s, T, b)
                    /\ Len(T) = b[n] /\ At(s, n) = k - 1
    BY DEF Expecting
  <1> DEFINE R == Reduced(T, item)
  <1>2. item \in Items /\ item.sym = "x" /\ item.at = k /\ item.sym \in Evaluable
        /\ Needs(item.sym) = 0 /\ Computed(T, item) = <<"operand", k>>
    BY DEF Items, Symbols, Tokens, Evaluable, Needs, Computed
  <1>3. n \in Nat /\ Len(q) \in Nat
    BY LenProperties
  <1>4. T \in Seq(AllTerms(e)) /\ Len(T) \in Nat
    BY <1>1, <1>3, ComputesTyped, LenProperties
  <1>5. <<"operand", k>> \in Of(e, "atom", k, k)
    BY OperandTerm
  <1>6. <<"operand", k>> \in AllTerms(e)
    BY <1>5, TermTyped DEF Levels
  <1> HIDE DEF item
  <1>7. /\ R \in Seq(AllTerms(e)) /\ Len(R) = Len(T) + 1
        /\ \A i \in 1 .. Len(T) : R[i] = T[i]
        /\ Top(R) = <<"operand", k>>
    BY <1>2, <1>4, <1>6, ReducedStack
  <1> HIDE DEF R
  <1>8. Computes(e, Append(q, item), R)
    BY <1>1, <1>2, <1>4, <1>7, ComputesMore DEF R
  <1>9. Frames(e, s, R, b)
    BY <1>1, <1>3, <1>7, FramesSame
  <1>10. At(s, n) < k /\ At(s, n) + 1 = k
    BY <1>1
  <1>11. Holding(e, s, Append(q, item), k, "atom")
    BY <1>1, <1>5, <1>7, <1>8, <1>9, <1>10 DEF Holding
  <1>12. QED
    BY <1>11 DEF item

\* A "(" or a sign is put on the stack.
LEMMA StackPrefix ==
    ASSUME NEW e, Len(e) \in Nat, NEW s \in Seq(Items), NEW q \in Seq(Items),
           NEW item \in Items, item.at \in 1 .. Len(e), Expecting(e, s, q, item.at - 1),
           item.sym \in Prefixes, e[item.at] = Token(item.sym)
    PROVE  Expecting(e, Append(s, item), q, item.at)
  <1> DEFINE n == Len(s)
  <1>1. PICK T, b : /\ Computes(e, q, T) /\ Frames(e, s, T, b)
                    /\ Len(T) = b[n] /\ At(s, n) = item.at - 1
    BY DEF Expecting
  <1>2. n \in Nat
    BY LenProperties
  <1>3. b[n] \in Nat /\ At(s, n) < item.at /\ item.at = At(s, n) + 1
    BY <1>1, <1>2 DEF Frames
  <1>4. PICK c : /\ Frames(e, Append(s, item), T, c)
                 /\ c[n + 1] = b[n]
                 /\ Len(Append(s, item)) = n + 1
                 /\ At(Append(s, item), n + 1) = item.at
    <2> DEFINE d == b[n]
    <2>1. d \in Nat /\ d >= b[n] /\ d = b[n]
      BY <1>3
    <2>2. Fits(e, s, T, b, item, d)
      BY <1>3 DEF Fits
    <2> HIDE DEF d
    <2>3. \E c : /\ Frames(e, Append(s, item), T, c)
                 /\ c[Len(s) + 1] = d
                 /\ Append(s, item) \in Seq(Items)
                 /\ Len(Append(s, item)) = Len(s) + 1
                 /\ At(Append(s, item), Len(s) + 1) = item.at
      <3>1. Frames(e, s, T, b) /\ At(s, Len(s)) < item.at /\ d \in Nat /\ d >= b[Len(s)]
        BY <1>1, <1>3, <2>1
      <3>2. QED
        BY <2>2, <3>1, FramesMore
    <2>4. QED
      BY <2>1, <2>3
  <1>5. QED
    BY <1>1, <1>4 DEF Expecting

\* A binary operator is put on the stack, right of the term it will take.
LEMMA StackBinary ==
    ASSUME NEW e, Len(e) \in Nat, NEW s \in Seq(Items), NEW q \in Seq(Items),
           NEW item \in Items, item.at \in 1 .. Len(e),
           NEW level \in Levels, Holding(e, s, q, item.at - 1, level),
           Looseness(level) <= Looseness(Made(item.sym)),
           item.sym \in Operators, e[item.at] = item.sym,
           \/ s = <<>> \/ Top(s).sym = "("
           \/ getPrecedence(Top(s).sym) < getPrecedence(item.sym)
    PROVE  Expecting(e, Append(s, item), q, item.at)
  <1> DEFINE n == Len(s)
             k == item.at
  <1>1. PICK T, b : /\ Computes(e, q, T) /\ Frames(e, s, T, b)
                    /\ Len(T) = b[n] + 1 /\ At(s, n) < k - 1
                    /\ Top(T) \in Of(e, level, At(s, n) + 1, k - 1)
    BY DEF Holding
  <1>2. n \in Nat
    BY LenProperties
  <1>3. b[n] \in Nat /\ At(s, n) \in Nat
    BY <1>1, <1>2, AtNat DEF Frames
  <1>4. item.sym \notin Prefixes /\ Made(item.sym) \in Levels
    BY OperatorsAssumption DEF Prefixes, Made, Levels
  <1>5. T[b[n] + 1] \in Of(e, Made(item.sym), At(s, n) + 1, k - 1)
    <2>1. At(s, n) + 1 \in 1 .. Len(e) /\ k - 1 \in 1 .. Len(e) /\ At(s, n) + 1 <= k - 1
      BY <1>1, <1>3
    <2>2. Top(T) = T[b[n] + 1]
      BY <1>1 DEF Top
    <2>3. QED
      BY <1>1, <1>4, <2>1, <2>2, LooserTerm
  <1>6. b[n] + 1 \in Nat /\ b[n] + 1 >= b[n] /\ At(s, n) < k
    BY <1>1, <1>3
  <1>7. PICK c : /\ Frames(e, Append(s, item), T, c)
                 /\ c[n + 1] = b[n] + 1
                 /\ Len(Append(s, item)) = n + 1
                 /\ At(Append(s, item), n + 1) = item.at
    <2> DEFINE d == b[n] + 1
    <2>1. d \in Nat /\ d >= b[n] /\ d = b[n] + 1
          /\ T[d] \in Of(e, Made(item.sym), At(s, n) + 1, item.at - 1)
      BY <1>5, <1>6
    <2>2. Fits(e, s, T, b, item, d)
      BY <1>4, <2>1 DEF Fits
    <2> HIDE DEF d
    <2>3. QED
      BY <1>1, <1>6, <2>1, <2>2, FramesMore
  <1>8. QED
    BY <1>1, <1>7 DEF Expecting

\* A parenthesis is closed: what is in it is an atom.
LEMMA CloseParen ==
    ASSUME NEW e, Len(e) \in Nat, NEW s \in Seq(Items), NEW q \in Seq(Items),
           NEW k \in 1 .. Len(e), NEW level \in Levels, Holding(e, s, q, k - 1, level),
           s # <<>>, Top(s).sym = "(", e[k] = ")"
    PROVE  Holding(e, Rest(s), q, k, "atom")
  <1> DEFINE n == Len(s)
             r == Rest(s)
  <1>1. PICK T, b : /\ Computes(e, q, T) /\ Frames(e, s, T, b)
                    /\ Len(T) = b[n] + 1 /\ At(s, n) < k - 1
                    /\ Top(T) \in Of(e, level, At(s, n) + 1, k - 1)
    BY DEF Holding
  <1>2. /\ n \in Nat /\ n > 0 /\ Len(r) = n - 1 /\ At(r, n - 1) = At(s, n - 1)
        /\ Frames(e, r, T, b)
    <2>1. /\ Rest(s) \in Seq(Items) /\ Len(Rest(s)) = Len(s) - 1
          /\ Len(s) \in Nat /\ Len(s) > 0
          /\ \A j \in 1 .. Len(s) - 1 : Rest(s)[j] = s[j]
          /\ \A j \in 0 .. Len(s) - 1 : At(Rest(s), j) = At(s, j)
          /\ Frames(e, Rest(s), T, b)
      BY <1>1, FramesRest
    <2>2. QED
      BY <2>1
  <1>3. /\ b[n] = b[n - 1] /\ At(s, n) = At(s, n - 1) + 1 /\ e[At(s, n)] = "("
        /\ At(s, n) \in 1 .. Len(e) /\ At(s, n - 1) \in Nat
    <2>1. Frame(e, s, T, b, n)
      BY <1>1, <1>2 DEF Frames
    <2>2. s[n].sym = "(" /\ At(s, n - 1) \in Nat
      BY <1>2, AtNat DEF Top
    <2>3. QED
      BY <2>1, <2>2 DEF Frame, PrefixAt, Prefixes, Token
  <1>4. Top(T) \in Of(e, "atom", At(s, n), k)
    <2>1. /\ At(s, n) + 1 \in 1 .. Len(e) /\ k - 1 \in 1 .. Len(e) /\ At(s, n) + 1 <= k - 1
          /\ At(s, n) < k
      BY <1>1, <1>3
    <2>2. "sum" \in Levels /\ Looseness(level) <= Looseness("sum")
      BY DEF Levels, Looseness
    <2>3. Top(T) \in Of(e, "sum", At(s, n) + 1, k - 1)
      BY <1>1, <2>1, <2>2, LooserTerm
    <2>4. QED
      BY <1>3, <2>1, <2>3, ParenTerm
  <1>5. /\ Len(T) = b[n - 1] + 1 /\ At(r, n - 1) < k
        /\ Top(T) \in Of(e, "atom", At(r, n - 1) + 1, k)
    BY <1>1, <1>2, <1>3, <1>4
  <1>6. QED
    BY <1>1, <1>2, <1>5 DEF Holding

\* An operator leaves the stack for the queue with its operands.
LEMMA PopOperator ==
    ASSUME NEW e, Len(e) \in Nat, NEW s \in Seq(Items), NEW q \in Seq(Items),
           NEW k \in 1 .. Len(e), NEW level \in Levels, Holding(e, s, q, k, level),
           s # <<>>, Top(s).sym # "(", Looseness(level) <= Looseness(Room(s))
    PROVE  /\ Holding(e, Rest(s), Append(q, Top(s)), k, Made(Top(s).sym))
           /\ Looseness(Made(Top(s).sym)) <= Looseness(Room(Rest(s)))
           /\ Made(Top(s).sym) \in Levels /\ Top(s).sym \in {"u-"} \cup Operators
  <1> DEFINE n == Len(s)
             r == Rest(s)
             item == Top(s)
             m == Made(item.sym)
  <1>1. PICK T, b : /\ Computes(e, q, T) /\ Frames(e, s, T, b)
                    /\ Len(T) = b[n] + 1 /\ At(s, n) < k
                    /\ Top(T) \in Of(e, level, At(s, n) + 1, k)
    BY DEF Holding
  <1>2. /\ n \in Nat /\ n > 0 /\ Len(r) = n - 1 /\ At(r, n - 1) = At(s, n - 1)
        /\ Frames(e, r, T, b) /\ r \in Seq(Items)
        /\ \A j \in 1 .. n - 1 : r[j] = s[j]
    <2>1. /\ Rest(s) \in Seq(Items) /\ Len(Rest(s)) = Len(s) - 1
          /\ Len(s) \in Nat /\ Len(s) > 0
          /\ \A j \in 1 .. Len(s) - 1 : Rest(s)[j] = s[j]
          /\ \A j \in 0 .. Len(s) - 1 : At(Rest(s), j) = At(s, j)
          /\ Frames(e, Rest(s), T, b)
      BY <1>1, FramesRest
    <2>2. QED
      BY <2>1
  <1>3. /\ item = s[n] /\ item \in Items /\ At(s, n) = item.at
    BY <1>2, ElementOfSeq DEF Top, At
  <1>4. /\ Frame(e, s, T, b, n) /\ At(s, n) \in 1 .. Len(e) /\ At(s, n - 1) < At(s, n)
        /\ At(s, n - 1) \in Nat /\ b[n] \in Nat /\ b[n - 1] \in Nat
    BY <1>1, <1>2, AtNat DEF Frames, Frame
  <1>5. Top(T) \in Of(e, After(item.sym), At(s, n) + 1, k)
    <2>1. At(s, n) + 1 \in 1 .. Len(e) /\ At(s, n) + 1 <= k
      BY <1>1, <1>4
    <2>2. Room(s) = After(item.sym) /\ After(item.sym) \in Levels
      BY DEF Room, After, Levels
    <2>3. QED
      BY <1>1, <2>1, <2>2, LooserTerm
  <1>6. T \in Seq(AllTerms(e)) /\ Len(T) \in Nat
    <2>1. Len(q) \in Nat
      BY LenProperties
    <2>2. QED
      BY <1>1, <2>1, ComputesTyped, LenProperties
  <1> DEFINE R == Reduced(T, item)
  <1>7. /\ item.sym \in Evaluable /\ item.sym \in {"u-"} \cup Operators
        /\ Needs(item.sym) \in 0 .. Len(T)
        /\ Len(T) - Needs(item.sym) = b[n - 1]
        /\ Computed(T, item) \in Of(e, m, At(s, n - 1) + 1, k)
    <2>1. CASE item.sym = "u-"
      <3>1. b[n] = b[n - 1] /\ At(s, n) = At(s, n - 1) + 1 /\ e[At(s, n)] = "-"
        BY <1>3, <1>4, <2>1 DEF Frame, PrefixAt, Prefixes, Token
      <3>2. m = "sign" /\ After(item.sym) = "sign" /\ Needs(item.sym) = 1
            /\ Computed(T, item) = <<"neg", Top(T)>> /\ item.sym \in Evaluable
        BY <2>1 DEF Made, After, Needs, Arity, Computed, Evaluable
      <3>3. <<"neg", Top(T)>> \in Of(e, "sign", At(s, n), k)
        BY <1>1, <1>4, <1>5, <3>1, <3>2, SignTerm
      <3>4. /\ Needs(item.sym) \in 0 .. Len(T) /\ Len(T) - Needs(item.sym) = b[n - 1]
        <4> HIDE DEF item
        <4>1. QED
          BY <1>1, <1>4, <1>6, <3>1, <3>2
      <3>5. Computed(T, item) \in Of(e, m, At(s, n - 1) + 1, k)
        BY <3>1, <3>2, <3>3
      <3>6. QED
        BY <2>1, <3>2, <3>4, <3>5
    <2>2. CASE item.sym # "u-"
      <3>1. /\ item.sym \in Operators /\ b[n] = b[n - 1] + 1 /\ e[At(s, n)] = item.sym
            /\ T[b[n]] \in Of(e, m, At(s, n - 1) + 1, At(s, n) - 1)
        <4>1. item.sym \notin Prefixes
          BY <2>2 DEF Prefixes
        <4>2. QED
          BY <1>3, <1>4, <4>1 DEF Frame, BinaryAt
      <3>2. /\ m \in {"sum", "prod"} /\ item.sym \in Joins(m)
            /\ After(item.sym) = Tighter(m) /\ item.sym # "x"
            /\ item.sym \in Evaluable
        BY <3>1, OperatorsAssumption DEF Made, Joins, After, Tighter, Evaluable
      <3>3. Needs(item.sym) = 2 /\ Computed(T, item) = <<item.sym, T[Len(T) - 1], Top(T)>>
        BY <2>2, <3>2 DEF Needs, Arity, Computed, Binary
      <3>4. T[Len(T) - 1] = T[b[n]]
        <4>1. Len(T) - 1 = b[n]
          BY <1>1, <1>4
        <4>2. QED
          BY <4>1
      <3>5. At(s, n - 1) + 1 < At(s, n)
        <4>1. CASE At(s, n - 1) + 1 = At(s, n)
          <5>1. Of(e, m, At(s, n - 1) + 1, At(s, n) - 1) = {}
            <6>1. m \in Levels
              BY <3>2 DEF Levels
            <6>2. /\ At(s, n - 1) + 1 \in 1 .. Len(e) /\ At(s, n) - 1 \in 0 .. Len(e)
                  /\ At(s, n - 1) + 1 > At(s, n) - 1
              BY <1>4, <4>1
            <6>3. QED
              BY <6>1, <6>2, NoTerms
          <5>2. QED
            BY <3>1, <5>1
        <4>2. QED
          BY <1>4, <4>1
      <3>6. <<item.sym, T[b[n]], Top(T)>> \in Of(e, m, At(s, n - 1) + 1, k)
        <4> DEFINE lo == At(s, n - 1) + 1
                   mid == At(s, n)
        <4>1. lo \in 1 .. Len(e) /\ mid \in lo + 1 .. k - 1
          BY <1>1, <1>4, <3>5
        <4>2. /\ T[b[n]] \in Of(e, m, lo, mid - 1) /\ Top(T) \in Of(e, Tighter(m), mid + 1, k)
              /\ e[mid] = item.sym /\ e[mid] \in Joins(m)
          BY <1>5, <3>1, <3>2
        <4> HIDE DEF lo, mid, m, item
        <4>3. <<e[mid], T[b[n]], Top(T)>> \in Of(e, m, lo, k)
          BY <3>2, <4>1, <4>2, JoinTerm
        <4>4. QED
          BY <4>2, <4>3 DEF lo
      <3>7. Needs(item.sym) \in 0 .. Len(T) /\ Len(T) - Needs(item.sym) = b[n - 1]
        <4>1. Len(T) = b[n] + 1 /\ b[n] = b[n - 1] + 1 /\ b[n - 1] \in Nat
          BY <1>1, <1>4, <3>1
        <4>2. Needs(item.sym) = 2
          BY <3>3
        <4> HIDE DEF item, n
        <4>3. Len(T) = b[n - 1] + 2
          BY <4>1
        <4>4. QED
          BY <4>1, <4>2, <4>3
      <3>8. QED
        BY <3>1, <3>2, <3>3, <3>4, <3>6, <3>7
    <2>3. QED
      BY <2>1, <2>2
  <1>8. m \in Levels
    BY DEF Made, Levels
  <1>9. Computed(T, item) \in AllTerms(e)
    <2>1. At(s, n - 1) + 1 \in 1 .. Len(e)
      BY <1>4
    <2>2. QED
      BY <1>7, <1>8, <2>1, TermTyped
  <1>10. Looseness(m) <= Looseness(Room(r))
    <2>1. CASE n = 1
      <3>1. r = <<>>
        BY <1>2, <2>1, EmptySeq
      <3>2. QED
        BY <3>1 DEF Room, Looseness, Made
    <2>2. CASE n # 1
      <3>1. n - 1 \in 1 .. n - 1 /\ r # <<>>
        BY <1>2, <2>2, EmptySeq
      <3>2. Top(r) = s[n - 1]
        BY <1>2, <3>1 DEF Top
      <3>3. Ordered(s, n) /\ Frame(e, s, T, b, n - 1)
        BY <1>1, <1>2, <1>4, <3>1 DEF Frame, Frames
      <3>4. s[n - 1].sym \in Prefixes \cup Operators
        BY <3>3 DEF Frame, BinaryAt
      <3>5. Room(r) = After(s[n - 1].sym)
        BY <3>1, <3>2 DEF Room
      <3>6. \/ s[n - 1].sym = "(" \/ item.sym = "u-"
            \/ getPrecedence(s[n - 1].sym) < getPrecedence(item.sym)
        BY <1>3, <2>2, <3>3 DEF Ordered, Prefixes
      <3> DEFINE u == s[n - 1].sym
                 v == item.sym
      <3>7. u \in {"(", "u-", "+", "-", "*", "/"} /\ v \in {"u-", "+", "-", "*", "/"}
        BY <1>7, <3>4, OperatorsAssumption DEF Prefixes
      <3>8. u = "(" \/ v = "u-" \/ getPrecedence(u) < getPrecedence(v)
        BY <3>6
      <3> HIDE DEF u, v
      <3>9. Looseness(Made(v)) <= Looseness(After(u))
        BY <3>7, <3>8 DEF Made, After, Looseness, getPrecedence
      <3>10. QED
        BY <3>5, <3>9 DEF u, v
    <2>3. QED
      BY <2>1, <2>2
  <1> HIDE DEF item, m, r
  <1>11. /\ R \in Seq(AllTerms(e)) /\ Len(R) = b[n - 1] + 1
         /\ \A i \in 1 .. b[n - 1] : R[i] = T[i]
         /\ Top(R) = Computed(T, item)
    BY <1>6, <1>7, <1>9, ReducedStack
  <1> HIDE DEF R
  <1>12. Computes(e, Append(q, item), R)
    <2>1. Len(T) >= Needs(item.sym)
      BY <1>6, <1>7
    <2>2. QED
      BY <1>1, <1>3, <1>7, <1>11, <2>1, ComputesMore DEF R
  <1>13. Frames(e, r, R, b)
    <2>1. Len(r) \in Nat /\ \A i \in 1 .. b[Len(r)] : R[i] = T[i]
      BY <1>2, <1>11
    <2>2. QED
      BY <1>2, <2>1, FramesSame
  <1>14. At(r, n - 1) < k
    BY <1>1, <1>2, <1>4
  <1>15. Holding(e, r, Append(q, item), k, m)
    BY <1>2, <1>7, <1>11, <1>12, <1>13, <1>14 DEF Holding
  <1>16. QED
    BY <1>7, <1>8, <1>10, <1>15 DEF item, m, r

\* When the stack is empty, the term read is one of the whole expression.
LEMMA WholeRead ==
    ASSUME NEW e \in Seq(Tokens), Len(e) > 0, NEW q \in Seq(Items), NEW level \in Levels,
           Holding(e, <<>>, q, Len(e), level)
    PROVE  \E t \in Meanings(e) : Computes(e, q, <<t>>) 
  <1>1. Len(<<>>) = 0 /\ At(<<>>, 0) = 0 /\ Len(e) \in Nat /\ Len(q) \in Nat
    BY EmptySeq, LenProperties DEF At
  <1>2. PICK T, b : /\ Computes(e, q, T) /\ Frames(e, <<>>, T, b)
                    /\ Len(T) = b[0] + 1 /\ Top(T) \in Of(e, level, 1, Len(e))
    BY <1>1 DEF Holding
  <1>3. Len(T) = 1 /\ Top(T) = T[1]
    BY <1>2 DEF Frames, Top
  <1>4. T[1] \in Meanings(e)
    <2>1. "sum" \in Levels /\ Looseness(level) <= Looseness("sum")
      BY DEF Levels, Looseness
    <2>2. T[1] \in Of(e, "sum", 1, Len(e))
      BY <1>1, <1>2, <1>3, <2>1, LooserTerm
    <2>3. e # <<>>
      BY EmptySeq
    <2>4. QED
      BY <2>2, <2>3 DEF Meanings, Of
  <1>5. T = <<T[1]>>
    <2>1. T \in Seq(AllTerms(e))
      BY <1>1, <1>2, ComputesTyped
    <2>2. QED
      BY <1>3, <2>1
  <1>6. QED
    BY <1>2, <1>4, <1>5

-----------------------------------------------------------------------------
(* The parentheses.                                                        *)

\* Depths depend on the tokens up to there only.
LEMMA DepthSame ==
    ASSUME NEW e, NEW f, NEW n \in Nat, \A k \in 1 .. n : e[k] = f[k]
    PROVE  \A k \in 0 .. n : Depth(e, k) = Depth(f, k)
  <1>1. ASSUME NEW k \in 0 .. n PROVE Depth(e, k) = Depth(f, k)
    <2>1. k \in Nat /\ \A i \in 1 .. k : e[i] = f[i]
      OBVIOUS
    <2>2. Count(e, "(", k) = Count(f, "(", k) /\ Count(e, ")", k) = Count(f, ")", k)
      BY <2>1, CountSame
    <2>3. QED
      BY <2>2 DEF Depth
  <1>2. QED
    BY <1>1

\* The "(" on a stack.
Opens(s) == Count([i \in DOMAIN s |-> s[i].sym], "(", Len(s))

\* A "(" put on the stack is one more.
LEMMA OpensAppend ==
    ASSUME NEW s \in Seq(Items), NEW item \in Items
    PROVE  /\ Opens(s) \in Nat
           /\ Opens(Append(s, item)) = Opens(s) + IF item.sym = "(" THEN 1 ELSE 0
  <1> DEFINE r == Append(s, item)
             n == Len(s)
             f == [i \in DOMAIN s |-> s[i].sym]
             g == [i \in DOMAIN r |-> r[i].sym]
  <1>1. /\ n \in Nat /\ r \in Seq(Items) /\ Len(r) = n + 1 /\ r[n + 1] = item
        /\ (\A j \in 1 .. n : r[j] = s[j]) /\ DOMAIN s = 1 .. n
    BY LenProperties, AppendProperties
  <1>2. DOMAIN r = 1 .. n + 1
    BY <1>1, LenProperties
  <1>3. g[n + 1] = item.sym /\ \A j \in 1 .. n : f[j] = g[j]
    BY <1>1, <1>2
  <1>4. Opens(s) = Count(f, "(", n) /\ Opens(r) = Count(g, "(", n + 1)
    BY <1>1 DEF Opens
  <1> HIDE DEF f, g, r
  <1>5. Count(f, "(", n) = Count(g, "(", n)
    BY <1>1, <1>3, CountSame
  <1>6. /\ Count(g, "(", n) \in Nat
        /\ Count(g, "(", n + 1) = Count(g, "(", n) + IF g[n + 1] = "(" THEN 1 ELSE 0
    BY <1>1, ParenCounting
  <1>7. QED
    BY <1>3, <1>4, <1>5, <1>6 DEF r

\* A "(" that leaves the stack is one less.
LEMMA OpensRest ==
    ASSUME NEW s \in Seq(Items), s # <<>>
    PROVE  Opens(Rest(s)) = Opens(s) - IF Top(s).sym = "(" THEN 1 ELSE 0
  <1> DEFINE n == Len(s) - 1
  <1>1. /\ n \in Nat /\ Len(s) = n + 1
        /\ Rest(s) \in Seq(Items) /\ Len(Rest(s)) = n
        /\ \A j \in 1 .. n : Rest(s)[j] = s[j]
        /\ Top(s) \in Items /\ Top(s) = s[n + 1]
    BY RestOfStack
  <1> HIDE DEF n
  <1>2. Append(Rest(s), Top(s)) = s
    <2> DEFINE r == Append(Rest(s), Top(s))
    <2>1. /\ r \in Seq(Items) /\ Len(r) = n + 1 /\ r[n + 1] = Top(s)
          /\ \A j \in 1 .. n : r[j] = Rest(s)[j]
      BY <1>1, AppendProperties
    <2>2. \A j \in 1 .. n + 1 : r[j] = s[j]
      BY <1>1, <2>1
    <2> HIDE DEF r
    <2>3. r = s
      BY <1>1, <2>1, <2>2, SeqEqual
    <2>4. QED
      BY <2>3 DEF r
  <1>3. /\ Opens(Rest(s)) \in Nat
        /\ Opens(Append(Rest(s), Top(s))) = Opens(Rest(s)) + IF Top(s).sym = "(" THEN 1 ELSE 0
    BY <1>1, OpensAppend
  <1>4. QED
    BY <1>2, <1>3

\* No "(" is on the empty stack.
LEMMA OpensNone == Opens(<<>>) = 0
  BY EmptySeq, Counting DEF Opens

\* The stack has a "(" for every one open in the tokens taken; while a ")"
\* looks for its own, one more.
Matched ==
    /\ \A k \in 0 .. Len(expr) : Depth(expr, k) >= 0
    /\ Opens(stack) = Depth(expr, Len(expr))

Searching ==
    /\ Len(expr) > 0 /\ expr[Len(expr)] = ")"
    /\ \A k \in 0 .. Len(expr) - 1 : Depth(expr, k) >= 0
    /\ Opens(stack) = Depth(expr, Len(expr)) + 1

Emptied == pc = "evaluate" \/ (pc = "done" /\ error # "mismatched")

ParenInv ==
    /\ pc \in {"tokens", "operator", "flush"} \/ Emptied => Matched
    /\ pc = "close" => Searching
    /\ Emptied => stack = <<>>

\* No parenthesis is open at first.
LEMMA ParenInit == Init => ParenInv
  <1> SUFFICES ASSUME Init PROVE ParenInv
    OBVIOUS
  <1>1. Len(expr) = 0 /\ Opens(stack) = 0 /\ Depth(expr, 0) = 0
    BY EmptySeq, OpensNone, DepthStep DEF Init
  <1>2. QED
    BY <1>1 DEF Init, ParenInv, Matched, Emptied

\* A token is taken.
LEMMA ParenTake ==
    ASSUME YardInv, ParenInv, NEW sym \in Tokens, Take(sym),
           \/ /\ sym \notin {"(", ")"} /\ stack' = stack /\ pc' \in {"tokens", "operator"}
           \/ sym = "(" /\ stack' = Append(stack, Item("(")) /\ pc' = "tokens"
           \/ sym = ")" /\ stack' = stack /\ pc' = "close"
    PROVE  ParenInv'
  <1> DEFINE p == Len(expr)
  <1>1. /\ p \in Nat /\ Len(expr') = p + 1 /\ expr'[p + 1] = sym
        /\ \A k \in 1 .. p : expr'[k] = expr[k]
    BY TakeStep
  <1>2. Matched /\ pc = "tokens" /\ stack \in Seq(Items)
    BY DEF Take, ParenInv, YardInv, YardTypes
  <1>3. \A k \in 0 .. p : Depth(expr', k) = Depth(expr, k)
    BY <1>1, DepthSame
  <1>4. Depth(expr', p + 1) = Depth(expr, p) + IF sym = "(" THEN 1
                                                 ELSE IF sym = ")" THEN - 1 ELSE 0
    <2>1. p + 1 \in Nat /\ p + 1 > 0 /\ (p + 1) - 1 = p /\ p \in 0 .. p
      BY <1>1
    <2>2. Depth(expr', p + 1) = Depth(expr', (p + 1) - 1) + IF expr'[p + 1] = "(" THEN 1
                                          ELSE IF expr'[p + 1] = ")" THEN - 1 ELSE 0
      BY <2>1, DepthStep
    <2> HIDE DEF p
    <2>3. QED
      BY <1>1, <1>3, <2>1, <2>2
  <1>5. Depth(expr, p) >= 0 /\ Depth(expr, p) \in Int /\ Opens(stack) = Depth(expr, p)
    BY <1>1, <1>2, DepthStep DEF Matched
  <1>6. \A k \in 0 .. p : Depth(expr', k) >= 0
    BY <1>2, <1>3 DEF Matched
  <1>7. ~ Emptied'
    BY DEF Emptied
  <1> HIDE DEF p
  <1>8. CASE sym = ")" /\ stack' = stack /\ pc' = "close"
    <2>1. Searching'
      BY <1>1, <1>4, <1>5, <1>6, <1>8 DEF Searching
    <2>2. QED
      BY <1>7, <1>8, <2>1 DEF ParenInv
  <1>9. CASE sym = "(" /\ stack' = Append(stack, Item("(")) /\ pc' = "tokens"
    <2>1. Item("(") \in Items /\ Item("(").sym = "("
      BY <1>1 DEF Item, Items, Symbols, Tokens, p
    <2>2. Opens(stack') = Opens(stack) + 1
      BY <1>2, <1>9, <2>1, OpensAppend
    <2>3. \A k \in 0 .. p + 1 : k = p + 1 \/ k \in 0 .. p
      BY <1>1
    <2>4. Matched'
      BY <1>1, <1>4, <1>5, <1>6, <1>9, <2>2, <2>3 DEF Matched
    <2>5. QED
      BY <1>7, <1>9, <2>4 DEF ParenInv
  <1>10. CASE sym \notin {"(", ")"} /\ stack' = stack /\ pc' \in {"tokens", "operator"}
    <2>1. \A k \in 0 .. p + 1 : k = p + 1 \/ k \in 0 .. p
      BY <1>1
    <2>2. Matched'
      BY <1>1, <1>4, <1>5, <1>6, <1>10, <2>1 DEF Matched
    <2>3. QED
      BY <1>7, <1>10, <2>2 DEF ParenInv
  <1>11. QED
    BY <1>8, <1>9, <1>10

\* An operator moves, and no parenthesis.
LEMMA ParenMove ==
    ASSUME ParenInv, UNCHANGED expr, Opens(stack') = Opens(stack),
           \/ pc' = pc /\ pc \in {"close", "operator", "flush"}
           \/ pc = "operator" /\ pc' = "tokens"
    PROVE  ParenInv'
  <1>1. ~ Emptied'
    BY DEF Emptied
  <1>2. (Matched => Matched') /\ (Searching => Searching')
    BY DEF Matched, Searching
  <1>3. QED
    BY <1>1, <1>2 DEF ParenInv

\* An operator that leaves the stack closes nothing.
LEMMA ParenPop ==
    ASSUME YardInv, ParenInv, stack # <<>>, PopToQueue, Top(stack).sym # "(",
           UNCHANGED <<expr, pc>>, pc \in {"close", "operator", "flush"}
    PROVE  ParenInv'
  <1>1. stack \in Seq(Items) /\ stack' = Rest(stack)
    BY DEF YardInv, YardTypes, PopToQueue
  <1>2. Opens(stack') = Opens(stack) - 0
    BY <1>1, OpensRest
  <1>3. Opens(stack) \in Nat
    BY <1>1, OpensAppend DEF YardInv, YardTypes
  <1>4. Opens(stack') = Opens(stack)
    BY <1>2, <1>3
  <1>5. QED
    BY <1>4, ParenMove

\* What has been computed is balanced.
LEMMA ComputedBalanced ==
    ASSUME YardInv, ParenInv, pc = "done", Value # {}
    PROVE  BalancedParens(expr)
  <1>1. error = "none" /\ Emptied
    BY DEF Value, Emptied
  <1>2. Matched /\ stack = <<>>
    BY <1>1 DEF ParenInv
  <1>3. Len(expr) \in Nat
    BY LenProperties DEF YardInv, YardTypes
  <1>4. \A k \in 0 .. Len(expr) : /\ Count(expr, "(", k) \in Nat /\ Count(expr, ")", k) \in Nat
                                  /\ Depth(expr, k) = Count(expr, "(", k) - Count(expr, ")", k)
                                  /\ Depth(expr, k) >= 0
    <2>1. ASSUME NEW k \in 0 .. Len(expr)
          PROVE  Count(expr, "(", k) \in Nat /\ Count(expr, ")", k) \in Nat
      <3>1. k \in Nat
        OBVIOUS
      <3>2. QED
        BY <3>1, Counting
    <2>2. QED
      BY <1>2, <2>1 DEF Depth, Matched
  <1>5. Depth(expr, Len(expr)) = 0
    BY <1>2, OpensNone DEF Matched
  <1>6. QED
    BY <1>3, <1>4, <1>5 DEF BalancedParens

\* Every step keeps the count of the parentheses.
LEMMA ParenStep == YardInv /\ ParenInv /\ [Next]_vars => ParenInv'
  <1> SUFFICES ASSUME YardInv, ParenInv, [Next]_vars PROVE ParenInv'
    OBVIOUS
  <1>0. stack \in Seq(Items) /\ hand \in Items
    BY DEF YardInv, YardTypes
  <1>1. CASE TakeOperand
    <2>1. Take("x") /\ "x" \in Tokens /\ stack' = stack /\ pc' = "tokens"
      BY <1>1 DEF TakeOperand, Take, Tokens
    <2>2. QED
      BY <2>1, ParenTake
  <1>2. CASE TakeOpen
    <2>1. Take("(") /\ "(" \in Tokens /\ stack' = Append(stack, Item("(")) /\ pc' = "tokens"
      BY <1>2 DEF TakeOpen, Take, Tokens
    <2>2. QED
      BY <2>1, ParenTake
  <1>3. CASE TakeClose
    <2>1. Take(")") /\ ")" \in Tokens /\ stack' = stack /\ pc' = "close"
      BY <1>3 DEF TakeClose, Tokens
    <2>2. QED
      BY <2>1, ParenTake
  <1>4. CASE TakeOperator
    <2>1. PICK sym \in Operators : Take(sym) /\ stack' = stack /\ pc' = "operator"
      BY <1>4 DEF TakeOperator
    <2>2. sym \in Tokens /\ sym \notin {"(", ")"}
      BY OperatorsAssumption DEF Tokens
    <2>3. QED
      BY <2>1, <2>2, ParenTake
  <1>5. CASE ClosePop \/ OperatorPop \/ FlushPop
    BY <1>5, ParenPop DEF ClosePop, OperatorPop, FlushPop, Yields
  <1>6. CASE CloseFound
    <2>1. /\ pc = "close" /\ pc' = "tokens" /\ stack # <<>> /\ Top(stack).sym = "("
          /\ stack' = Rest(stack) /\ expr' = expr /\ Searching /\ ~ Emptied'
      BY <1>6 DEF CloseFound, ParenInv, Emptied
    <2>2. Opens(stack') = Opens(stack) - 1 /\ Opens(stack) \in Nat
      BY <1>0, <2>1, OpensRest, OpensAppend
    <2>3. Len(expr) \in Nat /\ Depth(expr, Len(expr)) \in Int
      <3>1. Len(expr) \in Nat
        BY LenProperties DEF YardInv, YardTypes
      <3>2. QED
        BY <3>1, DepthStep
    <2>4. Opens(stack') \in Nat
      <3>1. stack' \in Seq(Items)
        BY <1>6, FoundStep DEF YardInv, YardTypes
      <3>2. QED
        BY <1>0, <3>1, OpensAppend
    <2>5. Depth(expr, Len(expr)) >= 0 /\ Opens(stack') = Depth(expr, Len(expr))
      BY <2>1, <2>2, <2>3, <2>4 DEF Searching
    <2>6. \A k \in 0 .. Len(expr) : k = Len(expr) \/ k \in 0 .. Len(expr) - 1
      BY <2>3
    <2>7. Matched'
      BY <2>1, <2>5, <2>6 DEF Searching, Matched
    <2>8. QED
      BY <2>1, <2>7 DEF ParenInv
  <1>7. CASE OperatorPush
    <2>1. /\ pc = "operator" /\ pc' = "tokens" /\ stack' = Append(stack, hand) /\ expr' = expr
          /\ hand.sym # "("
      BY <1>7 DEF OperatorPush, YardInv, Taken
    <2>2. Opens(stack') = Opens(stack) + 0 /\ Opens(stack) \in Nat
      BY <1>0, <2>1, OpensAppend
    <2>3. Opens(stack') = Opens(stack)
      BY <2>2
    <2>4. QED
      BY <2>1, <2>3, ParenMove
  <1>8. CASE CloseMissing \/ FlushOpen
    BY <1>8 DEF CloseMissing, FlushOpen, Fail, ParenInv, Emptied
  <1>9. CASE End \/ Flushed \/ Finish \/ Unreadable \/ MissingArgs
    <2>1. UNCHANGED <<expr, stack>>
      BY <1>9 DEF End, Flushed, Finish, Unreadable, MissingArgs, Fail, yard
    <2>2. pc' # "close" /\ (Matched => Matched')
      BY <1>9, <2>1 DEF End, Flushed, Finish, Unreadable, MissingArgs, Fail, Matched
    <2>3. Matched /\ (Emptied' => stack = <<>>)
      <3>1. CASE End
        BY <3>1 DEF End, ParenInv, Emptied
      <3>2. CASE Flushed
        BY <3>2 DEF Flushed, ParenInv, Emptied
      <3>3. CASE Finish \/ Unreadable \/ MissingArgs
        <4>1. pc = "evaluate"
          BY <3>3 DEF Finish, Unreadable, MissingArgs, Evaluating
        <4>2. Emptied
          BY <4>1 DEF Emptied
        <4>3. QED
          BY <4>2 DEF ParenInv
      <3>4. QED
        BY <1>9, <3>1, <3>2, <3>3
    <2>4. QED
      BY <2>1, <2>2, <2>3 DEF ParenInv
  <1>10. CASE PushOperand \/ Negate \/ Combine \/ UNCHANGED vars
    <2>1. UNCHANGED <<expr, stack, pc, error>>
      BY <1>10 DEF PushOperand, Negate, Combine, Push, vars, yard
    <2>2. (Emptied' <=> Emptied) /\ (Matched' <=> Matched) /\ (Searching' <=> Searching)
      BY <2>1 DEF Emptied, Matched, Searching
    <2>3. QED
      BY <2>1, <2>2 DEF ParenInv
  <1>11. QED
    BY <1>1, <1>2, <1>3, <1>4, <1>5, <1>6, <1>7, <1>8, <1>9, <1>10 DEF Next

-----------------------------------------------------------------------------
(* The yard reads an expression that has a meaning.                        *)

\* The tokens taken are the first of e, and all of e once there are no more.
Before(e) ==
    /\ Len(expr) <= Len(e)
    /\ \A k \in 1 .. Len(expr) : expr[k] = e[k]
    /\ pc \in {"flush", "evaluate", "done"} => Len(expr) = Len(e)

Idle == turn = 0 /\ args = <<>>

\* prev says whether an operand is to come.
PrevInv ==
    /\ prev \in BOOLEAN
    /\ pc = "tokens" /\ prev = TRUE => Len(expr) = 0 \/ expr[Len(expr)] \notin Ends
    /\ pc = "tokens" /\ prev = FALSE => Len(expr) > 0 /\ expr[Len(expr)] \in Ends
    /\ pc = "operator" => expr[Len(expr)] \in Operators

Reading(e) ==
    /\ Idle
    /\ prev = TRUE => Expecting(e, stack, queue, Len(expr))
    /\ prev = FALSE => Holding(e, stack, queue, Len(expr), "atom")

\* What has been read to the left of the operator in the hand.
HandAt(e) == hand.at = Len(expr) /\ hand.at \in 1 .. Len(e) /\ e[hand.at] = Token(hand.sym)

\* A term has been read that the top of the stack may take, and an operator.
Held(e, s, q, k) == \E level \in Levels : /\ Looseness(level) <= Looseness(Room(s))
                                          /\ Holding(e, s, q, k, level)

HeldFor(e, s, q, k, sym) ==
    \E level \in Levels : /\ Looseness(level) <= Looseness(Room(s))
                          /\ Looseness(level) <= Looseness(Made(sym))
                          /\ Holding(e, s, q, k, level)

Choosing(e) ==
    /\ Idle /\ HandAt(e)
    /\ \/ hand.sym = "u-" /\ Expecting(e, stack, queue, Len(expr) - 1)
       \/ hand.sym \in Operators /\ HeldFor(e, stack, queue, Len(expr) - 1, hand.sym)

Closing(e) == /\ Idle /\ Len(expr) \in 1 .. Len(e) /\ e[Len(expr)] = ")"
              /\ Held(e, stack, queue, Len(expr) - 1)

Flushing(e) == Idle /\ Held(e, stack, queue, Len(expr))

Evaluation(e) ==
    \E h : \E t \in Meanings(e) :
        /\ Run(e, queue, h) /\ h[Len(queue)] = <<t>>
        /\ turn \in 0 .. Len(queue) /\ args = h[turn]

Evaluated(e) == error = "operand" \/ (error = "none" /\ \E t \in Meanings(e) : args = <<t>>)

Progress(e) ==
    /\ pc = "tokens" => Reading(e)
    /\ pc = "operator" => Choosing(e)
    /\ pc = "close" => Closing(e)
    /\ pc = "flush" => Flushing(e)
    /\ pc = "evaluate" => Evaluation(e)
    /\ pc = "done" => Evaluated(e)

Meaningful(e) == e \in Seq(Tokens) /\ Meanings(e) # {}

MeaningInv == \A e : Meaningful(e) /\ Before(e) => Progress(e)

\* The shape of an expression with a meaning.
LEMMA MeaningfulShape ==
    ASSUME NEW e, Meaningful(e)
    PROVE  /\ e \in Seq(Tokens) /\ Len(e) \in Nat /\ Len(e) > 0
           /\ \A k \in 1 .. Len(e) : e[k] \in Tokens
           /\ e[1] \in Starts /\ e[Len(e)] \in Ends
           /\ \A k \in 2 .. Len(e) : Follows(e, k)
           /\ \A k \in 0 .. Len(e) : Depth(e, k) >= 0
           /\ Depth(e, Len(e)) = 0
  <1>1. e \in Seq(Tokens) /\ Len(e) \in Nat /\ Len(e) > 0 /\ e # <<>>
        /\ \A k \in 1 .. Len(e) : e[k] \in Tokens
    BY EmptySeq, LenProperties, ElementOfSeq DEF Meaningful, Meanings
  <1>2. Of(e, "sum", 1, Len(e)) # {}
    BY <1>1 DEF Meaningful, Meanings, Of
  <1>3. Shape(e, "sum", 1, Len(e))
    BY <1>1, <1>2, HasShape DEF Levels
  <1>4. 1 - 1 = 0 /\ 1 + 1 = 2 /\ Depth(e, 0) = 0
    BY DepthStep
  <1>5. \A k \in 1 .. Len(e) : Depth(e, k) >= 0
    BY <1>3, <1>4 DEF Shape, Ranged
  <1>6. QED
    BY <1>1, <1>3, <1>4, <1>5 DEF Shape, Ranged

-----------------------------------------------------------------------------
(* The tokens are taken.                                                   *)

\* At the start an operand is to come.
LEMMA PrevInit == Init => PrevInv
  BY EmptySeq DEF Init, PrevInv

\* What prev must be after a token.
LEMMA PrevKnown ==
    ASSUME pc' = "tokens",
           \/ prev' = TRUE /\ expr'[Len(expr')] \notin Ends
           \/ prev' = FALSE /\ Len(expr') > 0 /\ expr'[Len(expr')] \in Ends
    PROVE  PrevInv'
  <1>1. CASE prev' = TRUE /\ expr'[Len(expr')] \notin Ends
    BY <1>1, Zenon DEF PrevInv
  <1>2. CASE prev' = FALSE /\ Len(expr') > 0 /\ expr'[Len(expr')] \in Ends
    BY <1>2, Zenon DEF PrevInv
  <1>3. QED
    BY <1>1, <1>2

\* prevWasOpOrStart follows the last token taken.
LEMMA PrevStep == YardInv /\ ParenInv /\ PrevInv /\ [Next]_vars => PrevInv'
  <1> SUFFICES ASSUME YardInv, ParenInv, PrevInv, [Next]_vars PROVE PrevInv'
    OBVIOUS
  <1>1. CASE TakeOperand
    <2>1. Take("x") /\ "x" \in Tokens /\ prev' = FALSE
      BY <1>1 DEF TakeOperand, Tokens
    <2>2. Len(expr) \in Nat /\ Len(expr') = Len(expr) + 1 /\ expr'[Len(expr) + 1] = "x"
      BY <2>1, TakeStep
    <2>3. Len(expr') > 0 /\ expr'[Len(expr')] \in Ends
      BY <2>2 DEF Ends
    <2>4. pc' = "tokens"
      BY <1>1 DEF TakeOperand, Take
    <2>5. QED
      BY <2>1, <2>3, <2>4, PrevKnown
  <1>2. CASE TakeOpen
    <2>1. Take("(") /\ "(" \in Tokens /\ prev' = TRUE
      BY <1>2 DEF TakeOpen, Tokens
    <2>2. Len(expr) \in Nat /\ Len(expr') = Len(expr) + 1 /\ expr'[Len(expr) + 1] = "("
      BY <2>1, TakeStep
    <2>3. Len(expr') > 0 /\ expr'[Len(expr')] \notin Ends
      BY <2>2 DEF Ends
    <2>4. pc' = "tokens"
      BY <1>2 DEF TakeOpen, Take
    <2>5. QED
      BY <2>1, <2>3, <2>4, PrevKnown
  <1>3. CASE TakeClose
    BY <1>3 DEF TakeClose, PrevInv
  <1>4. CASE TakeOperator
    <2>1. PICK sym \in Operators : Take(sym) /\ prev' = prev /\ pc' = "operator"
      BY <1>4 DEF TakeOperator
    <2>2. sym \in Tokens
      BY DEF Tokens
    <2>3. Len(expr') = Len(expr) + 1 /\ expr'[Len(expr) + 1] = sym
      BY <2>1, <2>2, TakeStep
    <2>4. QED
      BY <2>1, <2>3 DEF PrevInv
  <1>5. CASE ClosePop \/ OperatorPop \/ FlushPop
    <2>1. UNCHANGED <<expr, prev, pc>>
      BY <1>5 DEF ClosePop, OperatorPop, FlushPop
    <2>2. QED
      BY <2>1 DEF PrevInv
  <1>6. CASE CloseFound
    <2>1. expr' = expr /\ prev' = FALSE /\ Len(expr) > 0 /\ expr[Len(expr)] = ")"
      BY <1>6 DEF CloseFound, ParenInv, Searching
    <2>2. Len(expr') > 0 /\ expr'[Len(expr')] \in Ends /\ pc' = "tokens"
      BY <1>6, <2>1 DEF CloseFound, Ends
    <2>3. QED
      BY <2>1, <2>2, PrevKnown
  <1>7. CASE OperatorPush
    <2>1. expr' = expr /\ prev' = TRUE /\ pc = "operator" /\ pc' = "tokens"
      BY <1>7 DEF OperatorPush
    <2>2. expr[Len(expr)] \notin Ends
      BY <2>1, OperatorsAssumption DEF PrevInv, Ends
    <2>3. QED
      BY <2>1, <2>2 DEF PrevInv
  <1>8. CASE CloseMissing \/ FlushOpen \/ Unreadable \/ MissingArgs \/ End \/ Flushed \/ Finish
    BY <1>8 DEF CloseMissing, FlushOpen, Unreadable, MissingArgs, End, Flushed, Finish, Fail, yard,
                PrevInv
  <1>9. CASE PushOperand \/ Negate \/ Combine \/ UNCHANGED vars
    BY <1>9 DEF PushOperand, Negate, Combine, Push, vars, yard, PrevInv
  <1>10. QED
    BY <1>1, <1>2, <1>3, <1>4, <1>5, <1>6, <1>7, <1>8, <1>9 DEF Next

\* e was ahead of the yard before a step if it is after it.
LEMMA BeforeStep ==
    ASSUME YardInv, [Next]_vars, NEW e, Meaningful(e), Before(e)'
    PROVE  Before(e)
  <1>1. Len(e) \in Nat
    BY MeaningfulShape
  <1>2. CASE expr' = expr /\ (pc \in {"flush", "evaluate", "done"} => pc' \in {"flush", "evaluate", "done"})
    BY <1>2 DEF Before
  <1>3. CASE \E sym \in Tokens : Take(sym)
    <2>1. PICK sym \in Tokens : Take(sym)
      BY <1>3
    <2>2. /\ Len(expr) \in Nat /\ Len(expr') = Len(expr) + 1 /\ pc = "tokens"
          /\ \A k \in 1 .. Len(expr) : expr'[k] = expr[k]
      BY <2>1, TakeStep DEF Take
    <2>3. QED
      BY <1>1, <2>2 DEF Before
  <1>4. CASE TakeOperand \/ TakeOpen \/ TakeClose
    BY <1>3, <1>4 DEF TakeOperand, TakeOpen, TakeClose, Tokens
  <1>5. CASE TakeOperator
    BY <1>3, <1>5 DEF TakeOperator, Tokens
  <1>6. CASE ClosePop \/ CloseFound \/ CloseMissing \/ OperatorPop \/ OperatorPush
    BY <1>2, <1>6 DEF ClosePop, CloseFound, CloseMissing, OperatorPop, OperatorPush, Fail, yard
  <1>7. CASE End \/ FlushPop \/ FlushOpen \/ Flushed
    BY <1>2, <1>7 DEF End, FlushPop, FlushOpen, Flushed, Fail, yard
  <1>8. CASE PushOperand \/ Unreadable \/ Negate \/ Combine \/ MissingArgs \/ Finish
    BY <1>2, <1>8 DEF PushOperand, Unreadable, Negate, Combine, MissingArgs, Finish, Push, Fail, yard
  <1>9. CASE UNCHANGED vars
    BY <1>2, <1>9 DEF vars, yard
  <1>10. QED
    BY <1>4, <1>5, <1>6, <1>7, <1>8, <1>9 DEF Next

\* The token taken is the next of e, and one that may come there.
LEMMA NextToken ==
    ASSUME YardInv, PrevInv, NEW e, Meaningful(e), Before(e)', NEW sym \in Tokens, Take(sym)
    PROVE  /\ Len(expr) \in Nat /\ Len(expr) + 1 \in 1 .. Len(e)
           /\ Len(expr') = Len(expr) + 1 /\ (Len(expr) + 1) - 1 = Len(expr)
           /\ e[Len(expr) + 1] = sym
           /\ prev = TRUE \/ prev = FALSE
           /\ prev = TRUE => sym \in Starts
           /\ prev = FALSE => Len(expr) > 0 /\ sym \notin {"x", "("}
  <1> DEFINE p == Len(expr)
  <1>1. /\ p \in Nat /\ Len(expr') = p + 1 /\ expr'[p + 1] = sym
        /\ \A k \in 1 .. p : expr'[k] = expr[k]
    BY TakeStep
  <1>2. /\ Len(e) \in Nat /\ e[1] \in Starts /\ \A k \in 2 .. Len(e) : Follows(e, k)
    BY MeaningfulShape
  <1>3. p + 1 <= Len(e) /\ \A k \in 1 .. p + 1 : expr'[k] = e[k]
    BY <1>1 DEF Before
  <1>4. e[p + 1] = sym /\ (p > 0 => e[p] = expr[p])
    BY <1>1, <1>3
  <1>5. pc = "tokens"
    BY DEF Take
  <1>6. p > 0 => Follows(e, p + 1) /\ (p + 1) - 1 = p
    BY <1>1, <1>2, <1>3
  <1>7. prev = TRUE => sym \in Starts
    <2>1. CASE p = 0
      BY <1>2, <1>4, <2>1
    <2>2. CASE p > 0 /\ prev = TRUE
      <3>1. e[p] \notin Ends
        BY <1>4, <1>5, <2>2 DEF PrevInv
      <3>2. QED
        BY <1>4, <1>6, <2>2, <3>1 DEF Follows
    <2>3. QED
      BY <1>1, <2>1, <2>2
  <1>8. prev = FALSE => p > 0 /\ sym \notin {"x", "("}
    <2> SUFFICES ASSUME prev = FALSE PROVE p > 0 /\ sym \notin {"x", "("}
      OBVIOUS
    <2>1. p > 0 /\ e[p] \in Ends
      BY <1>4, <1>5 DEF PrevInv
    <2>2. QED
      BY <1>4, <1>6, <2>1 DEF Follows
  <1>9. prev = TRUE \/ prev = FALSE
    BY DEF PrevInv
  <1>10. QED
    BY <1>1, <1>3, <1>4, <1>7, <1>8, <1>9

\* A term that has been read has a place.
LEMMA HoldingPlace ==
    ASSUME NEW e, NEW s \in Seq(Items), NEW q, NEW k \in Int, NEW level, Holding(e, s, q, k, level)
    PROVE  k >= 1
  <1>1. Len(s) \in Nat
    BY LenProperties
  <1>2. At(s, Len(s)) \in Nat
    BY <1>1, AtNat
  <1>3. At(s, Len(s)) < k
    BY DEF Holding
  <1>4. QED
    BY <1>2, <1>3

\* The tightest term has room anywhere.
LEMMA AtomFits ==
    ASSUME NEW s, NEW sym
    PROVE  /\ "atom" \in Levels /\ Looseness("atom") <= Looseness(Room(s))
           /\ Looseness("atom") <= Looseness(Made(sym))
  <1>1. /\ "atom" \in Levels /\ Looseness("atom") = 0
        /\ \A level : Looseness(level) \in {0, 1, 2, 3}
    BY DEF Levels, Looseness
  <1>2. QED
    BY <1>1

-----------------------------------------------------------------------------
(* Step by step.                                                           *)

\* An operand: it is an atom.
LEMMA OperandProgress ==
    ASSUME YardInv, PrevInv, NEW e, Meaningful(e), Before(e)', Progress(e), TakeOperand
    PROVE  Progress(e)'
  <1> DEFINE p == Len(expr)
  <1>1. /\ "x" \in Tokens /\ Take("x") /\ pc = "tokens" /\ pc' = "tokens"
        /\ queue' = Append(queue, Item("x")) /\ stack' = stack /\ prev' = FALSE
        /\ UNCHANGED rpn
    BY DEF TakeOperand, Take, Tokens
  <1>2. /\ p \in Nat /\ p + 1 \in 1 .. Len(e) /\ Len(expr') = p + 1 /\ (p + 1) - 1 = p
        /\ e[p + 1] = "x" /\ prev = TRUE
    BY <1>1, NextToken
  <1>3. Idle /\ Expecting(e, stack, queue, p)
    BY <1>1, <1>2 DEF Progress, Reading
  <1>4. Len(e) \in Nat /\ stack \in Seq(Items) /\ queue \in Seq(Items)
    BY MeaningfulShape DEF YardInv, YardTypes
  <1>5. Holding(e, stack, Append(queue, [sym |-> "x", at |-> p + 1]), p + 1, "atom")
    BY <1>2, <1>3, <1>4, ReadOperand
  <1>6. Holding(e, stack', queue', Len(expr'), "atom")
    BY <1>1, <1>2, <1>5 DEF Item
  <1>7. Idle'
    BY <1>1, <1>3 DEF Idle, rpn
  <1>8. Reading(e)'
    BY <1>1, <1>6, <1>7 DEF Reading
  <1>9. QED
    BY <1>1, <1>8 DEF Progress

\* A "(": another operand is to come.
LEMMA OpenProgress ==
    ASSUME YardInv, PrevInv, NEW e, Meaningful(e), Before(e)', Progress(e), TakeOpen
    PROVE  Progress(e)'
  <1> DEFINE p == Len(expr)
             item == Item("(")
  <1>1. /\ "(" \in Tokens /\ Take("(") /\ pc = "tokens" /\ pc' = "tokens"
        /\ stack' = Append(stack, item) /\ queue' = queue /\ prev' = TRUE
        /\ UNCHANGED rpn
    BY DEF TakeOpen, Take, Tokens
  <1>2. /\ p \in Nat /\ p + 1 \in 1 .. Len(e) /\ Len(expr') = p + 1 /\ (p + 1) - 1 = p
        /\ e[p + 1] = "(" /\ prev = TRUE
    BY <1>1, NextToken
  <1>3. Idle /\ Expecting(e, stack, queue, p)
    BY <1>1, <1>2 DEF Progress, Reading
  <1>4. Len(e) \in Nat /\ stack \in Seq(Items) /\ queue \in Seq(Items)
    BY MeaningfulShape DEF YardInv, YardTypes
  <1>5. item \in Items /\ item.at = p + 1 /\ item.sym = "(" /\ item.sym \in Prefixes
        /\ Token(item.sym) = "("
    BY <1>2 DEF Item, Items, Symbols, Tokens, Prefixes, Token
  <1> HIDE DEF item
  <1>6. Expecting(e, Append(stack, item), queue, item.at)
    <2>1. item.at \in 1 .. Len(e) /\ item.at - 1 = p /\ e[item.at] = Token(item.sym)
      BY <1>2, <1>5
    <2>2. Expecting(e, stack, queue, item.at - 1)
      BY <1>3, <2>1
    <2>3. QED
      BY <1>4, <1>5, <2>1, <2>2, StackPrefix
  <1>7. Expecting(e, stack', queue', Len(expr'))
    BY <1>1, <1>2, <1>5, <1>6
  <1>8. Idle'
    BY <1>1, <1>3 DEF Idle, rpn
  <1>9. Reading(e)'
    BY <1>1, <1>7, <1>8 DEF Reading
  <1>10. QED
    BY <1>1, <1>9 DEF Progress

\* A ")": the operand before it is in the hand.
LEMMA CloseProgress ==
    ASSUME YardInv, PrevInv, NEW e, Meaningful(e), Before(e)', Progress(e), TakeClose
    PROVE  Progress(e)'
  <1> DEFINE p == Len(expr)
  <1>1. /\ ")" \in Tokens /\ Take(")") /\ pc = "tokens" /\ pc' = "close"
        /\ UNCHANGED <<stack, queue, rpn>>
    BY DEF TakeClose, Take, Tokens
  <1>2. /\ p \in Nat /\ p + 1 \in 1 .. Len(e) /\ Len(expr') = p + 1 /\ (p + 1) - 1 = p
        /\ e[p + 1] = ")" /\ prev = FALSE /\ p > 0
    BY <1>1, NextToken DEF Starts
  <1>3. Idle /\ Holding(e, stack, queue, p, "atom")
    BY <1>1, <1>2 DEF Progress, Reading
  <1>4. Held(e, stack, queue, p)
    BY <1>3, AtomFits DEF Held
  <1>5. Held(e, stack', queue', Len(expr') - 1)
    BY <1>1, <1>2, <1>4
  <1>6. Idle'
    BY <1>1, <1>3 DEF Idle, rpn
  <1>7. Len(expr') \in 1 .. Len(e) /\ e[Len(expr')] = ")"
    BY <1>2
  <1>8. Closing(e)'
    BY <1>5, <1>6, <1>7 DEF Closing
  <1>9. QED
    BY <1>1, <1>8 DEF Progress

\* An operator: a sign if an operand is to come, binary if one is there.
LEMMA HandProgress ==
    ASSUME YardInv, PrevInv, NEW e, Meaningful(e), Before(e)', Progress(e), TakeOperator
    PROVE  Progress(e)'
  <1> DEFINE p == Len(expr)
  <1>1. PICK sym \in Operators : /\ Take(sym) /\ hand' = Item(Signed(sym)) /\ pc' = "operator"
                                 /\ UNCHANGED <<queue, stack, prev>>
    BY DEF TakeOperator
  <1>2. sym \in Tokens /\ sym \notin {"x", "(", "u-"} /\ pc = "tokens" /\ UNCHANGED rpn
    BY <1>1, OperatorsAssumption DEF Tokens, Take
  <1>3. /\ p \in Nat /\ p + 1 \in 1 .. Len(e) /\ Len(expr') = p + 1 /\ (p + 1) - 1 = p
        /\ e[p + 1] = sym /\ (prev = TRUE \/ prev = FALSE) /\ (prev = TRUE => sym \in Starts)
    BY <1>1, <1>2, NextToken
  <1>4. hand' = [sym |-> Signed(sym), at |-> p + 1]
    BY <1>1 DEF Item
  <1>5. HandAt(e)'
    <2>1. Token(Signed(sym)) = sym
      BY <1>2 DEF Token, Signed
    <2>2. QED
      BY <1>3, <1>4, <2>1 DEF HandAt
  <1>6. CASE prev = TRUE
    <2>1. sym = "-"
      BY <1>2, <1>3, <1>6 DEF Starts
    <2>2. Signed(sym) = "u-"
      BY <1>6, <2>1 DEF Signed
    <2>3. Idle /\ Expecting(e, stack, queue, p)
      BY <1>2, <1>6 DEF Progress, Reading
    <2>4. hand'.sym = "u-" /\ Expecting(e, stack', queue', Len(expr') - 1)
      BY <1>1, <1>3, <1>4, <2>2, <2>3
    <2>5. Idle'
      BY <1>2, <2>3 DEF Idle, rpn
    <2>6. Choosing(e)'
      BY <1>5, <2>4, <2>5 DEF Choosing
    <2>7. QED
      BY <1>1, <2>6 DEF Progress
  <1>7. CASE prev = FALSE
    <2>1. Signed(sym) = sym
      BY <1>7 DEF Signed
    <2>2. Idle /\ Holding(e, stack, queue, p, "atom")
      BY <1>2, <1>7 DEF Progress, Reading
    <2>3. HeldFor(e, stack, queue, p, sym)
      BY <2>2, AtomFits DEF HeldFor
    <2>4. hand'.sym \in Operators /\ HeldFor(e, stack', queue', Len(expr') - 1, hand'.sym)
      BY <1>1, <1>3, <1>4, <2>1, <2>3
    <2>5. Idle'
      BY <1>2, <2>2 DEF Idle, rpn
    <2>6. Choosing(e)'
      BY <1>5, <2>4, <2>5 DEF Choosing
    <2>7. QED
      BY <1>1, <2>6 DEF Progress
  <1>8. QED
    BY <1>3, <1>6, <1>7

\* An operator leaves the stack and makes a term the rest has room for.
LEMMA PopHeld ==
    ASSUME NEW e, Len(e) \in Nat, NEW s \in Seq(Items), NEW q \in Seq(Items),
           NEW k \in Int, k <= Len(e), Held(e, s, q, k), s # <<>>, Top(s).sym # "("
    PROVE  /\ Held(e, Rest(s), Append(q, Top(s)), k)
           /\ Holding(e, Rest(s), Append(q, Top(s)), k, Made(Top(s).sym))
           /\ Made(Top(s).sym) \in Levels
           /\ Looseness(Made(Top(s).sym)) <= Looseness(Room(Rest(s)))
           /\ Top(s).sym \in {"u-"} \cup Operators
  <1>1. PICK level \in Levels : /\ Looseness(level) <= Looseness(Room(s))
                                /\ Holding(e, s, q, k, level)
    BY DEF Held
  <1>2. k \in 1 .. Len(e)
    BY <1>1, HoldingPlace
  <1>3. /\ Holding(e, Rest(s), Append(q, Top(s)), k, Made(Top(s).sym))
        /\ Looseness(Made(Top(s).sym)) <= Looseness(Room(Rest(s)))
        /\ Made(Top(s).sym) \in Levels /\ Top(s).sym \in {"u-"} \cup Operators
    BY <1>1, <1>2, PopOperator
  <1>4. QED
    BY <1>3 DEF Held

\* A ")" takes the operators down to its "(".
LEMMA ClosePopProgress ==
    ASSUME YardInv, NEW e, Meaningful(e), Before(e), Progress(e), ClosePop
    PROVE  Progress(e)'
  <1>1. /\ pc = "close" /\ pc' = "close" /\ stack # <<>> /\ Top(stack).sym # "("
        /\ queue' = Append(queue, Top(stack)) /\ stack' = Rest(stack)
        /\ expr' = expr /\ UNCHANGED rpn
    BY DEF ClosePop, PopToQueue
  <1>2. Closing(e) /\ Len(e) \in Nat /\ stack \in Seq(Items) /\ queue \in Seq(Items)
    BY <1>1, MeaningfulShape DEF Progress, YardInv, YardTypes
  <1>3. Held(e, stack', queue', Len(expr') - 1)
    <2>1. Len(expr) - 1 \in Int /\ Len(expr) - 1 <= Len(e)
      BY <1>2 DEF Closing
    <2>2. Held(e, Rest(stack), Append(queue, Top(stack)), Len(expr) - 1)
      BY <1>1, <1>2, <2>1, PopHeld DEF Closing
    <2>3. QED
      BY <1>1, <2>2
  <1>4. Closing(e)'
    BY <1>1, <1>2, <1>3 DEF Closing, Idle, rpn
  <1>5. QED
    BY <1>1, <1>4 DEF Progress

\* At the end of the tokens the operators left are taken.
LEMMA FlushPopProgress ==
    ASSUME YardInv, NEW e, Meaningful(e), Before(e), Progress(e), FlushPop
    PROVE  Progress(e)'
  <1>1. /\ pc = "flush" /\ pc' = "flush" /\ stack # <<>> /\ Top(stack).sym # "("
        /\ queue' = Append(queue, Top(stack)) /\ stack' = Rest(stack)
        /\ expr' = expr /\ UNCHANGED rpn
    BY DEF FlushPop, PopToQueue
  <1>2. Flushing(e) /\ Len(e) \in Nat /\ stack \in Seq(Items) /\ queue \in Seq(Items)
        /\ Len(expr) = Len(e)
    BY <1>1, MeaningfulShape DEF Progress, YardInv, YardTypes, Before
  <1>3. Held(e, stack', queue', Len(expr'))
    <2>1. Held(e, Rest(stack), Append(queue, Top(stack)), Len(expr))
      BY <1>1, <1>2, PopHeld DEF Flushing
    <2>2. QED
      BY <1>1, <2>1
  <1>4. Flushing(e)'
    BY <1>1, <1>2, <1>3 DEF Flushing, Idle, rpn
  <1>5. QED
    BY <1>1, <1>4 DEF Progress

\* An operator takes those that bind at least as tightly.
LEMMA OperatorPopProgress ==
    ASSUME YardInv, NEW e, Meaningful(e), Before(e), Progress(e), OperatorPop
    PROVE  Progress(e)'
  <1> DEFINE top == Top(stack).sym
             tok == hand.sym
             k == Len(expr) - 1
  <1>1. /\ pc = "operator" /\ pc' = "operator" /\ stack # <<>> /\ top # "("
        /\ queue' = Append(queue, Top(stack)) /\ stack' = Rest(stack) /\ BindsFirst(top, tok)
        /\ expr' = expr /\ hand' = hand /\ UNCHANGED rpn
    BY DEF OperatorPop, PopToQueue, Yields
  <1>2. /\ Choosing(e) /\ Len(e) \in Nat /\ stack \in Seq(Items) /\ queue \in Seq(Items)
        /\ k \in Int /\ k <= Len(e)
    <2>1. Choosing(e) /\ Len(e) \in Nat /\ stack \in Seq(Items) /\ queue \in Seq(Items)
      BY <1>1, MeaningfulShape DEF Progress, YardInv, YardTypes
    <2>2. Len(expr) \in 1 .. Len(e)
      BY <2>1 DEF Choosing, HandAt
    <2>3. QED
      BY <2>1, <2>2
  <1>3. tok # "u-"
    <2>1. getPrecedence("u-") = 3 /\ getPrecedence(top) <= 3
      BY DEF getPrecedence
    <2>2. QED
      BY <1>1, <2>1 DEF BindsFirst, getPrecedence
  <1>4. tok \in Operators /\ HeldFor(e, stack, queue, k, tok)
    BY <1>2, <1>3 DEF Choosing
  <1>5. Held(e, stack, queue, k)
    BY <1>4 DEF Held, HeldFor
  <1>6. /\ Holding(e, Rest(stack), Append(queue, Top(stack)), k, Made(top))
        /\ Made(top) \in Levels /\ Looseness(Made(top)) <= Looseness(Room(Rest(stack)))
        /\ top \in {"u-"} \cup Operators
    <2> HIDE DEF k
    <2>1. QED
      BY <1>1, <1>2, <1>5, PopHeld
  <1>7. Looseness(Made(top)) <= Looseness(Made(tok))
    <2>1. getPrecedence(tok) <= getPrecedence(top)
      BY <1>1 DEF BindsFirst, getPrecedence
    <2>2. top \in {"u-", "+", "-", "*", "/"} /\ tok \in {"+", "-", "*", "/"}
      BY <1>4, <1>6, OperatorsAssumption
    <2> HIDE DEF top, tok
    <2>3. QED
      BY <2>1, <2>2 DEF Made, Looseness, getPrecedence
  <1>8. HeldFor(e, Rest(stack), Append(queue, Top(stack)), k, tok)
    BY <1>6, <1>7 DEF HeldFor
  <1>9. hand'.sym \in Operators /\ HeldFor(e, stack', queue', Len(expr') - 1, hand'.sym)
    BY <1>1, <1>4, <1>8
  <1>10. Choosing(e)'
    BY <1>1, <1>2, <1>9 DEF Choosing, HandAt, Idle, rpn
  <1>11. QED
    BY <1>1, <1>10 DEF Progress

\* It waits on the stack for its right operand.
LEMMA PushProgress ==
    ASSUME YardInv, NEW e, Meaningful(e), Before(e), Progress(e), OperatorPush
    PROVE  Progress(e)'
  <1>1. /\ pc = "operator" /\ pc' = "tokens" /\ ~ Yields /\ prev' = TRUE
        /\ queue' = queue /\ stack' = Append(stack, hand)
        /\ expr' = expr /\ hand' = hand /\ UNCHANGED rpn
    BY DEF OperatorPush
  <1>2. /\ Choosing(e) /\ Len(e) \in Nat /\ stack \in Seq(Items) /\ queue \in Seq(Items)
        /\ hand \in Items
    BY <1>1, MeaningfulShape DEF Progress, YardInv, YardTypes
  <1>3. /\ hand.at = Len(expr) /\ hand.at \in 1 .. Len(e) /\ e[hand.at] = Token(hand.sym)
        /\ Idle
    BY <1>2 DEF Choosing, HandAt
  <1>4. Expecting(e, Append(stack, hand), queue, hand.at)
    <2>1. CASE hand.sym = "u-" /\ Expecting(e, stack, queue, Len(expr) - 1)
      <3>1. hand.sym \in Prefixes /\ Expecting(e, stack, queue, hand.at - 1)
        BY <1>3, <2>1 DEF Prefixes
      <3>2. QED
        BY <1>2, <1>3, <3>1, StackPrefix
    <2>2. CASE hand.sym \in Operators /\ HeldFor(e, stack, queue, Len(expr) - 1, hand.sym)
      <3>1. PICK level \in Levels : /\ Looseness(level) <= Looseness(Made(hand.sym))
                                    /\ Holding(e, stack, queue, hand.at - 1, level)
        BY <1>3, <2>2 DEF HeldFor
      <3>2. hand.sym # "u-" /\ Token(hand.sym) = hand.sym
        BY <2>2, OperatorsAssumption DEF Token
      <3>3. \/ stack = <<>> \/ Top(stack).sym = "("
            \/ getPrecedence(Top(stack).sym) < getPrecedence(hand.sym)
        <4>1. \A sym : getPrecedence(sym) \in {0, 1, 2, 3}
          BY DEF getPrecedence
        <4>2. QED
          BY <1>1, <3>2, <4>1 DEF Yields, BindsFirst
      <3>4. e[hand.at] = hand.sym
        BY <1>3, <3>2
      <3>5. QED
        BY <1>2, <1>3, <2>2, <3>1, <3>3, <3>4, StackBinary
    <2>3. QED
      BY <1>2, <2>1, <2>2 DEF Choosing
  <1>5. Expecting(e, stack', queue', Len(expr'))
    BY <1>1, <1>3, <1>4
  <1>6. Reading(e)'
    BY <1>1, <1>3, <1>5 DEF Reading, Idle, rpn
  <1>7. QED
    BY <1>1, <1>6 DEF Progress

\* The "(" is found: the parenthesis is an atom.
LEMMA FoundProgress ==
    ASSUME YardInv, NEW e, Meaningful(e), Before(e), Progress(e), CloseFound
    PROVE  Progress(e)'
  <1>1. /\ pc = "close" /\ pc' = "tokens" /\ stack # <<>> /\ Top(stack).sym = "("
        /\ queue' = queue /\ stack' = Rest(stack) /\ prev' = FALSE
        /\ expr' = expr /\ UNCHANGED rpn
    BY DEF CloseFound
  <1>2. Closing(e) /\ Len(e) \in Nat /\ stack \in Seq(Items) /\ queue \in Seq(Items)
    BY <1>1, MeaningfulShape DEF Progress, YardInv, YardTypes
  <1>3. PICK level \in Levels : Holding(e, stack, queue, Len(expr) - 1, level)
    BY <1>2 DEF Closing, Held
  <1>4. Holding(e, Rest(stack), queue, Len(expr), "atom")
    BY <1>1, <1>2, <1>3, CloseParen DEF Closing
  <1>5. Reading(e)'
    BY <1>1, <1>2, <1>4 DEF Reading, Closing, Idle, rpn
  <1>6. QED
    BY <1>1, <1>5 DEF Progress

\* The parentheses of the tokens taken are those of e.
LEMMA DepthAhead ==
    ASSUME YardInv, NEW e, Meaningful(e), Before(e)
    PROVE  /\ Len(expr) \in Nat /\ Depth(expr, Len(expr)) = Depth(e, Len(expr))
           /\ Depth(e, Len(expr)) >= 0
           /\ Len(expr) = Len(e) => Depth(e, Len(expr)) = 0
  <1>1. Len(expr) \in Nat
    BY LenProperties DEF YardInv, YardTypes
  <1>2. \A k \in 0 .. Len(expr) : Depth(expr, k) = Depth(e, k)
    BY <1>1, DepthSame DEF Before
  <1>3. Len(expr) \in 0 .. Len(e)
    BY <1>1, MeaningfulShape DEF Before
  <1>4. QED
    BY <1>1, <1>2, <1>3, MeaningfulShape

\* No ")" is without its "(", no "(" without its ")".
LEMMA NoneMissing ==
    ASSUME YardInv, ParenInv, NEW e, Meaningful(e), Before(e), CloseMissing
    PROVE  FALSE
  <1>1. stack = <<>> /\ Searching
    BY DEF CloseMissing, ParenInv
  <1>2. Opens(stack) = 0 /\ Opens(stack) = Depth(expr, Len(expr)) + 1
    BY <1>1, OpensNone DEF Searching
  <1>3. Depth(expr, Len(expr)) >= 0 /\ Depth(expr, Len(expr)) \in Int
    BY DepthAhead, DepthStep
  <1>4. QED
    BY <1>2, <1>3

LEMMA NoneOpen ==
    ASSUME YardInv, ParenInv, NEW e, Meaningful(e), Before(e), FlushOpen
    PROVE  FALSE
  <1>1. /\ stack # <<>> /\ Top(stack).sym = "(" /\ Matched /\ Len(expr) = Len(e)
        /\ stack \in Seq(Items)
    BY DEF FlushOpen, ParenInv, Before, YardInv, YardTypes
  <1>2. Opens(stack) = 0
    BY <1>1, DepthAhead DEF Matched
  <1>3. Opens(Rest(stack)) = Opens(stack) - 1
    BY <1>1, OpensRest
  <1>4. Opens(Rest(stack)) \in Nat
    <2>1. Rest(stack) \in Seq(Items)
      BY <1>1, RestOfStack
    <2>2. NoItem \in Items
      BY DEF NoItem, Items, Symbols, Tokens
    <2>3. QED
      BY <2>1, <2>2, OpensAppend
  <1>5. QED
    BY <1>2, <1>3, <1>4

\* The tokens of e end after an operand.
LEMMA EndProgress ==
    ASSUME YardInv, PrevInv, NEW e, Meaningful(e), Before(e)', Progress(e), End
    PROVE  Progress(e)'
  <1>1. /\ pc = "tokens" /\ pc' = "flush" /\ UNCHANGED <<expr, stack, queue, prev, rpn>>
    BY DEF End, yard
  <1>2. Len(expr) = Len(e) /\ \A k \in 1 .. Len(expr) : expr[k] = e[k]
    BY <1>1 DEF Before
  <1>3. Len(e) \in Nat /\ Len(e) > 0 /\ e[Len(e)] \in Ends
    BY MeaningfulShape
  <1>4. prev = FALSE
    <2>1. expr[Len(expr)] \in Ends /\ Len(expr) # 0
      BY <1>2, <1>3
    <2>2. QED
      BY <1>1, <2>1, Zenon DEF PrevInv
  <1>5. Idle /\ Holding(e, stack, queue, Len(expr), "atom")
    BY <1>1, <1>4 DEF Progress, Reading
  <1>6. Held(e, stack', queue', Len(expr'))
    BY <1>1, <1>5, AtomFits DEF Held
  <1>7. Flushing(e)'
    BY <1>1, <1>5, <1>6 DEF Flushing, Idle, rpn
  <1>8. QED
    BY <1>1, <1>7 DEF Progress

\* With the stack empty, the queue computes a meaning of e.
LEMMA FlushedProgress ==
    ASSUME YardInv, NEW e, Meaningful(e), Before(e), Progress(e), Flushed
    PROVE  Progress(e)'
  <1>1. /\ pc = "flush" /\ pc' = "evaluate" /\ stack = <<>>
        /\ UNCHANGED <<expr, queue, rpn>>
    BY DEF Flushed, yard
  <1>2. /\ Idle /\ Held(e, <<>>, queue, Len(e)) /\ queue \in Seq(Items)
        /\ e \in Seq(Tokens) /\ Len(e) > 0
    BY <1>1, MeaningfulShape DEF Progress, Flushing, Before, YardInv, YardTypes
  <1>3. PICK t \in Meanings(e) : Computes(e, queue, <<t>>)
    BY <1>2, WholeRead DEF Held
  <1>4. PICK h : Run(e, queue, h) /\ h[Len(queue)] = <<t>>
    BY <1>3 DEF Computes
  <1>5. turn = 0 /\ args = h[0] /\ Len(queue) \in Nat
    BY <1>2, <1>4, LenProperties DEF Idle, Run
  <1>6. Run(e, queue', h) /\ h[Len(queue')] = <<t>> /\ turn' \in 0 .. Len(queue') /\ args' = h[turn']
    BY <1>1, <1>4, <1>5 DEF rpn
  <1>7. Evaluation(e)'
    BY <1>6 DEF Evaluation
  <1>8. QED
    BY <1>1, <1>7 DEF Progress

\* evaluateRPN takes the next item.
LEMMA TurnProgress ==
    ASSUME YardInv, NEW e, Progress(e), Evaluating, pc' = pc, queue' = queue, turn' = turn + 1,
           args' = Reduced(args, Current)
    PROVE  Progress(e)'
  <1>1. pc = "evaluate" /\ turn < Len(queue) /\ Evaluation(e)
    BY DEF Evaluating, Progress
  <1>2. PICK h : \E t \in Meanings(e) :
          /\ Run(e, queue, h) /\ h[Len(queue)] = <<t>>
          /\ turn \in 0 .. Len(queue) /\ args = h[turn]
    BY <1>1 DEF Evaluation
  <1>3. PICK t \in Meanings(e) : h[Len(queue)] = <<t>>
    BY <1>2
  <1>4. Len(queue) \in Nat
    BY LenProperties DEF YardInv, YardTypes
  <1>5. turn + 1 \in 1 .. Len(queue) /\ (turn + 1) - 1 = turn
    BY <1>1, <1>2, <1>4
  <1>6. h[turn + 1] = Reduced(h[turn], queue[turn + 1])
    BY <1>2, <1>5 DEF Run
  <1>7. /\ Run(e, queue', h) /\ h[Len(queue')] = <<t>>
        /\ turn' \in 0 .. Len(queue') /\ args' = h[turn']
    BY <1>2, <1>4, <1>5, <1>6, <1>3 DEF Current
  <1>8. Evaluation(e)'
    BY <1>7 DEF Evaluation
  <1>9. QED
    BY <1>1, <1>8 DEF Progress

\* Every item finds its arguments.
LEMMA NoneShort ==
    ASSUME YardInv, NEW e, Progress(e), MissingArgs
    PROVE  FALSE
  <1>1. /\ pc = "evaluate" /\ turn < Len(queue) /\ Evaluation(e)
        /\ Current.sym \in Operators \cup {"u-"} /\ Len(args) < Arity(Current.sym)
    BY DEF MissingArgs, Evaluating, Progress
  <1>2. PICK h : \E t \in Meanings(e) :
          Run(e, queue, h) /\ turn \in 0 .. Len(queue) /\ args = h[turn]
    BY <1>1 DEF Evaluation
  <1>3. Len(queue) \in Nat
    BY LenProperties DEF YardInv, YardTypes
  <1>4. turn + 1 \in 1 .. Len(queue) /\ (turn + 1) - 1 = turn
    BY <1>1, <1>2, <1>3
  <1>5. Len(args) >= Needs(Current.sym) /\ args \in Seq(AllTerms(e))
    BY <1>2, <1>4 DEF Run, Current
  <1>6. Needs(Current.sym) = Arity(Current.sym) /\ Arity(Current.sym) \in Nat
    BY <1>1, OperatorsAssumption DEF Needs, Arity
  <1>7. Len(args) \in Nat
    BY <1>5, LenProperties
  <1>8. QED
    BY <1>1, <1>5, <1>6, <1>7

\* The last term left is the meaning of e.
LEMMA FinishProgress ==
    ASSUME YardInv, NEW e, Progress(e), Finish
    PROVE  Progress(e)'
  <1>1. /\ pc = "evaluate" /\ pc' = "done" /\ turn = Len(queue) /\ args' = args
        /\ error' = (IF Len(args) = 1 THEN "none" ELSE "leftover") /\ Evaluation(e)
    BY DEF Finish, Progress, rpn
  <1>2. PICK h : \E t \in Meanings(e) : h[Len(queue)] = <<t>> /\ args = h[turn]
    BY <1>1 DEF Evaluation
  <1>3. PICK t \in Meanings(e) : h[Len(queue)] = <<t>>
    BY <1>2
  <1>4. args = <<t>> /\ Len(args) = 1
    BY <1>1, <1>2, <1>3
  <1>5. Evaluated(e)'
    BY <1>1, <1>2, <1>4 DEF Evaluated
  <1>6. QED
    BY <1>1, <1>5 DEF Progress

\* Every step of the evaluator keeps the invariant of the meaning.
LEMMA MeaningStep ==
    YardInv /\ ParenInv /\ PrevInv /\ MeaningInv /\ [Next]_vars => MeaningInv'
  <1> SUFFICES ASSUME YardInv, ParenInv, PrevInv, MeaningInv, [Next]_vars,
                      NEW e, Meaningful(e), Before(e)'
               PROVE  Progress(e)'
    BY DEF MeaningInv
  <1>1. Before(e)
    BY BeforeStep
  <1>2. Progress(e)
    BY <1>1 DEF MeaningInv
  <1>3. CASE TakeOperand
    BY <1>2, <1>3, OperandProgress
  <1>4. CASE TakeOpen
    BY <1>2, <1>4, OpenProgress
  <1>5. CASE TakeClose
    BY <1>2, <1>5, CloseProgress
  <1>6. CASE TakeOperator
    BY <1>2, <1>6, HandProgress
  <1>7. CASE ClosePop
    BY <1>1, <1>2, <1>7, ClosePopProgress
  <1>8. CASE CloseFound
    BY <1>1, <1>2, <1>8, FoundProgress
  <1>9. CASE CloseMissing
    BY <1>1, <1>9, NoneMissing
  <1>10. CASE OperatorPop
    BY <1>1, <1>2, <1>10, OperatorPopProgress
  <1>11. CASE OperatorPush
    BY <1>1, <1>2, <1>11, PushProgress
  <1>12. CASE End
    BY <1>2, <1>12, EndProgress
  <1>13. CASE FlushPop
    BY <1>1, <1>2, <1>13, FlushPopProgress
  <1>14. CASE FlushOpen
    BY <1>1, <1>14, NoneOpen
  <1>15. CASE Flushed
    BY <1>1, <1>2, <1>15, FlushedProgress
  <1>16. CASE PushOperand
    <2>1. /\ Evaluating /\ pc' = pc /\ queue' = queue /\ turn' = turn + 1
          /\ args' = Reduced(args, Current)
      BY <1>16 DEF PushOperand, Push, Reduced, Needs, Computed, yard
    <2>2. QED
      BY <1>2, <2>1, TurnProgress
  <1>17. CASE Negate
    <2>1. /\ Evaluating /\ pc' = pc /\ queue' = queue /\ turn' = turn + 1
          /\ args' = Reduced(args, Current)
      BY <1>17 DEF Negate, Push, Reduced, Needs, Arity, Computed, yard
    <2>2. QED
      BY <1>2, <2>1, TurnProgress
  <1>18. CASE Combine
    <2>1. /\ Evaluating /\ pc' = pc /\ queue' = queue /\ turn' = turn + 1
          /\ args' = Append(SubSeq(args, 1, Len(args) - 2),
                            Binary(Current.sym, args[Len(args) - 1], Top(args)))
          /\ Current.sym \in Operators
      BY <1>18 DEF Combine, Push, yard
    <2>2. Current.sym # "x" /\ Current.sym # "u-"
      BY <2>1, OperatorsAssumption
    <2>3. args' = Reduced(args, Current)
      BY <2>1, <2>2 DEF Reduced, Needs, Arity, Computed
    <2>4. QED
      BY <1>2, <2>1, <2>3, TurnProgress
  <1>19. CASE Unreadable
    <2>1. pc' = "done" /\ error' = "operand"
      BY <1>19 DEF Unreadable, Fail
    <2>2. QED
      BY <2>1 DEF Progress, Evaluated
  <1>20. CASE MissingArgs
    BY <1>2, <1>20, NoneShort
  <1>21. CASE Finish
    BY <1>2, <1>21, FinishProgress
  <1>22. CASE UNCHANGED vars
    BY <1>2, <1>22 DEF vars, yard, rpn, Progress, Reading, Choosing, Closing, Flushing, Evaluation,
                       Evaluated, Idle, HandAt
  <1>23. QED
    BY <1>3, <1>4, <1>5, <1>6, <1>7, <1>8, <1>9, <1>10, <1>11, <1>12, <1>13, <1>14, <1>15, <1>16,
       <1>17, <1>18, <1>19, <1>20, <1>21, <1>22 DEF Next

\* At first an operand is to come.
LEMMA MeaningInit == Init => MeaningInv
  <1> SUFFICES ASSUME Init, NEW e PROVE Progress(e)
    BY DEF MeaningInv
  <1>1. Len(<<>>) = 0
    BY EmptySeq
  <1> DEFINE b == [j \in {0} |-> 0]
  <1>2. Frames(e, <<>>, <<>>, b)
    BY <1>1 DEF Frames
  <1>3. Len(<<>>) = b[Len(<<>>)] /\ At(<<>>, Len(<<>>)) = 0
    BY <1>1 DEF At
  <1> HIDE DEF b
  <1>4. Expecting(e, <<>>, <<>>, 0)
    BY <1>2, <1>3, ComputesNothing DEF Expecting
  <1>5. Reading(e)
    BY <1>1, <1>4 DEF Init, Reading, Idle
  <1>6. QED
    BY <1>5 DEF Init, Progress

\* At the end the invariants give the property.
LEMMA MeaningMeans == YardInv /\ ParenInv /\ MeaningInv => MeansArithmetic
  <1> SUFFICES ASSUME YardInv, ParenInv, MeaningInv, pc = "done"
               PROVE  /\ error # "operand" /\ Meanings(expr) # {} => Value = Meanings(expr)
                      /\ Value # {} => BalancedParens(expr)
    BY DEF MeansArithmetic
  <1>1. ASSUME error # "operand", Meanings(expr) # {} PROVE Value = Meanings(expr)
    <2>1. Meaningful(expr) /\ expr \in Seq(Tokens)
      BY <1>1 DEF Meaningful, YardInv, YardTypes
    <2>2. Before(expr)
      <3>1. Len(expr) \in Nat
        BY <2>1, LenProperties
      <3>2. QED
        BY <3>1 DEF Before
    <2>3. Evaluated(expr)
      BY <2>1, <2>2 DEF MeaningInv, Progress
    <2>4. PICK t \in Meanings(expr) : error = "none" /\ args = <<t>>
      BY <1>1, <2>3 DEF Evaluated
    <2>5. Value = {t}
      BY <2>4 DEF Value
    <2>6. Meanings(expr) = {t}
      BY <2>1, GrammarUnambiguous
    <2>7. QED
      BY <2>5, <2>6
  <1>2. Value # {} => BalancedParens(expr)
    BY ComputedBalanced
  <1>3. QED
    BY <1>1, <1>2

-----------------------------------------------------------------------------
(* Termination.                                                            *)

\* The items taken are those of the queue, the tokens those of the bound.
TurnInv ==
    /\ Len(expr) <= MaxTokens
    /\ turn \in Nat /\ turn <= Len(queue)

\* What the loops have left: a token is read, pushed, popped and evaluated,
\* and pc goes from loop to loop.
Phase(step) ==
    CASE step = "operator" -> 10
      [] step = "close" -> 6
      [] step = "tokens" -> 5
      [] step = "flush" -> 4
      [] step = "evaluate" -> 3
      [] OTHER -> 0

StepsLeft ==
    6 * (MaxTokens - Len(expr)) + 3 * Len(stack) + (Len(queue) - turn) + Phase(pc)

\* Removing the top makes a sequence shorter by one.
LEMMA RestLength ==
    ASSUME NEW s \in Seq(Items), s # <<>>
    PROVE  Len(Rest(s)) = Len(s) - 1
  <1>1. /\ Len(s) \in Nat /\ Len(s) > 0
        /\ \A i \in 1 .. Len(s) : s[i] \in Items
    BY EmptySeq, LenProperties, ElementOfSeq
  <1>2. /\ Rest(s) \in Seq(Items) /\ Len(Rest(s)) = Len(s) - 1
        /\ \A i \in 1 .. Len(s) - 1 : Rest(s)[i] = s[i]
    BY <1>1, SubSeqProperties DEF Rest
  <1>3. QED
    BY <1>2

\* The lengths after the last item is removed and after one is added.
LEMMA Lengths ==
    ASSUME YardInv
    PROVE  /\ Len(expr) \in Nat /\ Len(queue) \in Nat /\ Len(stack) \in Nat
           /\ \A sym \in Tokens : Len(Append(expr, sym)) = Len(expr) + 1
           /\ \A i \in Items : /\ Len(Append(queue, i)) = Len(queue) + 1
                              /\ Len(Append(stack, i)) = Len(stack) + 1
           /\ stack # <<>> => /\ Top(stack) \in Items
                              /\ Len(Rest(stack)) = Len(stack) - 1
  <1>1. expr \in Seq(Tokens) /\ queue \in Seq(Items) /\ stack \in Seq(Items)
    BY DEF YardInv, YardTypes
  <1>2. Len(expr) \in Nat /\ Len(queue) \in Nat /\ Len(stack) \in Nat
    BY <1>1, LenProperties
  <1>3. \A sym \in Tokens : Len(Append(expr, sym)) = Len(expr) + 1
    BY <1>1, AppendProperties
  <1>4. \A i \in Items : /\ Len(Append(queue, i)) = Len(queue) + 1
                       /\ Len(Append(stack, i)) = Len(stack) + 1
    BY <1>1, AppendProperties
  <1>5. stack # <<>> => Top(stack) \in Items /\ Len(Rest(stack)) = Len(stack) - 1
    <2> SUFFICES ASSUME stack # <<>>
                 PROVE  Top(stack) \in Items /\ Len(Rest(stack)) = Len(stack) - 1
      OBVIOUS
    <2>1. Len(stack) > 0
      BY <1>1, <1>2, EmptySeq
    <2>2. Len(Rest(stack)) = Len(stack) - 1
      BY <1>1, RestLength
    <2>3. Top(stack) \in Items
      BY <1>1, <1>2, <2>1, ElementOfSeq DEF Top
    <2>4. QED
      BY <2>2, <2>3
  <1>6. QED
    BY <1>2, <1>3, <1>4, <1>5

\* Moving an item from the stack to the queue uses it up.
LEMMA PopShrinks ==
    ASSUME YardInv, TurnInv, stack # <<>>, PopToQueue,
           expr' = expr, pc' = pc, turn' = turn
    PROVE  TurnInv' /\ StepsLeft' < StepsLeft
  <1>1. Len(queue') = Len(queue) + 1 /\ Len(stack') = Len(stack) - 1
    BY Lengths DEF PopToQueue
  <1>2. TurnInv'
    BY <1>1, Lengths DEF TurnInv
  <1>3. Phase(pc) \in Nat
    BY DEF Phase
  <1>4. StepsLeft' < StepsLeft
    BY <1>1, <1>3, Lengths, MaxTokensAssumption DEF TurnInv, StepsLeft
  <1>5. QED
    BY <1>2, <1>4

\* Evaluating an item uses it up.
LEMMA TurnShrinks ==
    ASSUME YardInv, TurnInv, turn < Len(queue), turn' = turn + 1, UNCHANGED <<yard, pc>>
    PROVE  TurnInv' /\ StepsLeft' < StepsLeft
  <1>1. TurnInv'
    BY Lengths DEF TurnInv, yard
  <1>2. Phase(pc) \in Nat
    BY DEF Phase
  <1>3. StepsLeft' < StepsLeft
    BY <1>2, Lengths, MaxTokensAssumption DEF TurnInv, StepsLeft, yard
  <1>4. QED
    BY <1>1, <1>3

\* Leaving a loop for a later one is progress.
LEMMA LaterPhase ==
    ASSUME YardInv, TurnInv, Phase(pc') < Phase(pc), UNCHANGED <<yard, turn>>
    PROVE  TurnInv' /\ StepsLeft' < StepsLeft
  <1>1. TurnInv'
    BY Lengths DEF TurnInv, yard
  <1>2. Phase(pc) \in Nat /\ Phase(pc') \in Nat
    BY DEF Phase
  <1>3. StepsLeft' < StepsLeft
    BY <1>2, Lengths, MaxTokensAssumption DEF TurnInv, StepsLeft, yard
  <1>4. QED
    BY <1>1, <1>3

\* Every step leaves less to do.
LEMMA StepShrinks ==
    ASSUME YardInv, TurnInv, Next
    PROVE  TurnInv' /\ StepsLeft' < StepsLeft
  <1>0. Item("x") \in Items /\ Item("(") \in Items
    BY Lengths DEF Item, Items, Symbols, Tokens
  <1>1. CASE TakeOperand
    <2>1. /\ Len(expr') = Len(expr) + 1 /\ Len(expr) < MaxTokens
          /\ Len(queue') = Len(queue) + 1 /\ stack' = stack /\ turn' = turn
          /\ pc = "tokens" /\ pc' = "tokens"
      BY <1>0, <1>1, Lengths DEF TakeOperand, Take, rpn, Tokens
    <2>2. Phase(pc) = 5 /\ Phase(pc') = 5
      BY <2>1 DEF Phase
    <2>3. TurnInv'
      BY <2>1, Lengths, MaxTokensAssumption DEF TurnInv
    <2>4. StepsLeft' < StepsLeft
      BY <2>1, <2>2, Lengths, MaxTokensAssumption DEF TurnInv, StepsLeft
    <2>5. QED
      BY <2>3, <2>4
  <1>2. CASE TakeOpen
    <2>1. /\ Len(expr') = Len(expr) + 1 /\ Len(expr) < MaxTokens
          /\ Len(stack') = Len(stack) + 1 /\ queue' = queue /\ turn' = turn
          /\ pc = "tokens" /\ pc' = "tokens"
      BY <1>0, <1>2, Lengths DEF TakeOpen, Take, rpn, Tokens
    <2>2. Phase(pc) = 5 /\ Phase(pc') = 5
      BY <2>1 DEF Phase
    <2>3. TurnInv'
      BY <2>1, Lengths, MaxTokensAssumption DEF TurnInv
    <2>4. StepsLeft' < StepsLeft
      BY <2>1, <2>2, Lengths, MaxTokensAssumption DEF TurnInv, StepsLeft
    <2>5. QED
      BY <2>3, <2>4
  <1>3. CASE TakeClose
    <2>1. /\ Len(expr') = Len(expr) + 1 /\ Len(expr) < MaxTokens
          /\ stack' = stack /\ queue' = queue /\ turn' = turn
          /\ pc = "tokens" /\ pc' = "close"
      BY <1>3, Lengths DEF TakeClose, Take, rpn, Tokens
    <2>2. Phase(pc) = 5 /\ Phase(pc') = 6
      BY <2>1 DEF Phase
    <2>3. TurnInv'
      BY <2>1, Lengths, MaxTokensAssumption DEF TurnInv
    <2>4. StepsLeft' < StepsLeft
      BY <2>1, <2>2, Lengths, MaxTokensAssumption DEF TurnInv, StepsLeft
    <2>5. QED
      BY <2>3, <2>4
  <1>4. CASE TakeOperator
    <2>1. /\ Len(expr') = Len(expr) + 1 /\ Len(expr) < MaxTokens
          /\ stack' = stack /\ queue' = queue /\ turn' = turn
          /\ pc = "tokens" /\ pc' = "operator"
      BY <1>4, Lengths DEF TakeOperator, Take, rpn, Tokens
    <2>2. Phase(pc) = 5 /\ Phase(pc') = 10
      BY <2>1 DEF Phase
    <2>3. TurnInv'
      BY <2>1, Lengths, MaxTokensAssumption DEF TurnInv
    <2>4. StepsLeft' < StepsLeft
      BY <2>1, <2>2, Lengths, MaxTokensAssumption DEF TurnInv, StepsLeft
    <2>5. QED
      BY <2>3, <2>4
  <1>5. CASE ClosePop
    BY <1>5, PopShrinks DEF ClosePop, rpn
  <1>6. CASE CloseFound
    <2>1. /\ Len(stack') = Len(stack) - 1 /\ expr' = expr /\ queue' = queue /\ turn' = turn
          /\ pc = "close" /\ pc' = "tokens"
      BY <1>6, Lengths DEF CloseFound, rpn
    <2>2. Phase(pc) = 6 /\ Phase(pc') = 5
      BY <2>1 DEF Phase
    <2>3. TurnInv'
      BY <2>1, Lengths, MaxTokensAssumption DEF TurnInv
    <2>4. StepsLeft' < StepsLeft
      BY <2>1, <2>2, Lengths, MaxTokensAssumption DEF TurnInv, StepsLeft
    <2>5. QED
      BY <2>3, <2>4
  <1>7. CASE CloseMissing \/ FlushOpen \/ Unreadable \/ MissingArgs
    <2>1. pc \in {"close", "flush", "evaluate"} /\ pc' = "done" /\ UNCHANGED <<yard, turn>>
      BY <1>7 DEF CloseMissing, FlushOpen, Unreadable, MissingArgs, Evaluating, Fail, rpn
    <2>2. QED
      BY <2>1, LaterPhase DEF Phase
  <1>8. CASE OperatorPop
    BY <1>8, PopShrinks DEF OperatorPop, Yields, rpn
  <1>9. CASE OperatorPush
    <2>1. hand \in Items
      BY DEF YardInv, YardTypes
    <2>2. /\ Len(stack') = Len(stack) + 1 /\ expr' = expr /\ queue' = queue /\ turn' = turn
          /\ pc = "operator" /\ pc' = "tokens"
      BY <1>9, <2>1, Lengths DEF OperatorPush, rpn
    <2>3. Phase(pc) = 10 /\ Phase(pc') = 5
      BY <2>2 DEF Phase
    <2>4. TurnInv'
      BY <2>2, Lengths, MaxTokensAssumption DEF TurnInv
    <2>5. StepsLeft' < StepsLeft
      BY <2>2, <2>3, Lengths, MaxTokensAssumption DEF TurnInv, StepsLeft
    <2>6. QED
      BY <2>4, <2>5
  <1>10. CASE End \/ Flushed \/ Finish
    <2>1. /\ \/ pc = "tokens" /\ pc' = "flush"
             \/ pc = "flush" /\ pc' = "evaluate"
             \/ pc = "evaluate" /\ pc' = "done"
          /\ UNCHANGED <<yard, turn>>
      BY <1>10 DEF End, Flushed, Finish, rpn
    <2>2. QED
      BY <2>1, LaterPhase DEF Phase
  <1>11. CASE FlushPop
    BY <1>11, PopShrinks DEF FlushPop, rpn
  <1>12. CASE PushOperand \/ Negate \/ Combine
    <2>1. turn < Len(queue) /\ turn' = turn + 1 /\ UNCHANGED <<yard, pc>>
      BY <1>12 DEF PushOperand, Negate, Combine, Evaluating, Push
    <2>2. QED
      BY <2>1, TurnShrinks
  <1>13. QED
    BY <1>1, <1>2, <1>3, <1>4, <1>5, <1>6, <1>7, <1>8, <1>9, <1>10, <1>11, <1>12 DEF Next

-----------------------------------------------------------------------------
(* Theorems.                                                               *)

\* shuntingYard neither loses nor repeats an operand or operator, whatever
\* the length of the expression.
THEOREM YardConserves == Spec => []Conserved
  <1>1. YardInv => Conserved
    BY DEF YardInv
  <1>2. QED
    BY <1>1, YardInit, YardStep, PTL DEF Spec

\* The value EvaluateExpression returns is the one the grammar gives the
\* expression, and it returns none for unmatched parentheses.
THEOREM YardMeansArithmetic == Spec => []MeansArithmetic
  <1> DEFINE I == YardInv /\ ParenInv /\ PrevInv /\ MeaningInv
  <1>1. Init => I
    BY YardInit, ParenInit, PrevInit, MeaningInit
  <1>2. I /\ [Next]_vars => I'
    BY YardStep, ParenStep, PrevStep, MeaningStep
  <1>3. I => MeansArithmetic
    BY MeaningMeans
  <1>4. QED
    BY <1>1, <1>2, <1>3, PTL DEF Spec

\* No loop of shuntingYard or evaluateRPN runs forever: every step leaves
\* less to do, and there is only so much at the start.
THEOREM YardEnds == Spec => [](StepsLeft \in Nat) /\ [][StepsLeft' < StepsLeft]_vars
  <1> DEFINE I == YardInv /\ TurnInv
  <1>1. Init => I
    <2> SUFFICES ASSUME Init PROVE TurnInv
      BY YardInit
    <2>1. QED
      BY EmptySeq, MaxTokensAssumption DEF Init, TurnInv
  <1>2. I /\ [Next]_vars => I'
    <2> SUFFICES ASSUME I, [Next]_vars PROVE TurnInv'
      BY YardStep
    <2>1. CASE Next
      BY <2>1, StepShrinks
    <2>2. CASE UNCHANGED vars
      BY <2>2 DEF vars, yard, rpn, TurnInv
    <2>3. QED
      BY <2>1, <2>2
  <1>3. I => StepsLeft \in Nat
    <2> SUFFICES ASSUME I PROVE StepsLeft \in Nat
      OBVIOUS
    <2>1. Phase(pc) \in Nat
      BY DEF Phase
    <2>2. QED
      BY <2>1, Lengths, MaxTokensAssumption DEF TurnInv, StepsLeft
  <1>4. I /\ [Next]_vars => [StepsLeft' < StepsLeft]_vars
    BY StepShrinks
  <1>5. QED
    BY <1>1, <1>2, <1>3, <1>4, PTL DEF Spec
=============================================================================
