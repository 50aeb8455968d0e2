------------------------- MODULE ExpressionGrammar -------------------------
(***************************************************************************)
(* What an arithmetic expression means, by its grammar and not by an       *)
(* algorithm: the reference the evaluator of op monitors is held to.       *)
(*                                                                         *)
(*    sum  ::= prod | sum + prod | sum - prod                              *)
(*    prod ::= sign | prod * sign | prod / sign                            *)
(*    sign ::= atom | - sign                                               *)
(*    atom ::= operand | ( sum )                                           *)
(*                                                                         *)
(* A meaning is a term: <<"operand", position>>, <<"neg", term>> or        *)
(* <<operator, left, right>>.  Meanings(e) is the set of the terms e has   *)
(* as a sum: one if e is well formed, none if it is not.                   *)
(***************************************************************************)
EXTENDS Integers, Sequences, FiniteSets

Levels == {"sum", "prod", "sign", "atom"}

Tighter(level) == IF level = "sum" THEN "prod" ELSE "sign"
Joins(level) == IF level = "sum" THEN {"+", "-"} ELSE {"*", "/"}

\* The tokens lo .. hi of e, read at a level; none if lo > hi.
Node(level, lo, hi) == [level |-> level, lo |-> lo, hi |-> hi]
Nodes(e) == [level : Levels, lo : 1 .. Len(e), hi : 0 .. Len(e)]

\* The rules of the grammar, one per level: the terms of a node of at least
\* one token, Of being those of the nodes below it.
Atoms(e, Of, lo, hi) ==
    IF lo = hi
    THEN IF e[lo] = "x" THEN {<<"operand", lo>>} ELSE {}
    ELSE IF e[lo] = "(" /\ e[hi] = ")" THEN Of[Node("sum", lo + 1, hi - 1)] ELSE {}

Signs(e, Of, lo, hi) ==
    IF e[lo] = "-" /\ lo < hi
    THEN {<<"neg", t>> : t \in Of[Node("sign", lo + 1, hi)]}
    ELSE Of[Node("atom", lo, hi)]

JoinedAt(e, Of, level, lo, k, hi) ==
    {<<e[k], a, b>> : a \in Of[Node(level, lo, k - 1)],
                      b \in Of[Node(Tighter(level), k + 1, hi)]}

Splits(e, level, lo, hi) == {k \in lo + 1 .. hi - 1 : e[k] \in Joins(level)}

Joined(e, Of, level, lo, hi) ==
    Of[Node(Tighter(level), lo, hi)] \cup
    UNION {JoinedAt(e, Of, level, lo, k, hi) : k \in Splits(e, level, lo, hi)}

Rule(e, Of, x) ==
    IF x.lo > x.hi THEN {}
    ELSE IF x.level = "atom" THEN Atoms(e, Of, x.lo, x.hi)
    ELSE IF x.level = "sign" THEN Signs(e, Of, x.lo, x.hi)
    ELSE Joined(e, Of, x.level, x.lo, x.hi)

\* The terms of every node.
Terms(e) == LET Of[x \in Nodes(e)] == Rule(e, Of, x) IN Of

Meanings(e) == IF e = <<>> THEN {} ELSE Terms(e)[Node("sum", 1, Len(e))]

\* Every prefix closes at most what it opens, and all of it is closed.
Count(e, s, upto) == Cardinality({k \in 1 .. upto : e[k] = s})
BalancedParens(e) ==
    /\ \A k \in 1 .. Len(e) : Count(e, ")", k) <= Count(e, "(", k)
    /\ Count(e, ")", Len(e)) = Count(e, "(", Len(e))
=============================================================================
