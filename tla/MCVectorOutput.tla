--------------------------- MODULE MCVectorOutput ---------------------------
(***************************************************************************)
(* A vector with timestamps, another one and a scalar, and an op over the  *)
(* two vectors and the scalar.                                             *)
(***************************************************************************)
EXTENDS VectorOutput

MCMonitors == <<
    [kind |-> "vector", name |-> "a", given |-> TRUE, total |-> "mean", vars |-> <<>>],
    [kind |-> "vector", name |-> "b", given |-> FALSE, total |-> "none", vars |-> <<>>],
    [kind |-> "scalar", name |-> "s", given |-> FALSE, total |-> "none", vars |-> <<>>],
    [kind |-> "op", name |-> "o", given |-> TRUE, total |-> "mean", vars |-> <<"a", "s", "b">>],
    [kind |-> "op", name |-> "p", given |-> FALSE, total |-> "none", vars |-> <<"s">>] >>

Sample(t, v) == [at |-> t, value |-> v]

\* Lists of one or two parts; a part may be older than the one before it, may
\* repeat its value, and may carry no time.
MCReadings(n) ==
    CASE n = "a" -> {<<Sample(1, 1)>>, <<Sample(2, 1)>>}
                    \cup {<<p, Sample(2, 1)>> : p \in {Nil, Sample(1, 1), Sample(Now, 0)}}
                    \cup {<<Sample(2, 0), Nil>>}
      [] n = "b" -> {<<Nil, Sample(Now, 1)>>, <<Sample(Now, 1), Sample(Now, 0)>>}
      [] OTHER -> {<<Sample(Now, 2)>>}

\* o is a * s / b, p is 1 / s.
MCExpression(v) ==
    IF "b" \in DOMAIN v
    THEN IF v["b"] = 0 THEN NaN ELSE (v["a"] * v["s"]) \div v["b"]
    ELSE IF v["s"] = 0 THEN NaN ELSE 1 \div v["s"]
=============================================================================
