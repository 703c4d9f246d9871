--------------------------- MODULE MCQueryBuilder ---------------------------
(***************************************************************************)
(* The filters the query builder is run with: of one model with two        *)
(* conditions, each of every kind there is, and of two models with nested  *)
(* clauses.  Dates are texts, but for two lists that begin with a number.  *)
(***************************************************************************)
EXTENDS QueryBuilder

Val(c, p) == [at |-> p, text |-> c = "on" /\ p # Null]
ByValue(c, p) == [key |-> c, is |-> "value", value |-> Val(c, p)]
ByOps(c, ops) == [key |-> c, is |-> "object", ops |-> ops]
Op(c, op, points) == [op |-> op, values |-> [i \in DOMAIN points |-> Val(c, points[i])]]
By(c, op, points) == ByOps(c, <<Op(c, op, points)>>)
Mixed(op) ==
  ByOps("on", <<[op |-> op, values |-> <<[at |-> 1, text |-> FALSE], Val("on", 2)>>]>>)

Few(c) ==
  {By(c, "gt", <<1>>), By(c, "inq", <<1, 3>>), By(c, "between", <<1, 2>>),
   ByValue("count", 2), By("on", "inq", <<>>)}

Entries(c) ==
  Few(c)
  \union {By(c, op, <<2>>) : op \in {"gte", "lt", "lte", "neq", "eq", "like"}}
  \union {By(c, "nin", points) : points \in {<<3, 1>>, <<>>}}
  \union {ByValue(c, 1), ByValue(c, Null), By(c, "neq", <<Null>>), By(c, "between", <<1>>),
          By("unknown", "gt", <<1>>), Mixed("between"), Mixed("inq"),
          ByOps(c, <<Op(c, "gt", <<1>>), Op(c, "lt", <<3>>)>>)}

Both(key, a, b) == [is |-> key, branches |-> <<a, b>>]
Leaves == {<<>>} \union {<<e>> : e \in Few("count") \union Few("on")}
Nested == {<<Both(key, a, b)>> : key \in {"and", "or"}, a \in Leaves, b \in Leaves}

SomeFilters ==
  {<<<<e>>>> : e \in Entries("count") \union Entries("on")}
  \union {<<<<a, b>>>> : a \in Entries("count"), b \in Entries("on")}
  \union {<<a, b>> : a \in Nested, b \in Leaves}
  \union {<<<<Both("and", a, <<e>>), By("count", "lt", <<3>>)>>>> :
            a \in Nested, e \in Few("on")}
=============================================================================
