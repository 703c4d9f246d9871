---------------------------- MODULE QueryBuilder ----------------------------
(***************************************************************************)
(* The where clause of a search (SearchQueryBuilder, PsqlQueryBuilder,     *)
(* QueryList): from a filter for every model searched to one SQL text with *)
(* numbered placeholders and the list of their values.  Selected columns,  *)
(* text search, order and limit are left out.                              *)
(*                                                                         *)
(* A filter, like the clause built of it, is a sequence of conditions that *)
(* all hold.  A condition is one on a column or the "and" or "or" of such  *)
(* sequences, the clauses, nested MaxDepth deep at most.  On a column, a   *)
(* filter has an entry of a JSON object:                                   *)
(*   [key, is |-> "value", value]      shorthand for equality              *)
(*   [key, is |-> "object", ops]       a sequence of [op, values]          *)
(* A value has its place in the order of its column and comes as a text or *)
(* not: a date does as a rule, a number never does.  SQL has a comparison  *)
(* of a column with the values of its placeholders.                        *)
(***************************************************************************)
EXTENDS Integers, Sequences, FiniteSets

CONSTANTS
  Column, DateColumn,   \* the properties of the models, and those of type Date
  Point, Null,          \* what a column can hold
  MaxDepth,             \* bound: how deep the clauses of a filter nest
  Filters,              \* the filters asked for: one for every model searched
  Unbound,              \* what a placeholder without a value stands for
  AnObject              \* a value that is no column's: a statement, or the text
                        \* that is searched for

Operators == {"gt", "gte", "lt", "lte", "neq", "between", "nin", "inq"}

Value == [at: Point \union {Null}, text: BOOLEAN]
Entry ==
  LET Key == STRING \ {"and", "or"} IN
    [key: Key, is: {"value"}, value: Value]
    \union [key: Key, is: {"object"}, ops: Seq([op: STRING, values: Seq(Value)])]
Comparison == [is: Operators \union {"eq", "null"}, column: Column, at: Seq(Nat)]

\* The conditions nested less than d deep on columns that have one of the leaves, in
\* which neither a list of clauses nor a clause is one of those banned.
Condition(leaves, banned) ==
  LET condition[d \in Nat] ==
        IF d = 0 THEN {}
        ELSE leaves \union [is: {"and", "or"},
                            branches: Seq(Seq(condition[d - 1]) \ banned) \ banned]
  IN condition

Where(d) == Seq(Condition(Entry, {})[d])
Sql(d) == Seq(Condition(Comparison, {<<>>})[d])

ASSUME QueryBuilderAssumption ==
  /\ DateColumn \subseteq Column /\ Column \subseteq STRING \ {"and", "or"}
  /\ Point \subseteq Int /\ {Null, Unbound, AnObject} \intersect Int = {}
  /\ Cardinality({Null, Unbound, AnObject}) = 3
  /\ MaxDepth \in Nat /\ Filters \subseteq Seq(Where(MaxDepth))

VARIABLES
  asked,    \* query.where
  built     \* the SQL texts of the models, the values, and whether it is an error

builderVars == <<asked, built>>

\* What is built: the statements joined by AND, their values, and the placeholder
\* taken last.
Nothing(n) == [sql |-> <<>>, params |-> <<>>, n |-> n, error |-> FALSE]
BadRequest(n) == [Nothing(n) EXCEPT !.error = TRUE]
Statement(s, params, n) == [Nothing(n) EXCEPT !.sql = <<s>>, !.params = params]
Then(a, b) ==
  [sql |-> a.sql \o b.sql, params |-> a.params \o b.params, n |-> b.n,
   error |-> a.error \/ b.error]

-----------------------------------------------------------------------------
\* toColumnValue makes a date of a text and takes its placeholder at once; the
\* other values get theirs afterwards, in buildClauseFromExpress.
IsDate(column, value) == column \in DateColumn /\ value.text

Placeholders(column, values, n) ==
  LET dates == {i \in DOMAIN values : IsDate(column, values[i])}
      upTo(S, i) == Cardinality({j \in S : j <= i}) IN
    [i \in DOMAIN values |->
       IF i \in dates THEN n + upTo(dates, i)
       ELSE n + Cardinality(dates) + upTo(DOMAIN values \ dates, i)]

Points(values) == [i \in DOMAIN values |-> values[i].at]

\* Of an object only the first operator counts; an empty list is no condition.
HandleObjectValue(column, ops, n) ==
  IF ops = <<>> THEN BadRequest(n)
  ELSE LET op == ops[1].op
           values == ops[1].values IN
    CASE op = "between" /\ Len(values) # 2 -> BadRequest(n)
      [] op \in {"inq", "nin"} /\ values = <<>> -> Nothing(n)
      [] op \notin Operators -> BadRequest(n)
      [] OTHER -> Statement([is |-> op, column |-> column,
                             at |-> Placeholders(column, values, n)],
                            Points(values), n + Len(values))

\* A date compared by its value alone takes one placeholder and names the next,
\* and its statement goes among the values.
HandleValue(column, value, n) ==
  CASE value.at = Null ->
         Statement([is |-> "null", column |-> column, at |-> <<>>], <<>>, n)
    [] value.at # Null /\ IsDate(column, value) ->
         Statement([is |-> "eq", column |-> column, at |-> <<n + 2>>], <<AnObject>>, n + 2)
    [] OTHER ->
         Statement([is |-> "eq", column |-> column, at |-> <<n + 1>>], <<value.at>>, n + 1)

\* One after the other, each with the placeholders after those of the one before.
Chain(build, items, n) ==
  LET done[k \in 0 .. Len(items)] ==
        IF k = 0 THEN Nothing(n)
        ELSE LET so == done[k - 1] IN Then(so, build[items[k]][so.n])
  IN done[Len(items)]

WhereBuild(handle, where, n) == Chain(handle, where, n)

\* A clause that says nothing is left out.
Branch(handle, where, n) ==
  LET found == WhereBuild(handle, where, n) IN
    IF found.sql = <<>> THEN found ELSE [found EXCEPT !.sql = <<found.sql>>]

HandleAndOr(handle, key, clauses, n) ==
  LET branch == [where \in {clauses[i] : i \in DOMAIN clauses} |->
                   [m \in Nat |-> Branch(handle, where, m)]]
      found == Chain(branch, clauses, n) IN
    IF found.sql = <<>> THEN [Nothing(found.n) EXCEPT !.error = found.error]
    ELSE [found EXCEPT !.sql = <<[is |-> key, branches |-> found.sql]>>]

HandleKeys[d \in Nat] ==
  [entry \in Condition(Entry, {})[d] |-> [n \in Nat |->
     CASE entry.is \in {"and", "or"} ->
            HandleAndOr(HandleKeys[d - 1], entry.is, entry.branches, n)
       [] entry.is \notin {"and", "or"} /\ entry.key \notin Column -> BadRequest(n)
       [] entry.is = "value" /\ entry.key \in Column -> HandleValue(entry.key, entry.value, n)
       [] entry.is = "object" /\ entry.key \in Column ->
            HandleObjectValue(entry.key, entry.ops, n)]]

\* search, of one model.
QueryOf(where, n) ==
  LET found == WhereBuild(HandleKeys[MaxDepth], where, n) IN
    [found EXCEPT !.sql = <<found.sql>>]

\* queryBuild and paramsBuild: the text searched for is the first value.
BuildFresh(wheres) ==          \* mutant: every model counts from the start
  LET q == Chain([where \in Where(MaxDepth) |-> [n \in Nat |-> QueryOf(where, 1)]], wheres, 1)
  IN [q EXCEPT !.params = <<AnObject>> \o @]

Build(wheres) ==
  LET q == Chain([where \in Where(MaxDepth) |-> [n \in Nat |-> QueryOf(where, n)]], wheres, 1)
  IN [q EXCEPT !.params = <<AnObject>> \o @]

-----------------------------------------------------------------------------
(* What PostgreSQL makes of it. *)

ValueAt(params, k) == IF k \in DOMAIN params THEN params[k] ELSE Unbound
Values(params, at) == [k \in DOMAIN at |-> ValueAt(params, at[k])]

Compares(op, x, y) ==
  CASE op \in {"eq", "inq"} -> x = y
    [] op = "neq" -> x # y
    [] op = "gt" -> x > y
    [] op = "gte" -> x >= y
    [] op = "lt" -> x < y
    [] op = "lte" -> x <= y

\* A comparison with null is not true.
Compared(op, x, ys) ==
  /\ x # Null
  /\ CASE op = "between" -> Null \notin {ys[1], ys[2]} /\ ys[1] <= x /\ x <= ys[2]
       [] op = "nin" -> \A i \in DOMAIN ys : ys[i] # Null /\ ys[i] # x
       [] op = "inq" -> \E i \in DOMAIN ys : ys[i] = x
       [] OTHER -> ys[1] # Null /\ Compares(op, x, ys[1])

\* The conditions that hold when those of the leaves do that are true.
Holding(leaves, true) ==
  LET holding[d \in Nat] ==
        IF d = 0 THEN {}
        ELSE true
             \union [is: {"and"}, branches: Seq(Seq(holding[d - 1]))]
             \union {c \in [is: {"or"}, branches: Seq(Seq(Condition(leaves, {})[d - 1]))] :
                       \E j \in DOMAIN c.branches : c.branches[j] \in Seq(holding[d - 1])}
  IN holding

IsTrue(comparison, params, row) ==
  IF comparison.is = "null" THEN row[comparison.column] = Null
  ELSE Compared(comparison.is, row[comparison.column], Values(params, comparison.at))

HasValues(comparison, params) ==
  \A k \in DOMAIN comparison.at :
    ValueAt(params, comparison.at[k]) \notin {Unbound, AnObject}

Selects(sql, params, row) ==
  sql \in Seq(Holding(Comparison, {c \in Comparison : IsTrue(c, params, row)})[MaxDepth])

Bound(sql, params) ==
  sql \in Seq(Condition({c \in Comparison : HasValues(c, params)}, {})[MaxDepth])

-----------------------------------------------------------------------------
BuilderInit == asked = <<>> /\ built = Nothing(1)

AskFor(wheres) ==
  /\ asked' = wheres
  /\ built' = Build(wheres)

BuilderNext == asked = <<>> /\ \E wheres \in Filters : AskFor(wheres)

BuilderSpec == BuilderInit /\ [][BuilderNext]_builderVars

-----------------------------------------------------------------------------
BuilderTypeOK ==
  /\ asked \in Seq(Where(MaxDepth))
  /\ built \in [sql: Seq(Sql(MaxDepth)), params: Seq(Point \union {Null, AnObject}),
                n: Nat, error: BOOLEAN]
  /\ Len(asked) = Len(built.sql)

(* What a filter means. *)
IsMeant(entry, row) ==
  IF entry.is = "value" THEN row[entry.key] = entry.value.at
  ELSE \A j \in DOMAIN entry.ops :
         Compared(entry.ops[j].op, row[entry.key], Points(entry.ops[j].values))

Means(where, row) ==
  where \in Seq(Holding(Entry, {e \in Entry : IsMeant(e, row)})[MaxDepth])

\* Filters the builder does not turn into something else: without a date compared
\* by its value alone, bounds of which one is a text, empty lists and clauses, a
\* list for an operator of one value, null compared by an operator, several
\* operators of one column, and those it refuses.
PlainOp(o) ==
  /\ o.op \in Operators /\ o.values # <<>>
  /\ \A i \in DOMAIN o.values : o.values[i].at # Null
  /\ o.op = "between" => Len(o.values) = 2 /\ o.values[1].text = o.values[2].text
  /\ o.op \notin {"between", "inq", "nin"} => Len(o.values) = 1

PlainEntry ==
  {e \in Entry :
     /\ e.key \in Column
     /\ e.is = "value" => ~IsDate(e.key, e.value) \/ e.value.at = Null
     /\ e.is = "object" => Len(e.ops) = 1 /\ PlainOp(e.ops[1])}

Plain(where) == where \in Seq(Condition(PlainEntry, {<<>>})[MaxDepth])

\* The numbers of the placeholders, counted on through nested clauses and from one
\* model to the next, fit the one list of values, so that of every model the rows
\* are found that its own filter means.
FindsWhatIsAsked ==
  (\A i \in DOMAIN asked : Plain(asked[i])) =>
    /\ ~built.error
    /\ \A i \in DOMAIN asked :
         /\ Bound(built.sql[i], built.params)
         /\ \A row \in [Column -> Point \union {Null}] :
              Selects(built.sql[i], built.params, row) <=> Means(asked[i], row)
=============================================================================
