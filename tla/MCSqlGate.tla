----------------------------- MODULE MCSqlGate -----------------------------
(* SqlGate on written statements, raw texts and native queries.              *)
EXTENDS SqlGate

\* Short texts, character by character.
CharSeqs == UNION {[1 .. n -> {"a", "1", ".", "'", "<", "=", "!", " "}] : n \in 1 .. 3}
             \cup [1 .. 3 -> {"\"", "'", ">", "-"}] \cup [1 .. 4 -> {"a", "'"}]
             \cup [1 .. 4 -> {"1", "."}]
\* One word, one number and one string stand for all of them.
Sample(cs, t) ==
  CASE t.class = "word" -> "a" [] t.class = "number" -> "1" [] t.class = "string" -> "'v'"
    [] t.class = "error" -> "@" [] t.from = t.to -> cs[t.from]
    [] OTHER -> cs[t.from] \o cs[t.to]

MCNumber == {"0", "1", "2", "9", "1.5"}
MCIntValue == [n \in MCNumber \ {"1.5"} |->
                 CASE n = "0" -> 0 [] n = "1" -> 1 [] n = "2" -> 2 [] n = "9" -> 9]
MCText == {"'v'", "'v;w'", "'LIMIT v'", "'put INTO t'"}
MCInside == {<<"'v;w'", ";">>, <<"'LIMIT v'", "LIMIT">>, <<"'put INTO t'", "INTO">>}
MCEndings == {<<"rate_limit", "LIMIT">>, <<"last_update", "UPDATE">>}
MCIdent == {"a", "b", "s", "t", "u", "w", "x", "sum", "count", "int", "rate_limit", "last_update",
            "INTO", "EXPLAIN", "JSON", "TEXT", "BUFFERS"}
             \cup WriteOps \cup (ReadOps \ {"SELECT", "DESC"}) \cup Modifiers
MCGlobMatches == ("c*" :> {"c1", "c2"})

-----------------------------------------------------------------------------
(* Texts of tokens, with a blank or the end of a line where one is usual.    *)

Touch(t, u) == t \in {".", "("} \/ u \in {".", ",", ";", ")"} \/ <<t, u>> = <<"count", "(">>
Apart(ts, gap) ==
  FoldLeftDomain(LAMBDA acc, i :
    acc \o (IF i = 1 \/ Touch(ts[i - 1], ts[i]) THEN <<>> ELSE <<gap>>) \o <<ts[i]>>, <<>>, ts)
Spaced(ts) == Apart(ts, " ")

-----------------------------------------------------------------------------
(* Statements written from trees.                                            *)

A == Col("", "a")
TA == Col("t", "a")
B == Col("", "b")
One == Num("1")

RECURSIVE Write(_), WriteList(_), WriteSelect(_), Values(_)

Operand(e) == IF e.kind \in {"bin", "between"} \/ (e.kind = "un" /\ e.op = "NOT")
              THEN <<"(">> \o Write(e) \o <<")">> ELSE Write(e)

Op(op) == CASE op = "NOT IN" -> <<"NOT", "IN">>
            [] op = "IS NULL" -> <<"IS", "NULL">>
            [] op = "IS NOT NULL" -> <<"IS", "NOT", "NULL">>
            [] OTHER -> <<op>>

Comma(ss) == FoldSeq(LAMBDA s, acc : IF acc = <<>> THEN s ELSE s \o <<",">> \o acc, <<>>, ss)

Values(e) == IF e.kind = "bin" /\ e.op = "OR"
             THEN Values(e.left) \o <<",">> \o Operand(e.right) ELSE Operand(e)

WriteKey(o) == Write(o.col) \o (IF o.dir = "DESC" THEN <<"DESC">> ELSE <<"ASC">>)
                 \o (IF o.nulls = "" THEN <<>> ELSE <<"NULLS", o.nulls>>)
WriteKeys(os) == Comma([i \in 1 .. Len(os) |-> WriteKey(os[i])])
WriteCols(cs) == Comma([i \in 1 .. Len(cs) |-> Write(cs[i])])
WriteBound(b) ==
  CASE b.type = "OFFSET PRECEDING" -> <<"1", "PRECEDING">>
    [] b.type = "OFFSET FOLLOWING" -> <<"2", "FOLLOWING">>
    [] b.type = "UNBOUNDED PRECEDING" -> <<"UNBOUNDED", "PRECEDING">>
    [] b.type = "UNBOUNDED FOLLOWING" -> <<"UNBOUNDED", "FOLLOWING">>
    [] OTHER -> <<"CURRENT", "ROW">>
WriteOver(w) ==
  <<"OVER", "(">>
    \o (IF w.partitionBy = <<>> THEN <<>>
        ELSE <<"PARTITION", "BY">> \o WriteCols(w.partitionBy))
    \o (IF w.orderBy = <<>> THEN <<>> ELSE <<"ORDER", "BY">> \o WriteKeys(w.orderBy))
    \o (IF w.frame = <<>> THEN <<>>
        ELSE <<w.frame[1].type, "BETWEEN">> \o WriteBound(w.frame[1].start)
               \o <<"AND">> \o WriteBound(w.frame[1].end))
    \o <<")">>

WriteList(es) == Comma([i \in 1 .. Len(es) |-> Write(es[i])])

Write(e) ==
  CASE e.kind = "col" -> IF e.table = "" THEN <<e.name>> ELSE <<e.table, ".", e.name>>
    [] e.kind = "num" -> <<IF e.number = "" THEN "NULL" ELSE e.number>>
    [] e.kind = "str" -> <<e.text>>
    [] e.kind = "un" -> <<e.op>> \o Operand(e.operand)
    [] e.kind = "between" -> Operand(e.expr) \o <<"BETWEEN">> \o Operand(e.low)
                               \o <<"AND">> \o Operand(e.high)
    [] e.kind = "cast" -> <<"CAST", "(">> \o Write(e.arg) \o <<"AS", e.type, ")">>
    [] e.kind = "subquery" -> <<"(">> \o WriteSelect(e.stmt) \o <<")">>
    [] e.kind = "call" ->
         <<e.name, "(">> \o (IF e.distinct THEN <<"DISTINCT">> ELSE <<>>)
           \o WriteList(e.args) \o <<")">>
           \o (IF e.over = <<>> THEN <<>> ELSE WriteOver(e.over[1]))
    [] e.op \in {"IS NULL", "IS NOT NULL"} -> Operand(e.left) \o Op(e.op)
    [] e.op \in {"IN", "NOT IN"} ->
         Operand(e.left) \o Op(e.op)
           \o (IF e.right.kind = "subquery" THEN Write(e.right)
               ELSE <<"(">> \o Values(e.right) \o <<")">>)
    [] OTHER -> Operand(e.left) \o Op(e.op) \o Operand(e.right)

WriteTable(name, alias) ==
  (IF Len(name) = 2 THEN <<name[1], ".", name[2]>> ELSE name)
    \o (IF alias = "" THEN <<>> ELSE <<alias>>)
WriteItem(c) == Write(c.expr) \o (IF c.alias = "" THEN <<>> ELSE <<"AS", c.alias>>)
WriteJoin(j) ==
  (IF j.type = "INNER" THEN <<"JOIN">> ELSE <<j.type, "OUTER", "JOIN">>)
    \o WriteTable(j.table, j.alias) \o <<"ON">> \o Write(j.on)
Clause(words, s) == IF s = <<>> THEN <<>> ELSE words \o s
NumText(n) == CHOOSE t \in DOMAIN MCIntValue : MCIntValue[t] = n

WriteSelect(s) ==
  <<"SELECT">>
    \o (IF s.distinctOn = <<>> THEN <<>>
        ELSE <<"DISTINCT", "ON", "(">> \o WriteCols(s.distinctOn) \o <<")">>)
    \o Comma([i \in 1 .. Len(s.columns) |-> WriteItem(s.columns[i])])
    \o Clause(<<"FROM">>, IF s.from = <<>> THEN <<>> ELSE WriteTable(s.from, s.fromAlias))
    \o FoldSeq(LAMBDA j, acc : WriteJoin(j) \o acc, <<>>, s.joins)
    \o Clause(<<"WHERE">>, WriteList(s.where))
    \o Clause(<<"GROUP", "BY">>, WriteCols(s.groupBy))
    \o Clause(<<"HAVING">>, WriteList(s.having))
    \o Clause(<<"ORDER", "BY">>, WriteKeys(s.orderBy))
    \o (IF s.limit = 0 THEN <<>> ELSE <<"LIMIT", NumText(s.limit)>>)
    \o (IF s.offset = 0 THEN <<>> ELSE <<"OFFSET", NumText(s.offset)>>)

-----------------------------------------------------------------------------
(* The trees: every kind of expression once or nested, every clause with and *)
(* without its parts.                                                        *)

Count(d, e, over) == Call("count", <<e>>, d, over)
Frame(s, e) == <<[type |-> "ROWS", start |-> s, end |-> e]>>
Desc(c, n) == [col |-> c, dir |-> "DESC", nulls |-> n]
Asc(c) == [col |-> c, dir |-> "ASC", nulls |-> ""]

Inner == [BlankSelect EXCEPT !.columns = <<[expr |-> B, alias |-> ""]>>, !.from = <<"u">>,
                             !.where = <<Bin(B, ">", One)>>]

Sums == {Bin(A, "+", Bin(B, "*", One)), Bin(Bin(A, "+", One), "*", B),
         Bin(A, "-", Bin(B, "-", One)), Un("-", A), Un("-", Bin(A, "/", B))}

Windows == {<<[partitionBy |-> p, orderBy |-> o, frame |-> f]>> :
              p \in {<<>>, <<A, TA>>}, o \in {<<>>, <<Desc(B, "LAST"), Asc(A)>>},
              f \in {<<>>, Frame(Bound("UNBOUNDED PRECEDING", 0), Bound("CURRENT ROW", 0)),
                     Frame(Bound("OFFSET PRECEDING", 1), Bound("OFFSET FOLLOWING", 2)),
                     Frame(Bound("CURRENT ROW", 0), Bound("UNBOUNDED FOLLOWING", 0))}}

Items == {TA, One, Str("'v'"), Str("'LIMIT v'"), Col("", "rate_limit"), Cast(Bin(A, "+", One), "int"), Count(FALSE, Col("", "*"), <<>>),
          Count(TRUE, A, <<>>)}
           \cup Sums \cup {Count(FALSE, A, w) : w \in Windows}

Atoms == {Bin(A, "=", One), Bin(TA, "LIKE", Str("'v'")), Bin(A, "IS NULL", Str("")),
          Bin(B, "IS NOT NULL", Str("")), Btw(A, One, Bin(B, "+", One)),
          Bin(A, "IN", One), Bin(A, "NOT IN", Bin(Bin(One, "OR", Num("2")), "OR", B)),
          Bin(A, "IN", Sub(Inner)), Bin(A, "NOT IN", Sub(Inner)), Un("NOT", A),
          Bin(Bin(A, "+", One), "<=", Num(""))}
Conditions == Atoms \cup {Bin(p, op, q) : p \in {Bin(A, "=", One), Btw(A, One, B)},
                                          op \in {"AND", "OR"}, q \in Atoms}
                    \cup {Bin(p, "OR", Bin(q, "AND", p)) : p, q \in {Un("NOT", A), Bin(A, "!=", B)}}
                    \cup {Bin(Bin(p, "OR", q), "AND", p) : p, q \in {Un("NOT", A), Bin(A, "!=", B)}}

Join(t) == [type |-> t, table |-> <<"s", "u">>, alias |-> "x", on |-> Bin(TA, "=", Col("x", "b"))]

Plain == [BlankSelect EXCEPT !.columns = <<[expr |-> A, alias |-> "x"]>>, !.from = <<"t">>]

Selects ==
  {[Plain EXCEPT !.columns = <<[expr |-> e, alias |-> al], [expr |-> B, alias |-> ""]>>] :
     e \in Items, al \in {"", "x"}}
  \cup {[Plain EXCEPT !.where = <<c>>] : c \in Conditions}
  \cup {[Plain EXCEPT !.distinctOn = d, !.joins = j, !.groupBy = g, !.having = h,
                      !.orderBy = o, !.limit = l, !.offset = f] :
          d \in {<<>>, <<A, TA>>}, j \in {<<>>, <<Join("LEFT"), Join("INNER")>>},
          g \in {<<>>, <<A, TA>>}, h \in {<<>>, <<Bin(Count(FALSE, A, <<>>), ">", One)>>},
          o \in {<<>>, <<Desc(TA, "FIRST"), Asc(A)>>}, l \in {0, 2}, f \in {0, 1}}

Unions == {[kind |-> "union", left |-> Plain, right |-> [Inner EXCEPT !.limit = l], all |-> al] :
             l \in {0, 2}, al \in BOOLEAN}

NoQuery == [kind |-> "sql", words |-> <<>>]
SqlJob(ts, tree, kind, ex, key) ==
  [kind |-> kind, key |-> key, sql |-> TRUE, explain |-> ex, chars |-> <<>>, text |-> ts, tree |-> tree,
   query |-> NoQuery]

Written == {SqlJob(Spaced(WriteSelect(s)), <<s>>, "mysql", FALSE, "db1") : s \in Selects}
  \cup {SqlJob(Apart(WriteSelect(u.left) \o <<"UNION">> \o (IF u.all THEN <<"ALL">> ELSE <<>>)
                     \o WriteSelect(u.right), "\n"), <<u>>, "file", FALSE, "") : u \in Unions}

-----------------------------------------------------------------------------
(* Texts outside that grammar, native queries, the environment.              *)

Simple == <<"SELECT", "a", "FROM", "t">>
Texts == {
  <<>>, Simple, Simple \o <<";">>, Simple \o <<";", ";">>, Simple \o <<";">> \o Simple,
  Simple \o <<"LIMIT", "0">>, Simple \o <<"LIMIT", "1.5">>, Simple \o <<"@">>,
  <<"SELECT", "a", "INTO", "u", "FROM", "t">>,
  <<"SELECT", "a", "INTO", "@v", "FROM", "t">>,
  <<"SELECT", "(", "a", "FROM", "t">>, <<"(">> \o Simple \o <<")">>,
  <<"SELECT", "a", "FROM", "t", "WHERE", "b", "=", "'v;w'">>,
  <<"SELECT", "a", "FROM", "t", "WHERE", "b", "=", "'LIMIT v'">>,
  <<"SELECT", "a", "FROM", "t", "WHERE", "b", "=", "'put INTO t'">>,
  <<"SELECT", "rate_limit", "FROM", "t", "LIMIT", "2">>, <<"SELECT", "a", "FROM", "rate_limit">>,
  <<"SELECT", "a", "FROM", "t", "WHERE", "b", "IN", "(", "SELECT", "rate_limit", "FROM", "u", ")">>,
  <<"WITH", "w", "AS", "(", "SELECT", "last_update", "FROM", "t", ")", "SELECT", "a", "FROM", "w">>,
  <<"SELECT", "a", "FROM", "t", "WHERE", "b", "IN", "(", "SELECT", "a", "FROM", "u",
    "LIMIT", "2", ")">>,
  <<"INSERT", "INTO", "t", "(", "a", ")">>, <<"SHOW", "TABLES">>, <<"DESC", "t">>,
  <<"SET", "x", "=", "1">>, <<"t">>,
  <<"EXPLAIN">>, <<"EXPLAIN">> \o Simple, <<"EXPLAIN", "ANALYZE", "VERBOSE">> \o Simple,
  <<"EXPLAIN", "(", "ANALYZE", ",", "FORMAT", "JSON", ")">> \o Simple,
  <<"EXPLAIN", "(", "ANALYZE">> \o Simple, <<"EXPLAIN", "FORMAT", "=", "JSON">> \o Simple,
  <<"EXPLAIN", "ANALYZE", "DELETE", "FROM", "t">>,
  <<"EXPLAIN", "EXPLAIN", "PLAN", "UPDATE", "t">>,
  <<"EXPLAIN", "(", "ANALYZE", ")", "INSERT", "INTO", "t">>,
  <<"WITH", "w", "AS", "(">> \o Simple \o <<")", "SELECT", "a", "FROM", "w">>,
  <<"WITH", "w", "AS", "(", "DELETE", "FROM", "t", ")", "SELECT", "a", "FROM", "w">>,
  <<"WITH", "w", "AS", "(", "SELECT", "count", "(", "a", ")", "FROM", "t", ")", ",",
    "x", "AS", "(">> \o Simple \o <<")", "SELECT", "a", "FROM", "w">>,
  <<"SELECT", "s", ".", "t", ".", "a", "FROM", "s", ".", "t", "@">>,
  <<"SELECT", "t", ".", "b", "FROM", "t">>, <<"SELECT", "a", "FROM", "s", ".", "u">>}

MCGivenTexts == {SqlJob(Spaced(ts), <<>>, k, ex, key) :
            ts \in Texts, k \in {"postgres"}, ex \in BOOLEAN, key \in {"", "db1", "db2"}}
  \cup {SqlJob(Apart(Simple \o tail, "\n") \o <<"\n">>, <<>>, "postgres", FALSE, "") :
            tail \in {<<>>, <<"LIMIT", "2">>, <<";">>}}
  \cup {SqlJob(Spaced(Simple), <<>>, k, TRUE, "") :
            k \in {"mysql", "gaussdb", "sqlite", "clickhouse", "oracle", "duckdb"}}

\* The tokens of a text of characters, with a blank where it has some.
TextOf(cs) ==
  FoldLeft(LAMBDA acc, t :
    acc \o (IF t.from > 1 /\ cs[t.from - 1] \in {" "} THEN <<" ">> ELSE <<>>) \o <<Sample(cs, t)>>,
    <<>>, Tokenize(cs))
InLetters == {[SqlJob(TextOf(cs), <<>>, "sqlite", FALSE, "") EXCEPT !.chars = cs] : cs \in CharSeqs}

Native(q, key) ==
  [kind |-> q.kind, key |-> key, sql |-> FALSE, explain |-> FALSE, chars |-> <<>>, text |-> <<>>,
   tree |-> <<>>, query |-> q]

KeyLetters == {"k", "l", "*"}
Keys == UNION {[1 .. n -> KeyLetters] : n \in 1 .. 4}
Redis == {[kind |-> "redis", words |-> <<v>>, verb |-> v, args |-> IF k = <<>> THEN <<>> ELSE <<k>>] :
            v \in {"GET", "SCAN"}, k \in Keys \cup {<<>>}}
Documents == {[kind |-> k, words |-> <<"find">>, collections |-> c, projection |-> pr, out |-> o] :
                k \in {"mongodb", "qdrant"}, c \in SUBSET {"t", "u"}, pr \in BOOLEAN,
                o \in {{}, {"b"}}}
PromQL == {[kind |-> "prometheus", words |-> <<"promql">>, call |-> f, metric |-> m,
            braces |-> br, labels |-> IF br THEN {"b"} ELSE {}] :
             f \in {"", "rate", "by"}, m \in {"t", "up", "rate"}, br \in BOOLEAN}
Other == {[kind |-> "elasticsearch", words |-> <<w>>] : w \in {"query", "DROP"}}
MCNative == {Native(q, key) : q \in Redis \cup Documents \cup PromQL \cup Other,
                              key \in {"", "db1", "db2"}}

MCEnv ==
  ("global" :> [tables |-> <<<<"u">>, <<"k", "*", "l">>>>, columns |-> <<<<"b">>, <<"u", "b">>>>,
                statements |-> <<<<"DROP">>>>,
                masks |-> <<[col |-> <<"a">>, repl |-> "m1"], [col |-> <<"c*">>, repl |-> "m2"]>>])
  @@ ("db1" :> [tables |-> <<<<"s">>, <<"*", "?", "k", "*">>, <<"\\", "*", "l", "\\">>,
                           <<"l", "*", "\\", "*">>>>, columns |-> <<<<"t", "c2">>>>,
                statements |-> <<<<"LIKE", " ", "'v'">>>>,
                masks |-> <<[col |-> <<"a">>, repl |-> "m3"], [col |-> <<"t", "c1">>, repl |-> "m4"],
                            [col |-> <<"t", "c1">>, repl |-> "m5"]>>])

MCAnswers == {[columns |-> cs, rows |-> rs] :
  cs \in {<<"a", "b", "c1", "c2", "d">>, <<"b", "d", "b", "a", "c1">>},
  rs \in {<<>>, <<<<"v1", "v2", "v3", "v4", "v5">>, <<Null, Null, "v6", Null, "v7">>>>}}

MCJobs == InLetters \cup Written \cup MCGivenTexts \cup MCNative

\* For the run on Validate's verdict: texts with no statement, and EXPLAIN in
\* parentheses.
MCBareTexts == {SqlJob(Spaced(ts), <<>>, "mysql", FALSE, "") :
                  ts \in Texts \cup {<<"(", "EXPLAIN">> \o Simple \o <<")">>}}
=============================================================================
