----------------------------- MODULE MCAnalysis -----------------------------
(* Four tables of two instances, collected in two orders, and pairs of scans *)
(* of at most two tables.                                                    *)
EXTENDS Analysis

MCLower == ("USER" :> "user") @@ ("ID" :> "id")
MCNormalType == "INT" :> "int"
MCFlags == {"nullable", "default", "comment", "is_primary", "is_unique", "is_index"}
MCCaps == [mysql |-> {"foreign_key", "index"}, clickhouse |-> {"partition"}, mongo |-> {"index"}]
MCTimeWords == {"created", "updated"}
MCMagnitude == (0 :> 0) @@ (9 :> 1) @@ (99 :> 2)
MCQueryNorm == (0 :> 0) @@ (9 :> 250) @@ (99999 :> 1250)

Plain == [f \in MCFlags |-> IF f \in {"default", "comment"} THEN "" ELSE "false"]
Col(name, type) == [name |-> name, type |-> type, at |-> Plain]
With(c, flag, v) == [c EXCEPT !.at[flag] = v]
PK == With(Col(<<"id">>, "int"), "is_primary", "true")

Idx(name, cols) == [name |-> name, columns |-> cols, unique |-> FALSE, type |-> "btree"]
FK(name, cols, ref, refCols) ==
  [name |-> name, columns |-> cols, refInst |-> <<>>, refDB |-> <<>>, refTable |-> ref,
   refColumns |-> refCols]

Table(inst, name, cols) ==
  [inst |-> inst, db |-> <<"d">>, name |-> name, kind |-> "mysql", rows |-> 9, writes |-> 0,
   queries |-> 0, columns |-> cols, indexes |-> <<>>, fks |-> <<>>]

User(cols) == [Table(<<"i">>, <<"USER">>, cols) EXCEPT
                 !.rows = 99, !.indexes = <<Idx(<<"p">>, <<<<"id">>>>)>>]
Users(inst, queries) ==
  [Table(inst, <<"user", "s">>, <<PK>>) EXCEPT !.rows = 0, !.queries = queries, !.kind = "mongo"]
Order(inst, writes) ==
  [Table(inst, <<"order">>, <<PK, Col(<<"user", "_", "id">>, "int"), Col(<<"order", "_", "fk">>, "int")>>)
     EXCEPT !.writes = writes]
Item(fks) ==
  [Table(<<"i">>, <<"item">>, <<Col(<<"user", "id">>, "int"), Col(<<"order", "_", "ID">>, "int"),
                               Col(<<"user", "_", "fk">>, "int")>>) EXCEPT !.fks = fks]

Keys1 == {<<FK(<<"f">>, <<<<"user", "id">>>>, <<"gone">>, <<<<"id">>>>)>>,
          <<FK(<<"f">>, <<<<"user", "id">>, <<"order", "_", "ID">>>>, <<"order">>, <<<<"id">>, <<"x">>>>)>>,
          <<FK(<<"f">>, <<<<"order", "_", "ID">>>>, <<"order">>, <<<<"id">>>>),
            FK(<<"g">>, <<<<"user", "id">>>>, <<"USER">>, <<<<"id">>>>)>>}

Alone == [Table(<<"i">>, <<"node">>, <<PK, Col(<<"node", "_", "id">>, "int")>>) EXCEPT
            !.fks = <<FK(<<"f">>, <<<<"node", "_", "id">>>>, <<"node">>, <<<<"id">>>>)>>]

Stats == [fks : Keys1 \cup {<<>>}, key : {<<PK>>, <<Col(<<"ID">>, "int")>>, <<Col(<<"x">>, "int")>>},
          other : {<<"i">>, <<"j">>}, writes : {0, 1}, queries : {0, 99999}]
MCCollected ==
  {<<User(s.key), Users(s.other, s.queries), Order(<<"i">>, s.writes), Item(s.fks)>> : s \in Stats}
    \cup {<<Item(s.fks), Order(s.other, s.writes), Users(<<"i">>, s.queries), User(s.key)>> : s \in Stats}
    \cup {<<Alone, Item(s.fks)>> : s \in Stats} \cup {<<>>}
    \cup {<<User(<<>>), [Order(<<"j">>, 0) EXCEPT !.kind = "clickhouse"]>>}

Name == <<"user">>
Variants ==
  LET age == Col(<<"age">>, "int")
      base == [Table(<<"i">>, Name, <<PK, age>>) EXCEPT !.indexes = <<Idx(<<"a">>, <<<<"age">>>>)>>]
  IN  {base}
        \cup {[base EXCEPT !.columns = <<PK, With(age, f, "x")>>] : f \in {"default", "comment"}}
        \cup {[base EXCEPT !.columns = <<PK, With(age, f, "true")>>] :
                f \in MCFlags \ {"default", "comment"}}
        \cup {[base EXCEPT !.columns = cols] :
                cols \in {<<PK>>, <<age, PK>>, <<PK, age, Col(<<"tag">>, "text")>>,
                          <<With(Col(<<"ID">>, "INT"), "is_primary", "true"), age>>,
                          <<PK, Col(<<"age">>, "text")>>, <<PK, Col(<<"ID">>, "text")>>}}
        \cup {[base EXCEPT !.indexes = xs] :
                xs \in {<<>>, <<Idx(<<"a">>, <<<<"id">>>>)>>, <<Idx(<<"b">>, <<<<"age">>>>)>>}}
        \cup {[base EXCEPT !.fks = fks] :
                fks \in {<<FK(<<"f">>, <<<<"age">>>>, Name, <<<<"id">>>>)>>,
                         <<FK(<<"f">>, <<<<"age">>>>, <<"x">>, <<<<"id">>>>)>>}}
        \cup {[base EXCEPT !.name = <<"x">>], [base EXCEPT !.inst = <<"j">>]}

MCCompared == {<<<<a>>, <<b>>>> : a \in Variants, b \in Variants}
                \cup {<<<<>>, <<b>>>> : b \in Variants} \cup {<<<<a>>, <<>>>> : a \in Variants}
                \cup {<<<<a>>, <<a, [b EXCEPT !.inst = <<"k">>]>>>> : a \in Variants, b \in Variants}

\* A label that the DSN's host and database make up (labelFrom).
MCDefaultLabel ==
  {<<<<>>, <<[t EXCEPT !.inst = <<"host", "/", "d">>]>>>> : t \in Variants}
MCNone == {}
=============================================================================
