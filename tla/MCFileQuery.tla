---------------------------- MODULE MCFileQuery ----------------------------
(* Families of statements over tables with a key column and a column that
   tells the rows apart: joins of tables of up to two rows; ordered, distinct
   and paged selections and aggregations over up to three rows.  The keys are
   empty, "01" and "1" (one number, two texts) and "2".  Smaller families have
   rows that are shorter than the header, a header that repeats a name, tables
   without an alias and a limit of the caller that is 0 or negative.         *)
EXTENDS FileQuery

MCTexts == <<"", "01", "1", "2", "p", "q", "s", "t", "u">>

MCNumber == [c \in Range(MCTexts) |->
               CASE c \in {"01", "1"} -> 1 [] c = "2" -> 2 [] OTHER -> NaN]

Keys == {"", "01", "1", "2"}

\* The tables: row i has the identity ids[i].
Table(alias, hdr, ids, n) ==
  {[alias |-> alias, header |-> hdr, rows |-> [i \in 1 .. m |-> <<ks[i], ids[i]>>]] :
     m \in {n}, ks \in [1 .. n -> Keys]}

Left(n)  == UNION {Table("l", <<"k", "a">>, <<"p", "q", "u">>, m) : m \in 0 .. n}
Right(n) == UNION {Table("r", <<"k", "b">>, <<"s", "t">>, m) : m \in 0 .. n}

Ref(t, c) == [table |-> t, col |-> c]
Cond(o, t, c, v) == [op |-> o, ref |-> Ref(t, c), lit |-> v]

Plain == [join |-> "NONE", on |-> [left |-> Ref("l", "k"), right |-> Ref("r", "k")],
          chain |-> "AND", conds |-> <<>>, aggregate |-> FALSE, groupBy |-> <<>>,
          order |-> [ref |-> Ref("l", "k"), dir |-> "", nulls |-> ""],
          distinctOn |-> <<>>, limit |-> 0, offset |-> 0, select |-> <<>>]

Joins ==
  {[Plain EXCEPT !.join = j, !.on = o, !.conds = w, !.select = c] :
     j \in {"INNER", "LEFT", "RIGHT"},
     o \in {[left |-> Ref("l", "k"), right |-> Ref("r", "k")],
            [left |-> Ref("r", "k"), right |-> Ref("l", "k")]},
     w \in {<<>>, <<Cond("=", "r", "k", "1")>>, <<Cond("=", "r", "b", "s")>>,
            <<Cond("=", "l", "a", "p"), Cond("<>", "r", "k", "1")>>},
     c \in {<<>>, <<Ref("l", "a"), Ref("r", "b"), Ref("r", "k")>>}}

Wheres ==
  {[Plain EXCEPT !.conds = w, !.chain = IF Len(w) > 1 THEN c ELSE "AND"] :
     c \in {"AND", "OR"},
     w \in {<<>>, <<Cond("=", "l", "k", "1")>>,
            <<Cond("<", "l", "k", "2"), Cond("=", "l", "a", "p")>>}}

Pages ==
  {[w EXCEPT !.order = [ref |-> Ref("l", c), dir |-> d, nulls |-> n],
             !.distinctOn = o, !.limit = p[1], !.offset = p[2]] :
     w \in Wheres, c \in {"k", "a"}, d \in {"ASC", "DESC"}, n \in {"", "FIRST", "LAST"},
     o \in {<<>>, <<Ref("l", "k")>>}, p \in {<<0, 0>>, <<1, 1>>, <<2, 1>>, <<0, 3>>}}

Aggregates ==
  {[w EXCEPT !.aggregate = TRUE, !.groupBy = g] :
     w \in Wheres, g \in {<<>>, <<Ref("l", "k")>>, <<Ref("l", "missing")>>}}

Missing == {[Plain EXCEPT !.select = <<Ref("l", "k"), Ref("l", "missing")>>]}

Input(ls, rs, stmts) == [l : ls, r : rs, stmt : stmts, maxRows : {2}]

\* Rows that end before the second column, or go on behind it.
Ragged(n) ==
  {[alias |-> "l", header |-> <<"a", "k">>, rows |-> rs] :
     rs \in [1 .. n -> {<<"p">>, <<"q", "1">>, <<"q", "01", "s">>}]}

\* A header with one name for both columns.
Twice == {[T EXCEPT !.header = <<"k", "k">>] : T \in Right(1)}

Unnamed(Ts) == {[T EXCEPT !.alias = ""] : T \in Ts}

\* What the caller allows a statement without LIMIT.
Allowed(n) == {[i EXCEPT !.maxRows = n] : i \in Input(Left(2), Right(0), {Plain})}

MCInputs ==
  UNION {Input(Left(2), Right(2), Joins),
         Input(Left(3), Right(0), Pages \cup Aggregates \cup Missing),
         Input(Ragged(2), Right(1), Joins),
         Input(Ragged(3), Right(0), Pages \cup Aggregates \cup Missing),
         Input(Left(1), Twice, Joins),
         Input(Left(1), Unnamed(Right(1)), Joins),
         Input(Unnamed(Left(1)), Right(1), Joins),
         Allowed(0), Allowed(-1)}

=============================================================================
