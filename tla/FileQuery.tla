----------------------------- MODULE FileQuery -----------------------------
(* The in-memory engine that runs a SELECT over the rows of files: join,
   filter, grouping, ordering, DISTINCT ON, page and projection, in the order
   of executeSelect, one action for each.

   A row is a sequence of cells, as in the code: columns are found by position
   through a column map, and a row may be shorter or longer than its header.
   A cell is text; Number gives the number that it parses to, or NaN, so that
   two different texts may be the same number.  The texts are listed in their
   string order, the empty one (NULL) first.                                 *)
EXTENDS Picks, Functions

CONSTANTS Texts,     \* the texts of cells, in string order, "" first
          Number,    \* the number each of them parses to
          NaN,
          Inputs     \* the statements with the tables they run on

Blank == Texts[1]

Row == Seq(Range(Texts))

\* Number stands for ParseFloat of strconv, with the numbers told apart by their
\* order only.  Texts that parse to "not a number" are left out, since such a
\* cell would not equal itself, and so are texts with spaces around a number,
\* which the WHERE trims and the ORDER BY does not.
ASSUME TextsAssumption ==
  /\ Texts \in Seq(Range(Texts)) /\ Len(Texts) > 0
  /\ Number \in [Range(Texts) -> Int \cup {NaN}]
  /\ NaN \notin Int /\ Number[Blank] = NaN

\* A LIMIT or OFFSET is a literal without a sign; the limit of the caller is
\* a flag and may be any number.
ASSUME InputsAssumption ==
  \A i \in Inputs :
    /\ i.l.rows \in Seq(Row) /\ i.l.header \in Seq(Range(i.l.header))
    /\ i.r.rows \in Seq(Row) /\ i.r.header \in Seq(Range(i.r.header))
    /\ i.stmt.join \in {"NONE", "INNER", "LEFT", "RIGHT"}
    /\ i.stmt.conds \in Seq(Range(i.stmt.conds))
    /\ i.stmt.limit \in Nat /\ i.stmt.offset \in Nat
    /\ i.maxRows \in Int

VARIABLES in,        \* the input: tables l and r, and the statement
          stage,     \* the stage to run next
          prev,      \* the rows before the last stage
          data,      \* the rows
          header     \* the columns of the rows as SELECT * prints them

engine == <<in, stage, prev, data, header>>

st == in.stmt

-----------------------------------------------------------------------------
(* Columns. *)

\* The least and the greatest of a set of positions, 0 if it is empty.
Least(S)    == IF S = {} THEN 0 ELSE CHOOSE i \in S : \A j \in S : i <= j
Greatest(S) == IF S = {} THEN 0 ELSE CHOOSE i \in S : \A j \in S : j <= i

\* findColIndex: 0 for a column that the header lacks.
Find(hdr, col) == Least({i \in DOMAIN hdr : hdr[i] = col})

\* What a map filled in the order of the header has for a column.
FindLast(hdr, col) == Greatest({i \in DOMAIN hdr : hdr[i] = col})

\* The map that executeSelect builds after a join: qualified names for both
\* sides, and bare names, of which the left side's come first.
ColMap(L, R) ==
  LET n == Len(L.header)
  IN  [q \in ({L.alias} \X Range(L.header)) \cup ({R.alias} \X Range(R.header))
             \cup ({""} \X (Range(L.header) \cup Range(R.header))) |->
         IF q[1] # "" /\ q[1] = R.alias /\ q[2] \in Range(R.header)
         THEN n + FindLast(R.header, q[2])
         ELSE IF q[2] \in Range(L.header) THEN FindLast(L.header, q[2])
         ELSE n + Find(R.header, q[2])]

\* The map for the condition of a join is the same, but for a right side that
\* has no alias: its columns take their bare names from the left side's.
JoinColMaps(L, R) ==
  [q \in DOMAIN ColMap(L, R) |->
     IF R.alias = "" /\ q[1] = "" /\ q[2] \in Range(R.header)
     THEN Len(L.header) + FindLast(R.header, q[2])
     ELSE ColMap(L, R)[q]]

\* The position of a reference: by its qualified name, then by its bare name.
Resolve(cm, ref) ==
  IF <<ref.table, ref.col>> \in DOMAIN cm THEN cm[<<ref.table, ref.col>>]
  ELSE IF <<"", ref.col>> \in DOMAIN cm THEN cm[<<"", ref.col>>] ELSE 0

\* The map of the statement, the join's type notwithstanding.
Cols(q) ==
  IF q.stmt.join = "NONE" THEN ColMap(q.l, [alias |-> "", header |-> <<>>])
  ELSE ColMap(q.l, q.r)

\* The position that grouping, ordering and DISTINCT ON use: the table that
\* the reference names is not looked at.
Position(q, ref) ==
  IF <<"", ref.col>> \in DOMAIN Cols(q) THEN Cols(q)[<<"", ref.col>>]
  ELSE IF <<q.l.alias, ref.col>> \in DOMAIN Cols(q) THEN Cols(q)[<<q.l.alias, ref.col>>]
  ELSE 0

\* Where a missing cell is taken for an empty one.
Cell(row, i) == IF i \in DOMAIN row THEN row[i] ELSE Blank

-----------------------------------------------------------------------------
(* Expressions.  evalBinaryOp compares two numbers as numbers and anything
   else as text.                                                             *)

Equal(x, y) ==
  IF Number[x] # NaN /\ Number[y] # NaN THEN Number[x] = Number[y] ELSE x = y

Rank(x) == Find(Texts, x)

Below(x, y) ==
  IF Number[x] # NaN /\ Number[y] # NaN THEN Number[x] < Number[y]
  ELSE Rank(x) < Rank(y)

\* A condition has a value on a row that has its column.
Evaluates(q, cond, row) == Resolve(Cols(q), cond.ref) \in DOMAIN row

Holds(q, cond, row) ==
  LET x == row[Resolve(Cols(q), cond.ref)]
  IN  /\ Evaluates(q, cond, row)
      /\ \/ cond.op = "=" /\ Equal(x, cond.lit)
         \/ cond.op = "<>" /\ ~Equal(x, cond.lit)
         \/ cond.op = "<" /\ Below(x, cond.lit)

\* A WHERE that cannot be evaluated drops the row: an OR stops at the first
\* condition that holds, or that has no value.
Where(q, row) ==
  LET conds == q.stmt.conds
  IN  IF q.stmt.chain = "AND" THEN \A n \in DOMAIN conds : Holds(q, conds[n], row)
      ELSE \E n \in DOMAIN conds :
             /\ Holds(q, conds[n], row)
             /\ \A m \in 1 .. n - 1 : Evaluates(q, conds[m], row)

-----------------------------------------------------------------------------
(* executeHashJoin. *)

\* The hash join needs the right-hand side of the ON to be of the right table;
\* otherwise every pair of rows is tried.
Hashed(R, on) == on.right.table \in {R.alias, ""} /\ Find(R.header, on.right.col) # 0

\* A row in a join is as wide as its header.
Fitted(T, row) == [k \in 1 .. Len(T.header) |-> Cell(row, k)]

Joined(L, R, lrow, rrow) == Fitted(L, lrow) \o Fitted(R, rrow)

Matches(L, R, on, lrow, rrow) ==
  IF Hashed(R, on)
  THEN Cell(lrow, Find(L.header, on.left.col)) = Cell(rrow, Find(R.header, on.right.col))
  ELSE LET a   == Resolve(JoinColMaps(L, R), on.left)
           b   == Resolve(JoinColMaps(L, R), on.right)
           row == Joined(L, R, lrow, rrow)
       IN  a # 0 /\ b # 0 /\ Equal(row[a], row[b])

\* The matches of a left row i, each <<i, j>> with a right row j.
MatchesOf(L, R, on, i) ==
  {<<i, j>> : j \in {j \in DOMAIN R.rows : Matches(L, R, on, L.rows[i], R.rows[j])}}

\* A mutant of Pairs: unmatched rows are dropped in a LEFT JOIN as well.
InnerPairs(L, R, on, type) == UNION {MatchesOf(L, R, on, i) : i \in DOMAIN L.rows}

\* What a join gives a row for: the matches and, in a LEFT JOIN, the left rows
\* that have none, each as <<i, 0>>.
Pairs(L, R, on, type) ==
  (UNION {MatchesOf(L, R, on, i) : i \in DOMAIN L.rows})
  \cup {<<i, 0>> : i \in {i \in DOMAIN L.rows :
                            type = "LEFT" /\ MatchesOf(L, R, on, i) = {}}}

HashJoin(L, R, on, type) ==
  LET pairs == PairList(Pairs(L, R, on, type))
  IN  [k \in DOMAIN pairs |->
         Joined(L, R, L.rows[pairs[k][1]],
                IF pairs[k][2] = 0 THEN <<>> ELSE R.rows[pairs[k][2]])]

-----------------------------------------------------------------------------
(* What the stages after the join do to the rows, for an input q. *)

\* The first equality of a conjunction, by which rows are looked up in an index
\* of the texts of its column, whose bare name is used; 0 if there is none.
Indexed(q) ==
  IF q.stmt.chain # "AND" THEN 0
  ELSE Least({n \in DOMAIN q.stmt.conds : q.stmt.conds[n].op = "="})

UsesIndex(q) ==
  Indexed(q) # 0 /\ <<"", q.stmt.conds[Indexed(q)].ref.col>> \in DOMAIN Cols(q)

InIndex(q, row) ==
  LET c == q.stmt.conds[Indexed(q)]
      i == Cols(q)[<<"", c.ref.col>>]
  IN  i \in DOMAIN row /\ row[i] = c.lit

\* A mutant of Passes: an index answers the whole WHERE.
PassesIndexOnly(q, row) == IF UsesIndex(q) THEN InIndex(q, row) ELSE Where(q, row)

\* The WHERE is evaluated on what the index gives, unless it is one equality.
Passes(q, row) ==
  IF UsesIndex(q) THEN InIndex(q, row) /\ (Len(q.stmt.conds) > 1 => Where(q, row))
  ELSE Where(q, row)

\* applyWhereFilter.
Filter(q, rows) == Picked(rows, {i \in DOMAIN rows : Passes(q, rows[i])})

\* A mutant of GroupKey: texts of one number are one key.
GroupKeyNumber(q, row) ==
  [n \in DOMAIN q.stmt.groupBy |->
     CHOOSE t \in Range(Texts) : Equal(t, Cell(row, Position(q, q.stmt.groupBy[n])))]

\* The values of the GROUP BY columns: one group if there are none.
GroupKey(q, row) ==
  [n \in DOMAIN q.stmt.groupBy |-> Cell(row, Position(q, q.stmt.groupBy[n]))]

\* The first rows of the groups, in their order.
Groups(q, rows) ==
  Picked(rows, {i \in DOMAIN rows :
                  \A j \in 1 .. i - 1 : GroupKey(q, rows[j]) # GroupKey(q, rows[i])})

\* The row of each group has its key and its count, -1 for a cell that is
\* empty.  Without any row there is one group all the same, with empty cells.
Counts(q, rows) ==
  LET firsts == Groups(q, rows)
  IN  IF rows = <<>> THEN << <<[n \in DOMAIN q.stmt.groupBy |-> Blank], -1>> >>
      ELSE [g \in DOMAIN firsts |->
              <<GroupKey(q, firsts[g]),
                Cardinality({i \in DOMAIN rows :
                               GroupKey(q, rows[i]) = GroupKey(q, firsts[g])})>>]

\* A mutant of Precedes: an empty cell is compared as text.
PrecedesBlind(q, x, y) ==
  LET i == Position(q, q.stmt.order.ref)
  IN  /\ i \in DOMAIN x \cap DOMAIN y
      /\ IF q.stmt.order.dir = "DESC" THEN Below(y[i], x[i]) ELSE Below(x[i], y[i])

\* Empty cells are NULLs, which come last in an ascending order and first in a
\* descending one, unless it says otherwise.
NullsFirst(q) ==
  \/ q.stmt.order.nulls = "FIRST"
  \/ q.stmt.order.nulls = "" /\ q.stmt.order.dir = "DESC"

\* The comparison of ORDER BY.
Precedes(q, x, y) ==
  LET i == Position(q, q.stmt.order.ref)
  IN  /\ i \in DOMAIN x \cap DOMAIN y
      /\ IF x[i] = Blank \/ y[i] = Blank
         THEN x[i] # y[i] /\ (x[i] = Blank <=> NullsFirst(q))
         ELSE IF q.stmt.order.dir = "DESC" THEN Below(y[i], x[i]) ELSE Below(x[i], y[i])

\* Row i goes behind the last of the rows of perm that it does not precede.
Insert(q, rows, perm, i) ==
  LET behind == Greatest({k \in DOMAIN perm : ~Precedes(q, rows[i], rows[perm[k]])})
  IN  [k \in 1 .. Len(perm) + 1 |->
         IF k <= behind THEN perm[k] ELSE IF k = behind + 1 THEN i ELSE perm[k - 1]]

\* The insertion sort of sort.SliceStable, which it is on short slices, of the
\* positions of the rows.
Sorted(q, rows) ==
  LET perm[n \in 0 .. Len(rows)] ==
        IF n = 0 THEN <<>> ELSE Insert(q, rows, perm[n - 1], n)
  IN  [k \in DOMAIN rows |-> rows[perm[Len(rows)][k]]]

\* The values of the DISTINCT ON columns; one that is not found is left out.
DistinctKey(q, row) ==
  [n \in DOMAIN q.stmt.distinctOn |-> Cell(row, Position(q, q.stmt.distinctOn[n]))]

\* A mutant of FirstOfEach: only neighbours are compared.
FirstOfRun(q, rows) ==
  Picked(rows, {i \in DOMAIN rows :
                  i = 1 \/ DistinctKey(q, rows[i - 1]) # DistinctKey(q, rows[i])})

\* dedupDistinctOn: the keys of the rows kept so far are those that were seen.
FirstOfEach(q, rows) ==
  LET kept[n \in 0 .. Len(rows)] ==
        IF n = 0 THEN <<>>
        ELSE IF \E m \in DOMAIN kept[n - 1] :
                  DistinctKey(q, kept[n - 1][m]) = DistinctKey(q, rows[n])
             THEN kept[n - 1]
             ELSE Append(kept[n - 1], rows[n])
  IN  kept[Len(rows)]

\* The caller's limit is for a statement without LIMIT.
Limit(q) == IF q.stmt.limit <= 0 THEN q.maxRows ELSE q.stmt.limit

Lesser(m, n) == IF m > n THEN n ELSE m

\* What OFFSET skips, and where LIMIT ends the page.
Offset(q, rows) == Lesser(q.stmt.offset, Len(rows))

\* A mutant of End: OFFSET is applied to what LIMIT left.
EndLimitFirst(q, rows) == Lesser(Limit(q), Len(rows))

End(q, rows) == Lesser(Offset(q, rows) + Limit(q), Len(rows))

\* The cells of a row under SELECT *, and under a list of columns.
Starred(hdr, row) == SubSeq(row, 1, Lesser(Len(row), Len(hdr)))

Listing(q, row) ==
  [n \in DOMAIN q.stmt.select |-> row[Resolve(Cols(q), q.stmt.select[n])]]

-----------------------------------------------------------------------------
(* The stages. *)

Start ==
  /\ in \in Inputs
  /\ stage = "join"
  /\ prev = <<>>
  /\ data = in.l.rows
  /\ header = in.l.header

Go(to, rows) ==
  /\ stage' = to
  /\ prev' = data
  /\ data' = rows
  /\ UNCHANGED in

\* RIGHT JOIN swaps the sides and is a LEFT JOIN from then on.
Join ==
  /\ stage = "join"
  /\ \/ /\ st.join = "NONE"
        /\ Go("where", data) /\ UNCHANGED header
     \/ /\ st.join = "RIGHT"
        /\ Go("where", HashJoin(in.r, in.l, st.on, "LEFT"))
        /\ header' = in.r.header \o in.l.header
     \/ /\ st.join \in {"INNER", "LEFT"}
        /\ Go("where", HashJoin(in.l, in.r, st.on, st.join))
        /\ header' = in.l.header \o in.r.header

WhereStage ==
  /\ stage = "where"
  /\ Go(IF st.aggregate THEN "group" ELSE "order",
        IF st.conds = <<>> THEN data ELSE Filter(in, data))
  /\ UNCHANGED header

\* SELECT <GROUP BY columns>, COUNT(all).  ORDER BY of such a statement, which
\* sorts the result by its own columns, is not modelled; LIMIT, OFFSET and the
\* row limit of the caller do not apply to it.
Group ==
  /\ stage = "group"
  /\ IF \E n \in DOMAIN st.groupBy : Position(in, st.groupBy[n]) = 0
     THEN Go("failed", <<>>)
     ELSE Go("done", Counts(in, data))
  /\ UNCHANGED header

Order ==
  /\ stage = "order"
  /\ Go("distinct", IF st.order.dir = "" THEN data ELSE Sorted(in, data))
  /\ UNCHANGED header

Distinct ==
  /\ stage = "distinct"
  /\ Go("page", IF st.distinctOn = <<>> THEN data ELSE FirstOfEach(in, data))
  /\ UNCHANGED header

\* LIMIT and OFFSET.  With a negative limit of the caller the page ends before
\* it starts, and the slice expression panics.
Page ==
  /\ stage = "page"
  /\ IF End(in, data) < Offset(in, data) THEN Go("failed", <<>>)
     ELSE Go("project", SubSeq(data, Offset(in, data) + 1, End(in, data)))
  /\ UNCHANGED header

\* buildResult: SELECT * prints the rows under the header, a list of columns is
\* looked up in the map, and a column that is not found is an error if there is
\* a row to look it up in, and so is a row that ends before it.
Project ==
  /\ stage = "project"
  /\ IF st.select = <<>>
     THEN /\ Go("done", [k \in DOMAIN data |-> Starred(header, data[k])])
          /\ UNCHANGED header
     ELSE /\ header' = [n \in DOMAIN st.select |-> st.select[n].col]
          /\ IF \E k \in DOMAIN data, n \in DOMAIN st.select :
                  Resolve(Cols(in), st.select[n]) \notin DOMAIN data[k]
             THEN Go("failed", <<>>)
             ELSE Go("done", [k \in DOMAIN data |-> Listing(in, data[k])])

Over == stage \in {"done", "failed"} /\ UNCHANGED engine

Step == Join \/ WhereStage \/ Group \/ Order \/ Distinct \/ Page \/ Project \/ Over

Execution == Start /\ [][Step]_engine

-----------------------------------------------------------------------------
(* Properties. *)

\* The sides of the join in the order in which its rows have them.
First  == IF st.join = "RIGHT" THEN in.r ELSE in.l
Second == IF st.join = "RIGHT" THEN in.l ELSE in.r

\* The header has the column, once.
HasOne(T, col) == Cardinality({i \in DOMAIN T.header : T.header[i] = col}) = 1

\* One side of the ON is a column of one table, the other one of the other.
OnSides(A, B) ==
  /\ A.alias # "" /\ B.alias # "" /\ A.alias # B.alias
  /\ st.on.left.table = A.alias /\ HasOne(A, st.on.left.col)
  /\ st.on.right.table = B.alias /\ HasOne(B, st.on.right.col)

\* The cell of a row of table T that the ON compares.
OnCell(T, row) ==
  Cell(row, Find(T.header, IF st.on.left.table = T.alias THEN st.on.left.col
                           ELSE st.on.right.col))

\* A join gives each pair of rows with one text in the columns of its ON, once,
\* and no pair that the comparison of the engine tells apart (between the two,
\* "1" and "01", it depends on how the ON is written); an outer join also gives
\* each row without a partner once, and nothing else comes out of it: src says
\* which rows each row of the result is made of.
JoinExact ==
  stage = "where" /\ st.join # "NONE" /\ (OnSides(in.l, in.r) \/ OnSides(in.r, in.l)) =>
    \E src \in [DOMAIN data -> (DOMAIN First.rows) \X (0 .. Len(Second.rows))] :
      /\ \A p, q \in DOMAIN src : src[p] = src[q] => p = q
      /\ \A p \in DOMAIN src :
           data[p] = Joined(First, Second, First.rows[src[p][1]],
                            IF src[p][2] = 0 THEN <<>> ELSE Second.rows[src[p][2]])
      /\ \A i \in DOMAIN First.rows, j \in DOMAIN Second.rows :
           LET x == OnCell(First, First.rows[i])
               y == OnCell(Second, Second.rows[j])
           IN  /\ x = y => <<i, j>> \in Range(src)
               /\ <<i, j>> \in Range(src) => Equal(x, y)
      /\ \A i \in DOMAIN First.rows :
           <<i, 0>> \in Range(src) <=>
             /\ st.join # "INNER"
             /\ \A j \in DOMAIN Second.rows : <<i, j>> \notin Range(src)

\* The rows are those that stood at these positions, in their order.
KeptFrom(at) ==
  /\ \A k, m \in DOMAIN at : k < m => at[k] < at[m]
  /\ data = [k \in DOMAIN at |-> prev[at[k]]]

\* The column an index is built on has a name that another one has too.
Ambiguous ==
  /\ st.join # "NONE" /\ Indexed(in) # 0
  /\ LET col == st.conds[Indexed(in)].ref.col
     IN  /\ col \in Range(in.r.header)
         /\ col \in Range(in.l.header) \/ ~HasOne(in.r, col)

\* The index never shows: what the filter keeps satisfies the whole WHERE, and
\* it loses no row that does, but for those that equal a literal as a number
\* and not as a text.
FilterSound ==
  stage \in {"group", "order"} /\ st.conds # <<>> /\ ~Ambiguous =>
    \E at \in [DOMAIN data -> DOMAIN prev] :
      /\ KeptFrom(at)
      /\ \A k \in DOMAIN at : Where(in, prev[at[k]])
      /\ \A i \in DOMAIN prev :
           (/\ Where(in, prev[i])
            /\ \A n \in DOMAIN st.conds : st.conds[n].op = "=" =>
                 LET x == prev[i][Resolve(Cols(in), st.conds[n].ref)]
                 IN  Equal(x, st.conds[n].lit) => x = st.conds[n].lit)
           => i \in Range(at)

OrderCell(row) == row[Position(in, st.order.ref)]

\* Every row has the column, which has only numbers, or only texts that are
\* none.
Uniform(rows) ==
  LET cells == {OrderCell(row) : row \in Range(rows)} \ {Blank}
  IN  /\ \A row \in Range(rows) : Position(in, st.order.ref) \in DOMAIN row
      /\ (\A x \in cells : Number[x] = NaN) \/ (\A x \in cells : Number[x] # NaN)

\* The cell x may stand before the cell y: empty cells go where NULLS FIRST or
\* LAST wants them.
InOrder(x, y) ==
  /\ x = Blank /\ y # Blank => NullsFirst(in)
  /\ x # Blank /\ y = Blank => ~NullsFirst(in)
  /\ x # Blank /\ y # Blank =>
       ~(IF st.order.dir = "DESC" THEN Below(x, y) ELSE Below(y, x))

\* ORDER BY gives the same rows, each once, and over a uniform column in order,
\* rows that compare equal as they were.
OrderSound ==
  stage = "distinct" /\ st.order.dir # "" =>
    \E perm \in [DOMAIN prev -> DOMAIN prev] :
      /\ \A p, q \in DOMAIN perm : perm[p] = perm[q] => p = q
      /\ data = [k \in DOMAIN perm |-> prev[perm[k]]]
      /\ Uniform(prev) => \A p, q \in DOMAIN perm : p < q =>
           LET x == OrderCell(data[p])
               y == OrderCell(data[q])
           IN  /\ InOrder(x, y)
               /\ Equal(x, y) => perm[p] < perm[q]

\* DISTINCT ON keeps rows of its input, one for each key, and of all the rows
\* with its key the one that ORDER BY asks for: over a uniform column it may
\* stand before each of the others.  The rows that are kept are in order.
DistinctSound ==
  stage = "page" /\ st.distinctOn # <<>> =>
    LET Ordered == st.order.dir # "" /\ Uniform(prev)
    IN  /\ Range(data) \subseteq Range(prev)
        /\ \A k, m \in DOMAIN data :
             k < m => /\ DistinctKey(in, data[k]) # DistinctKey(in, data[m])
                      /\ Ordered => InOrder(OrderCell(data[k]), OrderCell(data[m]))
        /\ \A row \in Range(prev) : \E k \in DOMAIN data :
             /\ DistinctKey(in, data[k]) = DistinctKey(in, row)
             /\ Ordered => InOrder(OrderCell(data[k]), OrderCell(row))

\* A reader who pages through a result can stop at the first short page: one
\* with fewer rows than its limit is the last.
ShortPageIsLast ==
  stage = "project" =>
    /\ Len(data) < Limit(in) => st.offset + Len(data) >= Len(prev)
    /\ \A n \in DOMAIN data : data[n] = prev[st.offset + n]

\* Every row that the WHERE kept is counted in one group, that of its texts in
\* the GROUP BY columns, and no two groups have one key; without any row there
\* is no count.
EachCountedOnce ==
  stage = "done" /\ st.aggregate =>
    LET KeyOf(i) == [n \in DOMAIN st.groupBy |-> Cell(prev[i], Position(in, st.groupBy[n]))]
    IN  /\ \A p, q \in DOMAIN data : data[p][1] = data[q][1] => p = q
        /\ \A i \in DOMAIN prev : \E p \in DOMAIN data : data[p][1] = KeyOf(i)
        /\ \A p \in DOMAIN data :
             data[p][2] = IF prev = <<>> THEN -1
                          ELSE Cardinality({i \in DOMAIN prev : KeyOf(i) = data[p][1]})

\* A cell printed for a qualified column is one of that table's, or empty.
FromOwnTable(ref, cell) ==
  LET T == IF ref.table = in.l.alias THEN in.l ELSE in.r
  IN  cell \in {Blank} \cup UNION {{Cell(row, i) : i \in {i \in DOMAIN T.header :
                                                          T.header[i] = ref.col}} :
                                  row \in Range(T.rows)}

Printed ==
  /\ stage = "done" /\ ~st.aggregate /\ st.select # <<>>
  /\ in.l.alias # "" /\ in.r.alias # ""

\* The test document says that the columns of LEFT and RIGHT JOIN are mapped
\* correctly: what a RIGHT JOIN prints under a column is of that column's table.
RightColumnsRight ==
  Printed /\ st.join = "RIGHT" =>
    \A p \in DOMAIN data, n \in DOMAIN st.select : FromOwnTable(st.select[n], data[p][n])

=============================================================================
