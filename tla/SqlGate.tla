------------------------------ MODULE SqlGate ------------------------------
(* The gate with the guard of sqlguard.go, the parser, and the names that the *)
(* policy finds in a text, and what they promise of a statement together.    *)
EXTENDS Gate, SqlGuard

ASSUME LimitAssumption == MaxRows \in DOMAIN IntValue

------------------------------------------------------------------------------
\* What the policy checks take a statement to refer to (policy.go): the tables
\* and columns of its tree, or, where the parser refuses the text, names at
\* certain words of it.

\* A schema-qualified name also counts as its table and as its schema.
NameAndParts(n) == IF Len(n) = 2 THEN {n, <<n[2]>>, <<n[1]>>} ELSE {n} \ {<<>>}

RECURSIVE TablesOf(_)
TablesOf(s) ==
  IF s.kind = "union" THEN TablesOf(s.left) \cup TablesOf(s.right)
  ELSE NameAndParts(s.from)
         \cup UNION {NameAndParts(s.joins[i].table) : i \in 1 .. Len(s.joins)}

\* The fallback for text the parser refuses: the names after these words and
\* white space; the parts of a name are joined by a dot without blanks.
TableWords == {"FROM", "JOIN", "UPDATE", "INTO", "TABLE"}
TablesInText(text) ==
  LET ts == OneSpace(text)
  IN  UNION {IF At(ts, i + 1) # " " \/ At(ts, i + 2) \notin Ident THEN {}
             ELSE NameAndParts(IF At(ts, i + 3) = "." /\ At(ts, i + 4) \in Ident
                               THEN <<At(ts, i + 2), At(ts, i + 4)>>
                               ELSE <<At(ts, i + 2)>>) :
             i \in {j \in 1 .. Len(ts) : ts[j] \in TableWords}}

ExtractTableNames(ts) ==
  IF Parse(Words(ts)).ok THEN TablesOf(Parse(Words(ts)).val) ELSE TablesInText(ts)

RefOf(c) == IF c.table = "" THEN <<c.name>> ELSE <<c.table, c.name>>

\* collectColRefs; a window's columns are not looked at.
RECURSIVE RefsOf(_), StatementRefs(_)
RefsOf(e) ==
  CASE e.kind = "col" -> {RefOf(e)}
    [] e.kind = "bin" -> RefsOf(e.left) \cup RefsOf(e.right)
    [] e.kind = "un" -> RefsOf(e.operand)
    [] e.kind = "call" -> UNION {RefsOf(e.args[i]) : i \in 1 .. Len(e.args)}
    [] e.kind = "cast" -> RefsOf(e.arg)
    [] e.kind = "between" -> RefsOf(e.expr) \cup RefsOf(e.low) \cup RefsOf(e.high)
    [] e.kind = "subquery" -> StatementRefs(e.stmt)
    [] OTHER -> {}

StatementRefs(s) ==
  IF s.kind = "union" THEN StatementRefs(s.left) \cup StatementRefs(s.right)
  ELSE UNION ({RefsOf(s.columns[i].expr) : i \in 1 .. Len(s.columns)}
              \cup {RefsOf(e) : e \in Range(s.where) \cup Range(s.having)}
              \cup {RefsOf(s.joins[i].on) : i \in 1 .. Len(s.joins)}
              \cup {{RefOf(s.groupBy[i])} : i \in 1 .. Len(s.groupBy)}
              \cup {{RefOf(s.orderBy[i].col)} : i \in 1 .. Len(s.orderBy)})

\* The fallback finds dotted names only; of three parts also the last two.
Dotted(ts) == {i \in 1 .. Len(ts) : At(ts, i) \in Ident /\ At(ts, i + 1) = "."
                                      /\ At(ts, i + 2) \in Ident}
RefsInText(ts) ==
  {<<ts[i], ts[i + 2]>> : i \in {j \in Dotted(ts) : j + 2 \notin Dotted(ts)}}
    \cup {<<ts[i], ts[i + 2], ts[i + 4]>> : i \in {j \in Dotted(ts) : j + 2 \in Dotted(ts)}}

ExtractColumnRefs(ts) ==
  IF Parse(Words(ts)).ok THEN StatementRefs(Parse(Words(ts)).val) ELSE RefsInText(ts)

------------------------------------------------------------------------------
\* What guard, lexer and parser promise of a statement.

\* A statement written by the grammar of SQL, with parentheses where a
\* sub-expression ends, is parsed into the tree it was written from: no
\* clause, qualifier, bracket or direction is lost or moved (parser.go).
ParsedAsWritten ==
  job.sql /\ job.tree # <<>> =>
    Parse(Words(job.text)) = Ok(job.tree[1], Len(Words(job.text)) + 1)

\* The forms of EXPLAIN: what the executor writes for each kind of source and
\* what stripExplainPrefix documents (sqlguard.go:267-274).
ExplainForms ==
  {ExplainPrefix(k) : k \in {"mysql", "postgres", "gaussdb", "sqlite", "clickhouse",
                             "oracle", "duckdb"}}
    \cup {<<"EXPLAIN", "\n", "ANALYZE", " ">>, <<"EXPLAIN", " ", "VERBOSE", "\n">>,
          <<"EXPLAIN", " ", "ANALYZE", " ", "FORMAT", " ", "=", " ", "JSON", " ">>}

\* An EXPLAIN of any form in front of a text, or two of them, changes nothing in
\* what the guard says of it: what one package writes the other reads back.  A text
\* that could be taken for options is left out, one that starts with a
\* parenthesis or an option word (package comment of sqlguard.go:10-14;
\* wrapExplain of executor.go).
ExplainSeesThrough ==
  phase \in {"guarded", "rejected"} /\ At(Words(job.text), 1) \notin Modifiers \cup {"("} =>
    \A form \in ExplainForms, more \in {<<>>, ExplainPrefix("postgres")} :
      Validate(more \o form \o job.text) = "allowed" <=> phase = "guarded"

IsSelect(text) == Parse(Words(text)).ok /\ Parse(Words(text)).val.kind = "select"

\* The places of LIMIT outside parentheses, and those of longer words and of
\* strings in which LIMIT and a blank are spelled.
LimitsAt(text) == Positions(Words(Outer(text, 1, 0)), "LIMIT")
LimitLike(text) ==
  LET outer == Outer(Trim(text), 1, 0)
  IN  \E i \in 1 .. Len(outer) :
        outer[i] # "LIMIT" /\ Spelled(outer, i, "LIMIT", White \cup {"EOF"})

\* A SELECT reaches the source with at most one LIMIT of its own level, the one
\* it was written with or else the flag's, with nothing else changed, and
\* rewriting it again would change nothing.  It has one unless LIMIT is also
\* spelled within a longer word or a string of that level (AutoLimit).
LimitedOnce ==
  phase = "ready" /\ job.sql /\ ~ job.explain /\ IsSelect(job.text) =>
    /\ Cardinality(LimitsAt(sent)) <= 1
    /\ LimitLike(job.text) \/ LimitsAt(sent) # {}
    /\ IF LimitsAt(job.text) # {} \/ LimitsAt(sent) = {} THEN sent = Trim(job.text)
       ELSE sent = TrimEnd(job.text, White \cup {";"}) \o LimitClause(MaxRows)
    /\ AutoLimit(sent, MaxRows) = sent

\* A SELECT reaches the source with a LIMIT of its own level.  sqlguard.go:467
\* says that AutoLimit "appends "LIMIT n" to a SELECT query if no LIMIT clause
\* is already present".
LimitPresent ==
  phase = "ready" /\ job.sql /\ ~ job.explain /\ IsSelect(job.text) =>
    LimitsAt(sent) # {}

\* Validate gives a verdict on every statement.  sqlguard.go:276-278 says of
\* the text stripExplainPrefix returns that it "is strictly shorter than the
\* input (at least the EXPLAIN token is consumed), which bounds any recursive
\* validation".
VerdictGiven == phase # "crashed"
=============================================================================
