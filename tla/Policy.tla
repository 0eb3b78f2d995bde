------------------------------- MODULE Policy -------------------------------
(* The deny policies and column masks of src/internal/policy/policy.go: how  *)
(* they are loaded, what a statement or a native query is checked against,   *)
(* and what is done to a result before it is shown.  Names are compared      *)
(* without case in the code and are in lower case here; comments and quoting *)
(* are not modelled.  A text is its tokens and the white space between them, *)
(* a name the sequence of its dotted parts.                                  *)
EXTENDS Picks, Functions, WhiteSpace

CONSTANTS GlobMatches,     \* filepath.Match: pattern -> the column names it takes
          PromFunctions,   \* names isPromQLFunc knows
          NamedTables(_),  \* extractTableNames: the tables a statement names
          NamedColumns(_)  \* extractColumnRefs: its columns

-----------------------------------------------------------------------------
(* Load.  The environment gives for every variable the list it holds; a      *)
(* source with a key adds its own lists, and its masks replace global masks  *)
(* of the same pattern.                                                      *)

Unset == [tables |-> <<>>, columns |-> <<>>, statements |-> <<>>, masks |-> <<>>]

\* loadMask: an entry without a column is dropped, a later one replaces an
\* earlier one of the same column.
LoadMask(entries) ==
  LET cols == {entries[i].col : i \in 1 .. Len(entries)} \ {<<>>}
      LastOf(c) == CHOOSE i \in 1 .. Len(entries) :
                     /\ entries[i].col = c
                     /\ \A j \in i + 1 .. Len(entries) : entries[j].col # c
  IN  [c \in cols |-> entries[LastOf(c)].repl]

\* The masks m, those of k replaced by k's.
Replaced(m, k) ==
  [c \in DOMAIN m \cup DOMAIN k |-> IF c \in DOMAIN k THEN k[c] ELSE m[c]]

\* (Mutant: the global masks replace the source's own.)
MutLoadPolicy(env, key) ==
  LET own == IF key \in DOMAIN env THEN env[key] ELSE Unset
      all == env["global"]
  IN  [tables     |-> all.tables \o own.tables,
       columns    |-> all.columns \o own.columns,
       statements |-> all.statements \o own.statements,
       masks      |-> Replaced(LoadMask(own.masks), LoadMask(all.masks))]

LoadPolicy(env, key) ==
  LET own == IF key \in DOMAIN env THEN env[key] ELSE Unset
      all == env["global"]
  IN  [tables     |-> all.tables \o own.tables,
       columns    |-> all.columns \o own.columns,
       statements |-> all.statements \o own.statements,
       masks      |-> Replaced(LoadMask(all.masks), LoadMask(own.masks))]

-----------------------------------------------------------------------------
(* The checks of a statement.                                                *)

\* A denied statement is a run of tokens somewhere in the text, its white space
\* made one blank each; in the code it is a run of letters, so that it may also
\* start or end within a longer word.
HasRun(ts, pattern) ==
  \E i \in 1 .. Len(ts) : i + Len(pattern) - 1 <= Len(ts)
                            /\ SubSeq(ts, i, i + Len(pattern) - 1) = pattern

DeniedStatement(p, ts) ==
  \E i \in 1 .. Len(p.statements) : HasRun(OneSpace(ts), p.statements[i])

CheckSQL(p, ts) ==
  IF DeniedStatement(p, ts) THEN "statement"
  ELSE IF NamedTables(ts) \cap Range(p.tables) # {} THEN "table"
  ELSE IF NamedColumns(ts) \cap Range(p.columns) # {} THEN "column"
  ELSE "passed"

-----------------------------------------------------------------------------
(* Native queries.  A MongoDB or Qdrant query is its collections and the     *)
(* fields its projection puts out, or none; a Redis command its words, the   *)
(* key a sequence of letters; a PromQL query its words and its labels.       *)

\* (Mutant: a star takes one letter at least.)
MutGlobMatch(pattern, name) ==
  LET fits[i \in 1 .. Len(pattern) + 2] ==
        {j \in 1 .. Len(name) + 1 :
           CASE i > Len(pattern) -> i = Len(pattern) + 1 /\ j > Len(name)
             [] i <= Len(pattern) /\ pattern[i] = "*" ->
                  \E k \in j + 1 .. Len(name) + 1 : k \in fits[i + 1]
             [] i <= Len(pattern) /\ pattern[i] = "\\" ->
                  /\ i < Len(pattern) /\ j <= Len(name) /\ name[j] = pattern[i + 1]
                  /\ j + 1 \in fits[i + 2]
             [] OTHER -> /\ j <= Len(name) /\ pattern[i] \in {"?", name[j]}
                         /\ j + 1 \in fits[i + 1]}
  IN  1 \in fits[1]

\* globMatch: ? takes a letter, * any run, \ the letter after it, which must
\* be there; fits[i] are the places of the name from which on it is taken by
\* the pattern from i on.
GlobMatch(pattern, name) ==
  LET fits[i \in 1 .. Len(pattern) + 2] ==
        {j \in 1 .. Len(name) + 1 :
           CASE i > Len(pattern) -> i = Len(pattern) + 1 /\ j > Len(name)
             [] i <= Len(pattern) /\ pattern[i] = "*" ->
                  \E k \in j .. Len(name) + 1 : k \in fits[i + 1]
             [] i <= Len(pattern) /\ pattern[i] = "\\" ->
                  /\ i < Len(pattern) /\ j <= Len(name) /\ name[j] = pattern[i + 1]
                  /\ j + 1 \in fits[i + 2]
             [] OTHER -> /\ j <= Len(name) /\ pattern[i] \in {"?", name[j]}
                         /\ j + 1 \in fits[i + 1]}
  IN  1 \in fits[1]

Keyless == {"PING", "ECHO", "SCAN", "HSCAN", "SSCAN", "ZSCAN"}

RedisKeys(q) == IF q.verb \in Keyless \/ q.args = <<>> THEN {} ELSE {q.args[1]}

\* A collection whose denied field is not projected out.
FieldShown(q, denied) ==
  /\ Len(denied) = 2 /\ denied[1] \in q.collections
  /\ ~ (q.projection /\ denied[2] \in q.out)

\* extractPromQLMetricName: the word before the first brace; without braces
\* the one in the last parentheses of a function; without either the first.
Metric(q) ==
  LET name == IF q.braces \/ q.call = "" THEN q.metric
              ELSE IF q.call \in PromFunctions THEN q.metric ELSE ""
  IN  IF name \in PromFunctions THEN "" ELSE name

CheckDocument(p, q) ==
  IF \E c \in q.collections : <<c>> \in Range(p.tables) THEN "table"
  ELSE IF \E d \in Range(p.columns) : FieldShown(q, d) THEN "column"
  ELSE "passed"

CheckKeys(p, q) ==
  IF \E k \in RedisKeys(q), d \in Range(p.tables) : GlobMatch(d, k) \/ d = k
  THEN "table" ELSE "passed"

CheckPromQL(p, q) ==
  IF <<Metric(q)>> \in Range(p.tables) THEN "table"
  ELSE IF q.braces /\ \E l \in q.labels : <<l>> \in Range(p.columns) THEN "column"
  ELSE "passed"

\* Without a denied table nothing below the statement level is checked.
CheckNative(p, q) ==
  IF DeniedStatement(p, q.words) THEN "statement"
  ELSE IF p.tables = <<>> THEN "passed"
  ELSE CASE q.kind \in {"mongodb", "qdrant"} -> CheckDocument(p, q)
         [] q.kind = "redis" -> CheckKeys(p, q)
         [] q.kind = "prometheus" -> CheckPromQL(p, q)
         [] OTHER -> "passed"

-----------------------------------------------------------------------------
(* What is done to a result: [columns |-> names, rows |-> rows of cells],    *)
(* Null a cell without a value.                                              *)

Null == "null"

\* matchColumn: the table before the last dot is not looked at.
MatchColumn(col, pattern) ==
  LET p == pattern[Len(pattern)]
  IN  col = p \/ (p \in DOMAIN GlobMatches /\ col \in GlobMatches[p])

\* ApplyMask tries the patterns in the order of a Go map, and the first that
\* matches decides: any of the matching ones may.
Masks(p, col) == {m \in DOMAIN p.masks : MatchColumn(col, m)}

MaskChoices(p, result) ==
  {choice \in [1 .. Len(result.columns) -> DOMAIN p.masks \cup {<<>>}] :
     \A i \in 1 .. Len(result.columns) :
       LET ms == Masks(p, result.columns[i])
       IN  IF ms = {} THEN choice[i] = <<>> ELSE choice[i] \in ms}

ApplyMask(p, result, choice) ==
  LET Cell(v, i) == IF v = Null \/ choice[i] = <<>> THEN v ELSE p.masks[choice[i]]
  IN  [result EXCEPT !.rows =
         [r \in 1 .. Len(@) |-> [i \in 1 .. Len(@[r]) |-> Cell(@[r][i], i)]]]

Denied(p, col) == \E i \in 1 .. Len(p.columns) : MatchColumn(col, p.columns[i])

\* (Mutant: the columns go and the cells stay.)
MutStrip(p, result) ==
  [result EXCEPT !.columns = SelectSeq(@, LAMBDA c : ~ Denied(p, c))]

\* The columns that stay, and the place each of them has among these.
Kept(p, result) == {i \in 1 .. Len(result.columns) : ~ Denied(p, result.columns[i])}

\* StripDeniedColumns: the column and, at its place, the cell of every row.
StripDeniedColumns(p, result) ==
  LET kept == Kept(p, result)
  IN  [columns |-> Picked(result.columns, kept),
       rows |-> [r \in 1 .. Len(result.rows) |-> Picked(result.rows[r], kept)]]
=============================================================================
