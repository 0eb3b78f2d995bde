# A verification development of dbexplain

dbexplain is a command-line tool that reads the schemas of databases and files
(`collect`), compares scans over time (`diff`), and runs read-only queries on
one source or across several (`execute`, `repl`).  This directory holds TLA+
models of the parts whose correctness is hard to see by testing, the TLC
configurations that check them on small instances, and TLAPS proofs about them
for all instances.  Paths below are relative to the Go module
`src/src/`, unless they begin with `docs/`.

Contents: [components](#1-the-system), [modules](#2-modules),
[runs](#3-what-the-runs-check), [disagreements](#4-where-the-code-and-its-documents-disagree),
[proofs](#5-what-is-proved), [assumptions and limits](#6-bounds-fairness-and-what-is-left-out),
[what is left](#7-what-is-left).

## 1. The system

What a user sees passes through the parts in this order.  `collect`: a pool of
goroutines (`CollectPool`) runs one connector for each source (`Catalog`); the
universe they give is compared with the cache (`CacheStore`), analysed and
written out (`Analysis`).  `diff` compares two universes (`SchemaDiff`).
`execute` and `repl`: a statement of the DSL is bound to its sources
(`Federation`), each of which it reaches through the pipeline (`QueryExec`) and
its gate (`Gate`: guard, policy, LIMIT, masks); files and federated
statements end in the file query engine (`FileQuery`).  `check` tries every
source once (`CheckRun`).

Every command is one process.  Processes share nothing but files (the cache
file, its reports, the log) and the databases.  Inside a process there is
concurrency in three places: the collection pool, the query goroutine of each
pipeline, and the workers of `check`.

### Fingerprint cache: `internal/cache`, `internal/diff`

* State: `Store` = entries (table key to fingerprint), snapshots (table key to
  schema), versions (label to a copy of both); on disk the file F and F.tmp.
* Operations: LoadStore, Diff, DiffDetailed, Update, SaveVersion, DiffSince,
  Save (write F.tmp, on Windows remove F, rename).
* Used by: `collect --cache F` after the pool has ended; `diff` reads only.
* Hard: a crash or a failed write inside Save; two processes on one file; two
  maps that must come from one scan; one run saves twice and the first save may
  fail; a read that fails and a store that is saved all the same; the report must be computed before the store is changed.
* Correct when: the file is always whole; fingerprints and snapshots agree, in
  the store and in each version; the two reports of a run agree; a version
  holds the scan it is named for; nothing recorded is lost but to a run that
  could not read it.

### Collection pool: `cmd/dbexplain/main.go`, `connector.Collect`

* State: semaphore, wait group, metrics channel, shared slice with its mutex,
  per DSN the goroutine and the connector goroutine with its channel of one.
* Operations: acquire and start, parse, success, error, timeout, append,
  release, wait, close, drain.
* Hard: an answer that races its timeout; goroutines left behind; sends on a
  channel nobody reads until the end; a close that must come after the last
  send; a token that must come back on every path.
* Correct when: the report has each DSN once and its instance exactly if its
  metric says success; the bound on concurrency is kept; it always ends.

### Query pipeline: `internal/executor`, `internal/query`

* State: the QueryLock (label to mutex), the goroutine of the running query and
  its channel of one.
* Operations: validate, lock, start, select on answer or timer, mask, unlock.
* Used by: `execute` (one statement, one QueryLock for the process) and `repl`
  (many statements, a new QueryLock for every pipeline); a federated statement
  runs one pipeline per source.
* Hard: queries that hang; answers of abandoned queries; a lock that must be
  free again before the next source of the same statement asks for it; errors
  that end a command and must not end a session.
* Correct when: a statement ends; what it prints has one fresh answer per
  source; it is never refused by its own lock; one process never runs two queries on one
  label; a session survives a bad statement.

### DSL and federation: `internal/dsl`, `execute.go`, `repl.go`

* State: the references of a statement and their placeholders, the bound
  sources (a Go map), the materialized data.
* Operations: preprocess, Bind, CompileToSQL, CompileToPromQL, materialize,
  reorder, file query.
* Hard: Go iterates the map of sources in any order, and that order decides the
  primary source; names of tables and aliases from different sources meet in one
  name space.
* Correct when: each table of a statement is read from the source it names.

### File query engine: `internal/connector/filequery`

A SELECT engine over rows of strings: hash joins, WHERE, GROUP BY, HAVING,
DISTINCT, ORDER BY, LIMIT/OFFSET, UNION, and the evaluation of expressions with
NULL.  No state between calls.  Hard: column offsets through several joins, the
RIGHT JOIN that swaps its sides, an index that answers part of a WHERE and
compares as text what the evaluator compares as numbers, the order of LIMIT and
OFFSET, UNION.  Correct when its result has exactly the rows the statement asks
for, in its order, under the right columns.

### Check: `internal/check`

* State: the entries loaded, the slice of rows, three counters, the wait group,
  the channel of rows; per entry a goroutine with its copy of the row and its
  connector goroutine; the one writer of the log package.
* Operations: filter by `--label`, parse, spawn, silence the log, run the
  connector, answer or timer, put the log writer back, send, close, receive,
  report.
* Hard: an answer that races its timer; a channel closed by a third goroutine
  while the main one reads it; the log writer, which every goroutine saves and
  restores for itself.
* Correct when: every entry has one row, which says what its own connector said;
  counters and exit status agree with the rows; no goroutine blocks; it ends.

### Connectors: `internal/connector`

* State: none between calls; during `Collect`, the tables found so far, the maps
  of columns, indexes and keys read by batch, and what failed.
* Operations: open, ping, list databases and schemas, list tables (with
  fallbacks), read columns, indexes, keys and statistics by batch or by table,
  read a sample, put together.
* Hard: every query can fail, or break off with `rows.Err` that is only logged;
  a row that cannot be scanned is passed over in silence; the scan of Redis keys
  stops at a limit; tables are dropped meanwhile; batches of several schemas meet in
  one map; an error costs a table here and a database or the instance there.
* Correct when: a table is reported with its own rows only, and nothing is missing
  without a failed query, or a row that was passed over, to answer for it.

### Gate of a statement: `internal/sqlast`, `sqlguard`, `policy`, `executor`

* State: the policy of the source, from the global variables and its own.
* Operations: tokenize, parse, validate, check tables and columns, add LIMIT or
  EXPLAIN, run, mask, strip.
* Hard: a grammar of twenty functions; a guard with two ways to judge, by tree and by
  first word; nested EXPLAIN and common table expressions; masks in a Go map.
* Correct when: a tree is the statement it was written from; what passes reads;
  LIMIT is added once; what is shown is what the source said, masked.

### Analysis and comparison: `internal/analyze`, `diagnostics`, `context`, `diff`

* State: the universe, the relationships found, the union-find of tables.
* Operations: declare and infer references, cluster, diagnose, rank, summarize,
  draw the topology, cut chunks, write files; compare two universes.
* Hard: inference by names in the order of the scan; a union-find over tables that
  were not scanned; scores normalised by maxima that can be zero; parts of one
  report computed separately; matching by lower-case names.
* Correct when: groups are the connected tables; a link ends at a table that has
  the column; the ranking follows the facts; the parts of a report agree; a
  difference made to the old scan gives the new one.

### The rest

| component | what it does | what is hard |
|---|---|---|
| `cmd/dbexplain/repl.go` commands | .conn, .connect, .dsn, .format and pagination of statements | prefix tests shadow one another; current source and current label |
| `internal/queryutil` | finds the file sources of a join by table name | names that match several sources |
| `internal/config`, `internal/dsn`, `internal/dsnfilter` | finds configuration, parses DSNs, selects them | precedence; selection by label and index |
| `internal/graph`, `internal/core` | a relation graph that nothing calls | |
| `internal/render`, `output`, `manual`, `list` | text | capture of standard output |
| `internal/crypto`, `encrypt` | encrypted DSNs | cryptography |

`PROJECT.json` lists all of them with their status, and under `hazards` every
behaviour that is hard to test, at its line, with the properties that cover it.

## 2. Modules

| module | models | role |
|---|---|---|
| `Fingerprints` | the data of `internal/cache` and the comparisons | operators shared by the next two |
| `CacheHistory` | what a cache file promises | abstract specification |
| `CacheStore` | `collect --cache`: the cache block of `handleCollect` and Save | detailed specification |
| `CollectPool` | the goroutines of `handleCollect` and `collectInstance` | |
| `QueryExec` | ExecQuery, QueryLock, and the statements of `execute` and `repl` that drive them | |
| `Federation` | DSL references, binding, routing, materialization, name lookup | |
| `CheckRun` | `check`: handler.go whole, from the entries loaded to the exit status | |
| `FileQuery` | executeSelect of `filequery` over rows of text | extends `Picks` |
| `Connectors` | which queries each of 17 connectors puts, and what their failure costs | data of the next |
| `Catalog` | `Collect`: lists, batches, fallbacks, faults, tables that vanish, the report | extends `Connectors` and `Picks` |
| `SqlLexer`, `SqlParser` | `internal/sqlast` | operators |
| `WhiteSpace` | TrimSpace, normalizeWhitespace, and the tokens of a text | operators |
| `SqlGuard` | Validate and AutoLimit of `internal/sqlguard` | extends `SqlParser` and `WhiteSpace` |
| `Policy` | `internal/policy`: loading, merging, deciding, globs, masks | which tables and columns a text names is a parameter; extends `Picks` and `WhiteSpace` |
| `Gate` | the way of one statement through ExecQuery, and what the lexer promises of its text | extends `Policy` and `SqlLexer`; parser, guard and LIMIT are parameters |
| `SqlGate` | the same with the parser and guard of the code, and the names that `internal/policy` finds in a text | extends `Gate` and `SqlGuard` |
| `Picks` | what stays of a list when some positions are kept | operators |
| `SchemaDiff` | DiffTables and DiffUniverse | operators |
| `Analysis` | Analyze, Rank, diagnostics, context, output of `collect`; `diff` | extends `SchemaDiff` and `Picks` |
| `CacheStore_proofs`, `CollectPool_proofs`, `QueryExec_proofs`, `CheckRun_proofs`, `Scan_proofs`, `FileSources_proofs`, `Gate_proofs` | | theorems; `Scan_proofs` has those of `Catalog` and of `Analysis`, `FileSources_proofs` those of `Federation` and of `FileQuery` |
| `NatOrder` | | least and greatest numbers, ranks, induction and the operators of `Picks`, for the proofs |
| `MC*` | | constants for TLC |

**CacheStore.**  `store[p]` is a process's `*cache.Store`, `univ[p]` its scan,
`cacheFile` and `tmpFile` what the names F and F.tmp hold.  A file is modelled
by the store it parses to, or by one of three values: absent (`NoFile`),
truncated (`Empty`), not parsable (`Garbled`).  The steps of Save are actions
of their own (`OpenTmp`, `WriteTmp` or `WriteFails`, `RemoveTarget`, `Rename`),
as are the statements of `handleCollect` around it.  `fd[p]` says which name
the file that p has open goes by now: after another process's rename, a write
to F.tmp lands in F.  `Crash(p)` may happen between any two steps.  `LoadFails(p)`
is a read error on a file that is there: the run goes on with an empty store,
and `unread[p]`, which the code does not have, remembers that until it saves.

**CollectPool.**  One program counter for the main goroutine, one for each
DSN's goroutine, the state of each connector goroutine, and the shared objects
as they are: a counter for the semaphore, one for the wait group, a sequence
for the channel, the owner of the mutex, and the slice.  Appending is a read
of the slice and a write, in two actions, so that the mutex matters.

**QueryExec.**  `pc[p]` walks through ExecQuery; `tasks` are the goroutines
whose query runs at a database, `answers` what their channels hold.  A timeout
leaves its task behind.  An error ends the process of `execute` (and its
goroutines with it), and the statement of `repl`.

**Federation.**  One statement, from its items to `reads`, which says whose
rows each table was read from.  The iteration order of the Go map is a choice:
of the primary source in `RunSQL` and the like, and of the next source in
`Materialize`.  `Reorder` is the exchange that puts the FROM table first, and
`Lookup`, `Known`, `ReadFrom` are how executeSelect finds a table by name.

**CheckRun.**  `mpc` is the main goroutine, `pc[i]` the one of entry i, `sub[i]`
its connector's.  `Save`, `Silence` and `Restore` are the three accesses to the
log writer `logOut`, in actions of their own because the goroutines share it;
`Answered` and `Timeout` are the two branches of the select; `Close` is the
goroutine that waits for the others and closes the channel.  `CollectorEnds` is
the connector returning, at any time or never, before or after the timer.  A row
is its verdict.

**FileQuery.**  One action for each stage of executeSelect: `Join`,
`WhereStage`, `Group` or else `Order`, `Distinct`, `Page`, `Project`; `Start`, `Step`
and `Execution` are its initial states, next-state relation and specification.  `data`
are the rows, `prev` those before the last stage, so that a property can compare the
two.  What a stage makes of the rows is an operator of the input and the rows
(`Filter(q, rows)`, `Sorted(q, rows)`, `Counts(q, rows)`), which is what makes it
possible to prove about each of them apart from the run of stages.  A cell is one of
a list of texts in their string order, and `Number` says what it parses to: "01" and
"1" are two texts and one number.  Columns are found by position through a column
map (`ColMap`, and `JoinColMaps` for the ON of a join), so that it shows where a name
is there twice, a table has no alias, or a row is shorter or longer than its header.
`Passes` is applyWhereFilter with its index, `HashJoin` both paths of executeHashJoin
with the pairs in the order of the two loops (`PairList`), `Sorted` the insertion sort
that sort.SliceStable is on short slices, as a recursive function of the positions:
whether the comparison is an order or not, the result is a permutation.  A caller's
limit may be any number; with a negative one the slice expression of the page panics
(`failed`).  A statement has one join, at most one ORDER BY column and, when it
aggregates, COUNT(*) only.

**Catalog.**  A connector is a record of `Connectors`: its queries in order, and
of each what its failure costs ("part", "table", "rest" of a table, "nested" for
the references that Oracle asks for inside the answer about keys, "database",
"instance", "panic") and how often it is tried again; those of `after` follow when all tables are
done, as the DDL of StarRocks does.  `todo` holds the queries
still to be put; `Answer` takes the first, reads all or (where rows come one by
one) some of what the server holds, and puts what follows from it in front;
`Fail` tries the next level or pays.  `DropTable` is somebody else.  `read` are rows
under the names by which the code puts them together (`Key`), with the place they
really come from, which the code does not know and the properties compare.
An answer can be less than what the server holds in three ways.  It breaks off,
which the code logs: the query is in `failed`.  A row cannot be scanned, which
`continue` passes over in silence (`ByRow`): what the row was about is in `unread`
(`Missed`), as a query of its own.  The list of Redis keys is cut at its limit (`Taken`).
DuckDB is the connector that merges schemas (`merged`): its list and its constraints are those
of all schemas, its columns and samples those of the first (`Scope`), all under the bare
name.

**Gate and SqlGate.**  A job is a statement with the tree it was written from, a
raw text, or a native query; `phase` walks through ExecQuery.  `Gate` has the whole
state machine and the policy, and takes as constant operators what depends on
reading SQL: `Verdict` (the guard), `LimitAdded`, `NamedTables` and `NamedColumns`.
What is proved of it holds for every way of reading a statement.  `SqlGate` brings
the code's own way, to which the configuration binds these operators.  A text
is its tokens and the white space between them (`WhiteSpace`): the guard's tests are
about letters and blanks, and what the lexer would make of them is `Words`.  `Inside`
and `Endings` say of which strings and longer words the letters of a keyword are a
part.  The parser and its helpers are operators over tokens with a position; `Rule` is the one
recursive operator through which they call each other.  Letter case, comments and
spaces are left to the lexer, which is modelled over classes of characters: the run
of one class from a position on (`PastRun`), the closing quote and the tokens of the
rest of a text as recursive functions of the position.  `LexedWhole` of `Gate` is what the
lexer promises of a submitted text.

**Analysis.**  The stages of the last part of `collect`: `Declared`, then one
column of one table at a time (`InferColumn`), one relationship at a time into
the union-find (`Union`), then groups, issues, ranking and the written context;
or `Compare` for `diff`.  `Scanned`, `Analyse` and `Analysing` are its initial states,
next-state relation and specification.  `Join` is union with the two finds before it:
`Ascent` is the way up from a node, a recursive function over the number of steps,
`Compressed` puts every node of it under the root.  A component is stated without a
search: two nodes are in one when no set of nodes that the relationships do not leave
(`Closed`) has one of them only.  Scores are integers of per mille; logarithms are
tables.

## 3. What the runs check

| run | instance | states | shows |
|---|---|---|---|
| `cache` | 2 tables, 3 schemas (2 with the same hashes), 2 version labels, 1 process, 2 scans | 337,533 | the six properties of CacheStore |
| `query` | 1 `execute`, 1 `repl`, a database with two tables and a file, 3 pipelines per process | 542,000 | NeverRefused, PrintedIsWhole, StatementEnds |
| `collect` | 4 DSNs, 1 invalid, 2 at a time | 25,966 | the four properties of CollectPool |
| `federation` | 2 databases, a file, Prometheus (a metric and a raw expression), a native source, an unknown label; up to 3 tables, 3 aliases | 612,000 | FederatedJoinReadsOwn, OneLabelReadsOwn |
| `check` | 3 entries with two labels, one or more malformed; with and without `--label` and `--json` | 362,228 | the five properties of CheckRun |
| `filequery` | two tables of up to 2 rows joined; one table of up to 3 rows ordered, deduplicated, paged, grouped; keys "", "01", "1", "2"; rows shorter and longer than the header, a header with one name twice, tables without alias, limits of the caller of 2, 0 and -1 | 495,985 | the six properties of FileQuery |
| `gate` | statements written from trees of every clause and operator, texts of every kind Validate tells apart, on one line or on several, with names and strings that spell a keyword, native queries, all short texts of 8 classes of characters; patterns with `*` and escapes for all short keys; a global policy and one of a source | 13,391 | the seven properties of SqlGate |
| `schema` | scans of four tables of two instances with declared, composite, dangling, inferable and no keys, in two orders; 900 pairs of scans of up to two tables | 5,446 | the five properties of Analysis |
| `catalog` | 17 connectors, 2 databases, 2 schemas, 2 table names in any of them, filter and sample on or off, lists denied up to three times, the list of Redis cut at 1 name, 1 fault (a query that fails or breaks off, or an answer with rows passed over), 1 dropped table | 1,244,132 | TablesOwn, LossHasCause |

The properties, in words:

* `CacheAlwaysWhole`: no crash and no failed write leaves a truncated file
  (POSIX).
* `SnapshotsAgree`: in the file and in every version, a table's fingerprint is
  that of its snapshot.
* `SinceReportsChanges`: `diff --since` has a row for exactly what the
  fingerprints say has been added or changed.
* `ReportsAgree`: F_delta.json and F_diff.json of one run tell the same.
* `VersionHoldsScan`: the version of a run holds its scan, even if the first
  of the two saves failed.
* `ImplementsHistory`: the file implements `CacheHistory`, a value that
  changes only by recording a whole scan, labelling a version, or both; what it
  held is kept, except by a process that could not read it (`blind`), whose
  history begins with its own scan.
* `NoSendOnClosed`, `SendNeverBlocks`, `ReportAccounts`,
  `CollectionEnds`: the pool never sends on the closed channel, never blocks in a send, reports every DSN once with an instance
  exactly on success, and ends even if every connector hangs.
* `NeverRefused`: a statement never runs into its own lock.
* `PrintedIsWhole`: what is printed has exactly one answer per source, each
  from a pipeline of this statement.
* `StatementEnds`: a statement ends whatever its queries do.
* `FederatedJoinReadsOwn`, `OneLabelReadsOwn`: in every order of
  the map, each table is read from its own source, as far as names are
  unambiguous.
* `SendsSafe`, `EachRowOnce`: a goroutine of `check` finds its
  channel open and with room; at the end each entry has been printed once.
* `RowsTruthful`, `ExitTellsTruth`: a row says "ok" or "err" only if its own
  connector said so; status 0 means that every entry kept parses and connected.
* `CheckEnds`: `check` ends, whatever the connectors do.
* `JoinExact`: a join has each pair of rows with one text in the columns of ON,
  once, and no pair with different values; an outer join has in addition each
  row without partner, once.  Between "1" and "01" the two ways to write the ON
  differ (the hash compares texts, the nested loop numbers), and the property
  allows both.
* `FilterSound`: the index never shows: rows kept satisfy the whole WHERE and
  keep their order, and no other row does, except those that equal a literal
  as number but not as text.  It excludes an equality on a name that both tables
  have: the index is built on the bare name, that is, on the left table's column.
* `OrderSound`: the sort gives the same rows, each once, whatever the comparison
  says; where all rows have the column, and it has only numbers or only texts, they
  are in order, equal ones as they were, with empty cells where NULLS FIRST or LAST
  wants them.  For a mixed column the comparison of the code is not transitive.
* `DistinctSound`: DISTINCT ON keeps one row for each key there is, and no two with one
  key; where ORDER BY has only columns of one kind, no row of the same key comes
  before the kept one in its order, and the kept ones are in that order themselves.
  It says nothing of how the loop finds them.
* `ShortPageIsLast`: a page holds consecutive rows from its offset, and one
  shorter than its limit is the last.
* `EachCountedOnce`: each row that the WHERE kept is counted in the group of its
  texts in the GROUP BY columns, and no two groups have one key.
* `LexedWhole`: the lexer drops only white space, cuts as late as it can, and gives
  up only where no token begins.
* `ParsedAsWritten`: a statement written from a tree by the grammar is parsed into
  that tree.  The writer puts parentheses around every operand that is not a single
  term, so the precedence of operators without parentheses is not tested.
* `ExplainSeesThrough`: each prefix that wrapExplain writes, and each form that
  stripExplainPrefix documents, once or twice in front of a text, leaves the guard's
  verdict as it is without.  A text that itself begins with a parenthesis or an option
  word is excluded, because the code takes that for part of the prefix.  What else the
  guard refuses is translated and not claimed: the tests for SELECT INTO and for writes
  in common table expressions go by spelling, and a verb in a body after the first is
  looked for one level too low, so that sqlguard.go:57-60 promises more than they do.
* `LimitedOnce`: a SELECT reaches its source with at most one LIMIT of its own level,
  its own or the flag's, with nothing else changed, and the rewriting is idempotent.
  That it has one is claimed only where no name or string of that level spells LIMIT
  before white space; `MCSqlGateLimit.cfg` shows what happens there.
* `ShownIsOwn`: rows are shown in order, under their columns, masked where a mask
  says so and otherwise as the source gave them, without denied columns.
* `PolicyAdds`: the variables of one source only add to the global policy.
* `KeysGlobbed`: a Redis command is refused exactly when its first key fits a
  pattern, `*` standing for any text.
* `GroupsConnect`, `LinksRight`: after every step of the union-find two tables
  have one root exactly when relationships connect them; an inferred relationship
  ends at a table of the right name that was scanned.
* `MeritOrders`: more of every factor never ranks lower, and scores stay within 1.
* `TopologyAgrees`: summary, topology and chunks tell the same of every table.
* `DiffReplays`: the reported difference, made to the old scan, gives the new one.
* `TablesOwn`: a table is reported of the filter and of its own rows only.  Where a
  connector merges schemas (DuckDB) its rows are of tables of its name in its
  database; that they are not always its own is what `MCCatalogDuckDB.cfg` shows.
* `LossHasCause`: what is missing has a failed query of its own, or one above it, or a row
  of its own that was passed over or cut off, to answer for it, so that failures are
  contained and fallbacks are complete.

Each property was also checked to fail for a mutant of the code it is about;
the mutants stand before the definition they replace.

## 4. Where the code and its documents disagree

The first three are registered runs that end in a counterexample.  The others
can be reproduced with the configuration named, by
`tlc -config <cfg> <module>` with the module that the name begins with.

| run or configuration | property | disagreement |
|---|---|---|
| `cache_two` | CacheAlwaysWhole | Save "persists the store to disk atomically", but every process uses the same F.tmp: with two collects, one renames what the other has just truncated |
| `filequery_right` | RightColumnsRight | docs/test/13-file-query-engine.md says that the columns of a RIGHT JOIN are mapped correctly, but the column map is built for the order of the tables before the swap: a column of one prints cells of the other |
| `catalog_mysql` | DatabasesSurvive | docs/databases/relational/MYSQL.md:110 says that a failing query does not affect other databases, but the rows of a failed batch query are nil and closed all the same (mysql.go:298, 347, 377): the panic costs the instance |
| `MCCacheStoreUnread.cfg` | VersionsPersist | "Store persists fingerprints, snapshots, and version history across runs", but a run that could not read the file starts from an empty store and saves that over it |
| `MCCatalogDuckDB.cfg` | PartsOwn | duckdb.go:102 speaks of a "single main schema", but the list below it is of all user schemas, and a table is described by its bare name: two tables of one name get each other's columns or constraints |
| `MCSqlGateLimit.cfg` | LimitPresent | sqlguard.go:467 says that AutoLimit appends LIMIT to a SELECT that has none, but a name that ends in `limit`, or a string with LIMIT in it, passes for one |
| `MCCacheStoreDelta.cfg` | DeltaBetweenScans | "Delta describes what changed between two scans", but Update never deletes, so a dropped table is reported after every later scan |
| `MCQueryExecRepl.cfg` | SessionSurvives | execQuery says "no os.Exit", but a failing statement on a file ends the session |
| `MCFederationUnion.cfg` | UnionReadsBoth | a federated UNION reads both halves from the first source |
| `MCFederationDatabases.cfg` | DatabasesReadOwn | a join of tables of two databases is sent whole to one of them, whichever the map yields |
| `MCSqlGateVerdict.cfg` | VerdictGiven | sqlguard.go:276 says that stripExplainPrefix always shortens its text, but before `EXPLAIN` in parentheses it does not, and Validate calls itself without end; on semicolons alone it indexes an empty list |
| `MCAnalysisNames.cfg` | NamesOwn | diff.go:410 says that extractTable takes the table from "instance/db/table", but the default label of a source is host/database: the difference names tables that do not exist |

More, which no configuration states:

* docs/test/08-concurrent-limit.md:26 expects CONCURRENT_LIMIT of a second
  `execute` process; the lock is in the memory of each process (execute.go:32).
* handler.go:99 of `check` says of entries that do not parse "skip invalid DSNs —
  will be reported later"; with `--label` they never are.
* The comment of Execute calls maxRows "maximum rows to return" (executor.go:20);
  it is used only for a statement without LIMIT, and not for aggregates.
* COUNT(*) over no rows prints an empty cell, also with GROUP BY.
* `NOT LIKE` is parsed as LIKE (parser.go:482), and the AS of `FROM t AS x` is
  not consumed (parser.go:379): the statement is then judged by its words.
* CheckNative returns before its column rules when no table is denied
  (policy.go:137).
* connector.go:67 says that samples are not read by default; Oracle, SQLite,
  DuckDB, ClickHouse and Hive always read them.
* With a table filter the column query of PostgreSQL has its condition behind ORDER BY
  (postgres.go:331) and fails: the tables are reported without columns.
* Without a database in the DSN every database of a PostgreSQL server is reported
  with the tables of the one that is connected (postgres.go:42-104).
* logNorm says "clamped to [0,1]", but passes 1 for a query count above 10,000
  (ranking.go:188).

## 5. What is proved

In `CacheStore_proofs`, for every set of keys, schemas, labels and processes,
with no bound but the assumptions stated in the modules:

* `TypeCorrect`: `Spec => []TypeOK`.
* `SnapshotsAlwaysAgree`: `Spec => []SnapshotsAgree`, with any number of
  processes.  The invariant alone is not inductive: a rename publishes F.tmp,
  which was written from a process's memory.  The inductive one says that the
  cache file, F.tmp and every process's store are consistent; the lemmas
  `UpdatedConsistent`, `VersionedConsistent` and `BareConsistent` say that the
  operators on stores keep that, and `NextConsistent` goes through the actions.
* `SaveIsAtomic`: with one process, `Spec => []CacheAlwaysWhole`.  The inductive
  invariant (`Alone`) says where F.tmp stands at each step of Save and that
  nobody else has F open; `StoreIsWhole` says that a store is not one of the
  values for broken files.
* `StoreImplementsHistory`: with one process, `Spec => ImplementsHistory`.
  `InitAlone` and `StepImplements` are the two halves of the refinement: a step
  that leaves the file alone stutters, or begins or ends a blind run
  (`QuietStepImplements`); the rename is one of the other actions of CacheHistory
  (`RenameImplements`), from what the process's store was begun with (`Begun`).
  `Alone` also says what F.tmp will be: the old file with the scan recorded, the
  version labelled, or both, according to which of the two saves is under way.

* `SinceAlwaysReports`: with any number of processes, `Spec => []SinceReportsChanges`,
  from the same `ConsistentEverywhere` as SnapshotsAlwaysAgree: the rows of
  `diff --since` come from snapshots, the property speaks of fingerprints.
* `ReportsAlwaysAgree`: with one process, `Spec => ReportsAgree`.  `DeltaIsOwn` adds
  that the delta on disk is the one the run has computed until the detailed
  report is written.
* `VersionAlwaysHoldsScan`: with one process, on POSIX and Windows,
  `Spec => VersionHoldsScan`.  `Carries` follows the scan through the two saves: the
  memory of the process holds it, labelled or not, at each step of each save,
  whether the first one failed or not.

Two named hypotheses.  `OneProcess`: the run `cache_two` shows why it is needed.
`FieldsTellFp`, of SinceAlwaysReports and ReportsAlwaysAgree: two schemas that the
comparison of fields finds equal have the same fingerprint.  The code has it for
tables whose columns, indexes and foreign keys have names that differ in more than
case and types without blanks around them: cache.go:84-123 hashes every entry,
diff.go:119-171 and 259-393 put entries into maps by their lower-case names and
trim the types.  The converse is not assumed: the run has schemas with one
fingerprint and different fields.

In `CollectPool_proofs`, for every number of DSNs, every set of invalid ones and
every positive `-conn`:

* `TypeCorrect` and `ConnAlwaysRespected` rest on `Tokens`: the semaphore holds
  one token for each active goroutine and the wait group counts those that have
  not ended, one more of each while the main goroutine is between Acquire and
  Go.  `CountDSNs` is what is used of cardinalities.
* `NeverSendsOnClosed` adds `Closing`: wg = 0 with every DSN started means that
  no goroutine is left.
* `SendsNeverBlock` and `ReportAlwaysAccounts` add `Accounting`: the metrics
  sent, in the channel or recorded, are those of the goroutines that have left
  the select, as many as there are of them; the slice and the goroutines on
  their way to it are those that sent a success; and whoever is between its read
  and its write of the slice holds the mutex.  `SendAccounts` is the step out of
  the select, the same for success, error and timeout.

In `QueryExec_proofs`, for all processes, labels, files and finite sets of sources:

* `TypeCorrect`, with `IdBound`: a statement sets aside as many pipeline
  numbers as it has sources.
* `NeverRefusedAlways`, from `HeldIsOwn`: a process holds exactly the label of
  the pipeline it is in, from Lock to the way out.
* `PrintedAlwaysWhole`, from `PrintInv`: the sources of a statement are those to
  be read, the one being read, and those gathered, and the tasks of the last two
  have numbers no earlier statement has given out.

In `CheckRun_proofs`, for configurations of any length:

* `TypeCorrect`, with `Phases`: the wait group is the number of goroutines that
  have started and not ended, only entries that parse get one, all of them have
  by the time the main goroutine receives, and the channel is closed only when
  all have ended.
* `SendsAlwaysSafe` adds `Channel`: the rows received and those in the channel
  are as many as the goroutines that have sent, so that one that has not finds
  room.
* `RowsAlwaysTruthful` and `ExitAlwaysTruthful` add `Verdicts`, `Carried` and
  `Accounted`: a verdict keeps its meaning from the select through the row, the
  channel and the slice, and the counters are zero only if no row of that kind
  has been received.
* `EachRowPrintedOnce` adds `OnePerEntry` and `Printing`: the channel holds no two
  rows of one entry, an entry whose row is still to be sent or received has none in
  the slice, and, before the report, an entry has been printed once exactly if it is
  kept and either does not parse or has its row there.

In `Scan_proofs`, for every server, caller, connector and number of faults:

* `ReportOwn`: `Spec => []TablesOwn`.  The inductive invariant `RowsOwn` is about the
  rows read so far and not about the report: each stands under the key of the
  table it comes from (the parts read by a connector that merges schemas, under that of a
  table of the same name), in the database its query reads.  `RowsAreOwn` is the step of
  an answer, whole, cut, broken off or with rows passed over, and `KeyInjective` says that a key tells schema
  and name, which is what keeps tables of one name apart when a report is put
  together.  The proof uses nothing of the order of queries, so that it holds for
  connectors yet to be written as well.
* `LossAlwaysHasCause`: `Spec => []LossHasCause`.  The property speaks of the end of a
  collection; the inductive invariant `Collected` says what must hold on the way: a
  table that the report should have is excused by a cause of its own, or it is owed
  (`Owed`) and not left out.  A cause (`Causes`) is a failed query or a row passed over;
  `MissedOf` and `MissedWide` say that such a row is about one table, schema or database and
  costs no other.  Owed means that a query still to be put leads to its
  database, or that its list and each of its parts was read, is still to be asked
  for, or has a cause.  A list that was read (`Holds`) is looked up by key, since a
  connector that merges schemas reads the names of all of them at once.  Each action has its lemma (`StartTracks` to `DropTracks`).
  `OwedStays` reduces a step to the queries that it removes; `PaidStays` and
  `PaidIsOther` say that a failure which costs a database or a table removes no query
  of another one and leaves no other one out.
  What is used of a connector is `WellMade`: a query of one table never costs its
  database, nor does a batch or a list over one of several schemas, a list of one
  known table is followed by no queries of each, one that merges schemas puts no batch,
  and so on.  `ConnectorsMade` proves
  it of the 17 records; a connector yet to be written needs no more than that, and a
  list for each of its tables (`ConnectorsList`).
  Named hypotheses: `CatalogAssumption` and `ListsAssumption`.  The latter says that
  what Prometheus holds are its labels and its metrics and nothing else
  (prometheus.go:92-114).

and for the analysis of a scan, over any number of tables, columns, keys, rows and
queries, with equal scores and sizes in any order:

* `GroupsAlwaysConnect`: `Analysing => []GroupsConnect`.  The invariant `Clusters` says
  that two nodes have one root exactly if they are in one component of the
  relationships so far.  A root must first be shown to be one: `Forest(p, h)` gives
  every node a height below that of its parent, so that the way up ends within as many
  steps as there are nodes (`AscentRoots`, `RootUnique`), also after find has compressed
  two paths (`CompressedKeeps`) and after a root is put under another (`JoinKeeps`).
  `UnionClusters` then says that a relationship makes one component of two.
* `MeritAlwaysOrders`: `RanksInv` says that the ranking has each table once, with its
  score, in falling order.  `FactorsAreNatural` and `DivisionKeeps` are the arithmetic
  of integers rounded down, `WeightsAre` the shares for each set of statistics that is
  missing, and `ScoreFollows` that a score does not fall when no factor does.
* `TopologyAlwaysAgrees`: `ContextInv` says at each stage what the context will be
  written from: the groups are the components, the ranking has every table.
  `GroupsShareOut` gives each table one place in the topology, `LargestListed` and
  `ChunksRanked` say which tables the summary and the chunks have.  The theorem has the
  condition `FilesOwn`, because it is needed: in the name of a chunk's file a
  slash and an underscore are the same, and the later of two chunks of one name replaces
  the earlier.
* `LinksAlwaysRight`: `LinkInv` says how far the loop over the columns has come
  (`LinkedUpTo`), that what has been inferred is right (`InferredRight`) and what `seen`
  means (`SeenTold`).  `CandidatesNamed` says that a candidate has the name looked for, and
  `InferLinks` is the step of the loop.  Its condition `ColumnsOwn` is what the code takes
  for granted: it looks tables up by their lower-case names, and it keeps of a linked
  column a key put together without a separator (`SeenKey`).
* `DiffAlwaysReplays`: `DiffInv` is short, the work is in what a report means.
  `ByNameOwn` says that the maps of diff.go lose nothing of a list whose names differ in
  more than case, which is the condition that the property itself has.  From it
  `ColumnsReplay`, `NewColumnsTold`, `IndexesReplay` and `KeysReplay` show that the changes
  put into the earlier list give the later one.  `CutTells` says that a path cut at its
  first two slashes still tells tables apart, although a name with a slash in it is cut in
  the wrong place, so that each table has one entry (`UniverseTold`).

Named hypotheses: `ScansAssumption` and `ComparedAssumption`, that a scan is a list of
tables with lists of columns, indexes and keys, whose row counts may be negative;
`NormAssumption`, that a logarithm is not negative and that of a count above zero is not
zero; `SizesAssumption`, that the sizes of summary and chunks are numbers.  TLC evaluates
them in the run `schema`.  On the scans of that run TLC has also found `ContextInv`,
`LinkInv` and `DiffInv` to be invariants, and both conditions true of every scan that is
collected.

In `FileSources_proofs`, for federated statements of any number of items and every
order of the map:

* `JoinAlwaysReadsOwn` rests on `Gathering`: what has been materialized is the source
  of a placeholder, every placeholder no longer to be done has its source there, and
  when the statement runs the first source goes by the name of the FROM table, which
  is what `ReorderGathers` shows of the exchange.  `LookupFinds` then needs the names
  to be unambiguous, as the property says.
* `OneLabelAlwaysReadsOwn`: a statement with one label has one source only, whichever
  the map yields first.

and for the file query engine, over tables of any size, any rows, and every statement of
the modelled form:

* `StagesRunWhole`: `Execution => []EngineInv`, the inductive invariant of all that
  follows.  The properties speak of one stage each and hold of what the stage does,
  but only if the stage started from rows of texts and if nothing came between:
  `RowsKept` says the first, that every stage but the last gives rows again, and
  `StageDone` the second, that `data` is what the stage before makes of `prev`.  Each
  action has its lemma (`JoinInv` to `ProjectInv`).
* `JoinAlwaysExact`: `MatchesCells` says what the two paths have in common, that a pair
  whose texts in the ON are equal matches and one whose values differ does not.
  `JoinRows` and `JoinGives` read the pairs off the rows: `ListedOnce` (of `PairList`, by
  their rank in the order of the loops) gives each pair one place.
* `FilterAlwaysSound`: `IndexPosition` says that the index is built on the column that
  the reference of the condition resolves to, unless the name is ambiguous; then what
  is in the index satisfies that condition, and `PassesWhere` adds the rest.
* `OrderAlwaysSound`: `Sorted` is a recursive function, which exists by `BuildsExists`.
  `SortPermutes` and `SortArranges` go along it with `NatInd`: an insertion anywhere
  keeps a permutation one (`SplicePermutes`), and an insertion behind the last row not
  preceded keeps it arranged (`InsertArranges`) if the comparison is a weak order.
  `UniformOrders` shows that of a uniform column, from `BeforeOrders`, where empty cells
  go to one end.  Without uniformity only the permutation is claimed, and true.  The
  code sorts by insertion up to 20 rows and merges sorted blocks of longer ones; a
  stable sort of a weak order has one result only, so that for a uniform column this
  makes no difference.
* `DistinctAlwaysSound` is about the one pass of the code with its set of keys seen.
  That the recursive function of the pass exists is `KeepsExists`; `TurnHolds` shows
  the loop invariant `Holding` (what is kept up to row n: positions in order, keys all
  different, each key up to n kept at its first position) for one more row and
  `FirstOfEachHolds` for all, with `NatInd`.  `SortedIsOrdered` carries the order of
  the ORDER BY stage along, so that first in position is first in order.
* `ShortPageAlwaysLast` is `PageRows` and `PageReach`, arithmetic of the two ends.
* `AlwaysCountedOnce` is `CountsOnce`: the first rows of the groups have each key once.

Named hypotheses: `TextsAssumption`, that the empty text is no number and a number
equals itself, and `InputsAssumption`, that tables are rows of texts and a literal
LIMIT or OFFSET has no sign.  Of a header nothing is assumed: a property asks for a
name to be there once where it has to.

In `Gate_proofs`, for every guard, every way of reading a statement, every policy
and every answer:

* `GlobalPolicyHolds` rests on `Checked`: what is past the checks passed those of the
  policy of its own source.  `GlobalWithin` says that merging keeps every global entry
  and `MasksStay` that it drops no mask; `StatementPasses` and `NativePasses` that a
  policy which denies more passes no more.
* `ShownAlwaysOwn` rests on `Answered`.  `PlaceIsOwn` is about the map from names to
  positions that stripping the denied columns builds: the n-th column kept is shown at
  place n, in every row; `Masked` says that masking changes no other cell.
* `GlobMatchStretches`: for every pattern and name, `globMatch` accepts exactly when
  the name can be cut into pieces of which each fits one element of the pattern.  Its
  definition is a recursive function, which exists by `FitsExists`; `FitsRight`
  is the induction over the pattern, from the end, with `NatInd`.
* `KeysAlwaysGlobbed` is `KeysGlobbed` from GlobMatchStretches, for keys and patterns
  of any length.
* `AlwaysLexedWhole` is `LexedWhole` for texts of any length over any alphabet, not only
  the short texts of the run.  `StringEndIs` says that the search for the closing quote
  ends at a quote that no other follows, or else that the quotes it passed make pairs,
  so that a string given up has an odd number of them; `NextTokenIs` what is right of
  one token by itself (`TokenRight`); `TokenizeCuts` that the tokens follow each other
  as `TextCut` says, from the end of the text back, with `CutBefore` for a token put
  before those of the rest.

Named hypotheses: `GateAssumption`, that the environment holds lists and the answers
have as many cells in a row as columns; `KeysAssumption` and `TextAssumption`, that the
words of a Redis command and a statement are sequences of letters; `LexerAssumption`,
that the sign for the end of a text, the 0 of peek, is no letter, digit or blank.

## 6. Bounds, fairness, and what is left out

Bounds.  `MaxScans`, `MaxPipelines`, `MaxItems`, `N`, `MaxKeys`, `MaxFaults` and `MaxDrops` are the
only ones besides the inputs that the MC modules list.  Two
scans are enough for a second run to find what a first one left, completed or
crashed; three pipelines, for a federated statement on three sources, or for
one abandoned query and a later statement of two sources; three items, for a
FROM table and two joined ones in any order of the map, so that the exchange of
Reorder meets a source in each place; four DSNs with two tokens, for waiting,
invalid, hanging and running ones at once; three entries of `check` of which one
does not parse, for two goroutines that overlap in every way on the log writer
and the channel; one fault, because two failures cost what each of them does, and retries need
denied lists, which have a bound of their own; one key for the limit of
2000, which cuts a list of two; two schemas with one name in both, for
batches that meet in one map; four tables, for two groups, a chain and a dangling
key at once; three rows, for a run of equal keys broken by another one, a
page in the middle, and a group of two besides one of one.  Two schemas with the same hashes
and different fields are there because the comparison of hashes and the
comparison of fields must not be confused.

Fairness.  `CollectPool`, `QueryExec` and `CheckRun` assume weak fairness of the code's own
steps: Go runs a goroutine that can run, and timers fire.  Nothing is assumed
of a connector or a query (`SubEnds`, `TaskEnds` and `CollectorEnds` have no fairness), which may
hang for ever; reading a local file is taken to end.  The mutex of the slice is
taken once by each goroutine, so weak fairness is enough to get it.  The other
components have no liveness property, and their specifications no fairness: a
collection ends only if its queries do, which is what the timeout of CollectPool
is there for.

Deadlock is checked for `collect`, `federation`, `check` and `filequery`, which have an explicit step
for the finished command.  It is not in `cache` and `query`, whose processes
stop when the bound is reached, nor in `gate`, `schema` and `catalog`, where one
statement, report or collection comes to its end.

Abstractions.  A hash is a function of the schema, with collisions where the
instance says so.  A file's bytes are the store they parse to.  Row counts, time
stamps, wording, layout and logging are left out.  SQL is what its references,
tables and aliases are.  What a source holds is its name.

Some definitions are narrower or coarser than the code in ways that no property depends on:
`DeniedStatement` looks for a run of tokens where policy.go:84 looks for a part of the
text; `WrapExplain` compares whole tokens where executor.go:177-181 compares the front of
the text; `Plans` has no federation of two kinds of source without a file
(compiler.go:56-66); `Reorder` has the table of FROM written before those of JOIN, as
the grammar does (execute.go:785-794); `Number` leaves out NaN, and texts padded with
blanks, which evaluator.go:39-49 trims and executor.go:279 does not; `Score` counts in
thousandths where ranking.go:154-161 adds float64 in the order of a map; `FileOf` does not
replace backslashes (output.go:45).  In `Catalog`, a name of Redis stands for keys of one
pattern; rows of equal names in DuckDB's list come in the order of the schemas; a constraint is
given to the table asked about, whatever its text says.

Only model-checked: StatementEnds, CollectionEnds and CheckEnds, which are
liveness; ParsedAsWritten, ExplainSeesThrough and LimitedOnce of SqlGate, whose parser is written
with RECURSIVE operators that the prover does not take.  Every other invariant and
action property of the passing runs is a theorem.  TypeCorrect is proved for four
components and, being proved, is no property of a run.  Not within reach of the prover:
liveness under fairness, ENABLED, and what RECURSIVE operators compute for every input.
Induction over numbers is within reach for a fixed formula (`NatInd` has a set in place
of a predicate), which is how globMatch, the lexer, the insertion sort and the
union-find are proved.

Where arms of a CASE overlap, TLA+ leaves the choice open and TLC takes the first.
In `Policy`, `Gate`, `FileQuery` and `Analysis`, which are proved about, such choices are
written as IF; in `SqlGuard` and `SqlParser` arms are meant to be read in order.

Not modelled: see the statuses and notes in `PROJECT.json`.  The answers of
databases, cryptography, text layout and the static text of the manual are left
out for good; the rest is listed below.

## 7. What is left

In the order of what it would add:

1. FileQuery with several joins, HAVING, the other aggregates, UNION, window
   functions and subqueries; ResolveJoinSources; LIMIT and OFFSET of PromQL.
2. The dot commands of `repl` and the current source, composed with QueryExec.
3. Redis: the scan of a cluster, whose closures share a map and counters
   (redis.go:224-260), and the families of keys.
4. ExecQuery of each connector: what becomes of a page, an error and a cancelled
   context at the driver.
5. The search for a configuration file and dsnfilter.

Theorems to come: several joins of FileQuery, each of which is the JoinExact of the
rows of the one before; the parser as recursive functions over the length of the text, as the
lexer is, so that LimitedOnce and ExplainSeesThrough can be proved for every statement.
