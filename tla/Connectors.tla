----------------------------- MODULE Connectors -----------------------------
(* What each connector asks its server when it collects a schema, in which
   order, and what the loss of an answer costs.  A connector is a record:

     list    how the databases come: "asked" (the one of the DSN, or a list
             from the server), "listed" (always a list), "given" (the DSN must
             name one) or "only" (there is one)
     own     FALSE when every query goes to the database of the connection,
             whichever database it is made for
     filter  whether a table filter is accepted, and breaks: the queries
             that it turns into an error of syntax
     door    the queries of the instance;   inside: those that open a database
     tables  the query, or queries, that list tables
     batch   the queries of all tables of a schema at once
     each    the queries of one table;  after: those of a table that wait
             until all tables are done;  closing: those that end a database
     merged  the tables of all schemas are listed as one, by their names, and
             by its name alone a table is asked about
     sample  when a row of data is read, and what must be known before
     counts  the levels of the table list that carry a number of rows
     stream  rows arrive one by one and may break off without an error
     scans   a row that cannot be scanned is passed over
     capped  a list of tables is read up to a limit
     bare    a table without columns is reported
     empty   an instance without tables is reported

   The cost of a query that fails: "instance" (Collect returns the error),
   "database" (this database is left out), "table" (this table is), "rest"
   (the table stays, with what it has), "nested" (the queries that are put
   for each of its rows are), "part" (nothing else is lost) or "panic"
   (recovered by CollectSafe, with the instance).                           *)
EXTENDS Naturals, Sequences

Tried(a, n, on, c) == [ask |-> a, tries |-> n, on |-> on, cost |-> c]
Plain(a, c) == Tried(a, 1, "any", c)

Ping     == Plain("ping", "instance")
Listing  == Plain("databases", "instance")
Sampling == Plain("sample", "part")

\* What holds of a connector over database/sql unless it says otherwise.
Standard ==
  [list |-> "asked", own |-> TRUE, filter |-> TRUE, breaks |-> {},
   door |-> <<Ping, Listing>>, inside |-> <<>>,
   tables |-> <<Plain("tables", "database")>>,
   batch |-> <<>>, each |-> <<>>, after |-> <<>>, closing |-> <<>>,
   merged |-> FALSE,
   sample |-> "always", needs |-> {"columns", "count"}, counts |-> 1 .. 3,
   stream |-> TRUE, scans |-> TRUE, capped |-> FALSE,
   bare |-> TRUE, empty |-> TRUE]

------------------------------------------------------------------------------
\* A table list that is denied is asked for again with SHOW TABLE STATUS.  The
\* rows of a failed query for indexes or keys are nil and are closed all the
\* same.
MySQLTables  == Tried("tables", 2, "denied", "database")
MySQLColumns == <<Plain("columns", "database"), Plain("indexes", "panic")>>
MySQLKeys    == <<Plain("keys", "panic"), Plain("rules", "panic"),
                  Plain("opstats", "part")>>
MySQL ==
  [Standard EXCEPT !.tables = <<MySQLTables>>,
                   !.batch = MySQLColumns \o MySQLKeys,
                   !.each = <<Sampling>>,
                   !.sample = "asked"]

\* The statement that made a table is asked for when its database is done.
StarRocks == [MySQL EXCEPT !.after = <<Plain("ddl", "part")>>]

------------------------------------------------------------------------------
\* pg_database without its template flag is the second try of the list.  One
\* connection answers for every database, and the filter on columns is
\* written behind ORDER BY.
PGDoor    == <<Ping, Tried("databases", 2, "any", "instance")>>
PGTablesAll == Tried("tables", 3, "denied", "database")
PGTables  == Tried("tables", 3, "denied", "part")
PGBatch   == <<Plain("columns", "part"), Plain("indexes", "part"),
               Plain("keys", "part")>>
PGBreaks  == {"columns"}
Postgres ==
  [Standard EXCEPT !.own = FALSE, !.breaks = PGBreaks,
                   !.door = PGDoor,
                   !.inside = <<Plain("schemas", "database")>>,
                   !.tables = <<PGTables>>,
                   !.batch = PGBatch,
                   !.each = <<Sampling>>,
                   !.sample = "asked", !.counts = 1 .. 2]

\* The columns come by another query, which takes the filter; a server that
\* is Oracle compatible is not asked for template flags at all.
GaussDB       == [Postgres EXCEPT !.breaks = {}]
GaussDBOracle == [GaussDB EXCEPT !.door = <<Ping, Listing>>]

------------------------------------------------------------------------------
OracleColumns == <<Plain("columns", "rest"), Plain("constraints", "part"),
                   Plain("indexes", "part")>>
\* The table that a key refers to is asked for once for every key that was read.
Nested        == {"references"}
OracleKeys    == <<Plain("keys", "nested"), Plain("references", "part"),
                   Sampling>>
Oracle == [Standard EXCEPT !.each = OracleColumns \o OracleKeys]

SQLiteTable == <<Plain("columns", "rest"), Plain("count", "part"), Sampling,
                 Plain("indexes", "part"), Plain("keys", "part")>>
SQLite ==
  [Standard EXCEPT !.list = "only", !.door = <<Ping>>,
                   !.tables = <<Plain("tables", "instance")>>,
                   !.each = SQLiteTable, !.counts = {}]

\* A table whose columns cannot be read, or are none, is left out.  A bare name
\* stands for a table of the schema main in all queries but that for constraints,
\* which takes the tables of this name in every schema.
DuckDBTable == <<Plain("columns", "table"), Plain("count", "part"), Sampling,
                 Plain("constraints", "part")>>
DuckDB == [SQLite EXCEPT !.each = DuckDBTable, !.merged = TRUE, !.bare = FALSE]

ClickHouseTable == <<Plain("columns", "rest"), Sampling, Plain("meta", "part")>>
ClickHouse ==
  [Standard EXCEPT !.each = ClickHouseTable,
                   !.closing = <<Plain("stats", "part")>>, !.stream = FALSE,
                   !.scans = FALSE]

\* The database of the DSN is not looked at and no number of rows is known.
HiveTable == <<Plain("columns", "rest"), Sampling>>
Hive ==
  [Standard EXCEPT !.list = "listed", !.filter = FALSE, !.each = HiveTable,
                   !.needs = {"columns"}, !.counts = {}]

------------------------------------------------------------------------------
\* Servers that are not spoken to in SQL: one list, then each of its names.
Directory ==
  [Standard EXCEPT !.list = "only", !.filter = FALSE, !.door = <<Ping>>,
                   !.tables = <<Plain("tables", "instance")>>,
                   !.sample = "never", !.stream = FALSE, !.scans = FALSE]

Mongo  == [Directory EXCEPT !.list = "given", !.each = <<Plain("count", "part")>>]
Elastic == [Directory EXCEPT !.each = <<Plain("columns", "part")>>]
Qdrant == [Directory EXCEPT !.each = <<Plain("info", "part")>>]

\* Neither of its two questions, labels and metrics, is needed for a report,
\* and nothing is asked before them.
Prometheus ==
  [Directory EXCEPT !.door = <<>>,
                    !.tables = <<Plain("labels", "part"), Plain("metrics", "part")>>]

\* A scan that ends early, by an error or at the limit, is not told from one
\* that was complete.
RedisInfo == Plain("info", "part")
RedisScan == Plain("tables", "part")
Redis ==
  [Directory EXCEPT !.inside = <<RedisInfo>>, !.tables = <<RedisScan>>,
                    !.each = <<Plain("type", "part")>>, !.stream = TRUE,
                    !.capped = TRUE]

\* A file that cannot be read is left out, a sheet that cannot be read ends
\* the collection, and either way something must remain.
CSV ==
  [Directory EXCEPT !.door = <<>>, !.each = <<Plain("columns", "table")>>,
                    !.bare = FALSE, !.empty = FALSE]
XLSX == [CSV EXCEPT !.each = <<Plain("columns", "instance")>>]

\* Tables live in schemas, which are asked for first.
HasSchemas(c) == \E i \in DOMAIN c.inside : c.inside[i].ask = "schemas"

Connector ==
  [mysql |-> MySQL, starrocks |-> StarRocks, postgres |-> Postgres,
   gaussdb |-> GaussDB, gaussdboracle |-> GaussDBOracle, oracle |-> Oracle,
   sqlite |-> SQLite, duckdb |-> DuckDB, clickhouse |-> ClickHouse,
   hive |-> Hive, mongo |-> Mongo, elastic |-> Elastic, qdrant |-> Qdrant,
   prometheus |-> Prometheus, redis |-> Redis, csv |-> CSV, xlsx |-> XLSX]
=============================================================================
