----------------------------- MODULE Scan_proofs -----------------------------
(* A scan and what is made of it.  First Catalog: whatever the server holds  *)
(* and whatever fails, nothing that a report says of a table was read of     *)
(* another one, and nothing is missing from it without a query that failed,  *)
(* or a row that was passed over, to answer for it.  Then Analysis: the      *)
(* groups of tables are the components of the relationships, the ranking     *)
(* follows the factors, the parts of the context agree, the links are right, *)
(* and what a comparison of two scans reports leads from the one to the      *)
(* other.                                                                    *)
EXTENDS Catalog, Analysis, NatOrder, SequenceTheorems

\* Every row was read under the key of a table of the name it is about, in the
\* database that its query reads; the schema is that of the table too unless
\* schemas are merged, and a table that was listed has its own key and is one of
\* the filter.
RowOwn(r) ==
  /\ \E s : /\ r.key = Key(s, r.from[3])
            /\ s = r.from[2] \/ (C.merged /\ r.ask # "tables")
  /\ r.from = <<Source(r.db), r.from[2], r.from[3]>>
  /\ r.ask = "tables" => Named(r.from[3])

RowsOwn == \A r \in read : RowOwn(r)

\* Two tables of one database that have one key are one table.
LEMMA KeyInjective ==
  ASSUME NEW s, NEW n, NEW t, NEW m, Key(s, n) = Key(t, m)
  PROVE  s = t /\ n = m
BY DEF Key

\* The rows that an answer adds are own.
LEMMA RowsAreOwn ==
  ASSUME NEW q, NEW items, items \subseteq Items(q), NEW r \in Rows(q, items)
  PROVE  RowOwn(r)
<1>1. q.schema # NoName /\ items \subseteq Present(q)
  BY DEF Rows, Items
<1>2. CASE q.ask \in Lists
  <2>1. PICK t \in items, a \in {"tables", "count"} : r = Row(a, q, t)
    BY <1>1, <1>2 DEF Rows
  <2>2. Named(t[2])
    BY <1>1, <2>1 DEF Present
  <2>3. /\ r.key = Key(t[1], t[2]) /\ r.from = <<Source(r.db), t[1], t[2]>>
    BY <1>2, <2>1 DEF Row
  <2> QED
    BY <2>2, <2>3 DEF RowOwn
<1>3. CASE q.ask \notin Lists
  <2>1. PICK t \in items : r = Row(q.ask, q, t)
    BY <1>1, <1>3 DEF Rows
  <2>2. q.ask # "tables"
    BY <1>3 DEF Lists
  <2>3. ~ C.merged => t[1] = q.schema
    <3>1. t \in Scope(q) \X Name
      BY <1>1, <2>1 DEF Present
    <3>2. ~ C.merged => Scope(q) = {q.schema}
      BY DEF Scope
    <3> QED
      BY <3>1, <3>2
  <2>4. /\ r.ask = q.ask /\ r.key = Key(q.schema, t[2])
        /\ r.from = <<Source(r.db), t[1], t[2]>>
    BY <1>3, <2>1 DEF Row
  <2> QED
    BY <2>2, <2>3, <2>4 DEF RowOwn
<1> QED
  BY <1>2, <1>3

\* Whatever is read stays under the name of the table that it was read of.
THEOREM RowsOwnInductive == Spec => []RowsOwn
<1>1. Init => RowsOwn
  BY DEF Init, RowsOwn
<1>2. RowsOwn /\ [Next]_vars => RowsOwn'
  <2> SUFFICES ASSUME RowsOwn, [Next]_vars PROVE RowsOwn'
    OBVIOUS
  <2>1. call' = call
    BY DEF Next, Collecting, Start, OpenDatabase, SkipSample, Answer, Fail,
           Finish, DropTable, vars
  <2>2. \A r : RowOwn(r) => RowOwn(r)'
    BY <2>1 DEF RowOwn, Source, Named, C, Key
  <2>3. CASE Answer
    <3>1. PICK q \in Elements(todo) :
            \E taken \in Taken(q) : \E items \in SUBSET taken :
               read' = read \cup Rows(q, items)
      BY <2>3 DEF Answer
    <3>2. PICK items \in SUBSET Items(q) : read' = read \cup Rows(q, items)
      BY <3>1 DEF Taken
    <3>3. \A r \in Rows(q, items) : RowOwn(r)
      BY RowsAreOwn
    <3> QED
      BY <2>2, <3>2, <3>3 DEF RowsOwn
  <2>4. CASE ~Answer
    <3>1. read' = read
      BY <2>4 DEF Next, Collecting, Start, OpenDatabase, SkipSample, Fail,
                  Finish, DropTable, vars
    <3> QED
      BY <2>2, <3>1 DEF RowsOwn
  <2> QED
    BY <2>3, <2>4
<1> QED
  BY <1>1, <1>2, PTL DEF Spec

\* A report puts together only what was read of one and the same table, or of
\* tables of one name and database where schemas are merged; the table is of the
\* filter and, unless one database is read for all, of the database it is
\* reported for.
THEOREM ReportOwn == Spec => []TablesOwn
<1>1. RowsOwn => TablesOwn
  <2> SUFFICES ASSUME RowsOwn, NEW e \in Report
               PROVE  /\ Named(e.table.from[3])
                      /\ e.table.key = Key(e.table.from[2], e.table.from[3])
                      /\ C.own => e.table.from[1] = e.table.db
                      /\ \A p \in e.parts :
                           /\ p.from[1] = e.table.from[1] /\ p.from[3] = e.table.from[3]
                           /\ p.from[2] = e.table.from[2] \/ C.merged
    BY DEF TablesOwn
  <2>1. PICK r \in read : r.ask = "tables" /\ e = Entry(r)
    BY DEF Report, Listed
  <2>2. e.table = r /\ RowOwn(r)
    BY <2>1 DEF Entry, RowsOwn
  <2>3. C.own => e.table.from[1] = e.table.db
    BY <2>2 DEF RowOwn, Source
  <2>4. r.key = Key(r.from[2], r.from[3])
    BY <2>1, <2>2 DEF RowOwn
  <2>5. ASSUME NEW p \in e.parts
        PROVE  /\ p.from[1] = r.from[1] /\ p.from[3] = r.from[3]
               /\ p.from[2] = r.from[2] \/ C.merged
    <3>1. p \in read /\ p.db = r.db /\ p.key = r.key
      BY <2>1 DEF Entry
    <3>2. RowOwn(p)
      BY <3>1 DEF RowsOwn
    <3>3. PICK s : p.key = Key(s, p.from[3]) /\ (s = p.from[2] \/ C.merged)
      BY <3>2 DEF RowOwn
    <3>4. s = r.from[2] /\ p.from[3] = r.from[3]
      <4>1. Key(s, p.from[3]) = Key(r.from[2], r.from[3])
        BY <2>4, <3>1, <3>3
      <4> QED
        BY <4>1, KeyInjective
    <3>5. Source(p.db) = Source(r.db)
      BY <3>1
    <3>6. p.from[1] = r.from[1]
      BY <2>2, <3>2, <3>5 DEF RowOwn
    <3> QED
      BY <3>3, <3>4, <3>6
  <2> QED
    BY <2>1, <2>2, <2>3, <2>4, <2>5 DEF RowOwn
<1> QED
  BY <1>1, RowsOwnInductive, PTL

-----------------------------------------------------------------------------
(* What a connector must look like for its failures to stay where they are:
   the cost of a query is no larger than what the query is about.           *)

Asks == {"open", "ping", "databases", "schemas", "tables", "labels", "metrics",
         "columns", "constraints", "indexes", "keys", "references", "rules",
         "count", "meta", "stats", "info", "type", "ddl", "opstats", "sample"}
Costs == {"instance", "panic", "database", "table", "rest", "nested", "part"}
AskSet == [ask : Asks, tries : Nat, on : {"any", "denied"}, cost : Costs]

\* Queries that others follow, and costs that only some of them may have.
Opens == Lists \cup {"databases", "schemas", "open"}
Heavy == {"database", "table", "rest", "nested"}
Fit(asks, costs) == {a \in AskSet : a.ask \notin asks /\ a.cost \notin costs}

DoorAsks    == Fit(Opens \ {"databases"}, Heavy)
InsideAsks  == Fit(Opens \ {"schemas"}, {"table", "rest", "nested"})
BatchAsks   == Fit(Opens, {"table", "rest", "nested"})
ClosingAsks == Fit(Opens, Heavy)
EachAsks    == Fit(Opens, {"database"})

\* A list of tables: its failure costs the database only where it lists all
\* tables of it, and a list of one table has no queries of each.
ListAsks(c) ==
  {a \in Fit({}, {"table", "rest", "nested"}) :
     /\ a.ask \in Lists
     /\ a.cost = "database" => a.ask = "tables" /\ ~ HasSchemas(c) /\ ~ c.merged
     /\ a.ask # "tables" => c.each = <<>>}

\* A connector that contains its failures.
WellMade(c) ==
  /\ c.list \in {"asked", "listed", "given", "only"}
  /\ c.door \in Seq(DoorAsks)
  /\ c.list \in {"asked", "listed"} =>
       \E a \in Elements(c.door) : a.ask = "databases"
  /\ c.inside \in Seq(InsideAsks)
  /\ c.tables \in Seq(ListAsks(c))
  /\ c.batch \in Seq(BatchAsks)
  /\ HasSchemas(c) => \A a \in Elements(c.batch) : a.cost # "database"
  /\ c.closing \in Seq(ClosingAsks)
  /\ c.each \in Seq(EachAsks) /\ c.after \in Seq(ClosingAsks)
  /\ c.merged => c.batch = <<>> /\ c.closing = <<>>

\* Short lists of elements of a set are sequences over it.
LEMMA SeqOfElements ==
  ASSUME NEW S
  PROVE  /\ <<>> \in Seq(S)
         /\ \A a \in S : <<a>> \in Seq(S)
         /\ \A a, b \in S : <<a, b>> \in Seq(S)
         /\ \A a, b, c \in S : <<a, b, c>> \in Seq(S)
         /\ \A a, b, c, d \in S: <<a, b, c, d>> \in Seq(S)
         /\ \A a, b, c, d, e \in S : <<a, b, c, d, e>> \in Seq(S)
  OBVIOUS

\* The queries of the instance cost no database, table or rest of a table, and all
\* but a ping list the databases.
LEMMA Doors ==
  /\ <<Ping, Listing>> \in Seq(DoorAsks)
  /\ <<Ping>> \in Seq(DoorAsks)
  /\ PGDoor \in Seq(DoorAsks)
  /\ <<>> \in Seq(DoorAsks)
  /\ \E a \in Elements(<<Ping, Listing>>) : a.ask = "databases"
  /\ \E a \in Elements(PGDoor) : a.ask = "databases"
  <1> USE SeqOfElements DEF Plain, Tried, AskSet, Asks, Costs, Fit, Opens, Lists, DoorAsks,
                   Heavy
  <1>1. <<Ping, Listing>> \in Seq(DoorAsks)
    BY DEF Ping, Listing
  <1>2. <<Ping>> \in Seq(DoorAsks)
    BY DEF Ping
  <1>3. PGDoor \in Seq(DoorAsks)
    BY DEF PGDoor, Ping
  <1>4. <<>> \in Seq(DoorAsks)
    OBVIOUS
  <1>5. /\ \E a \in Elements(<<Ping, Listing>>) : a.ask = "databases"
        /\ \E a \in Elements(PGDoor) : a.ask = "databases"
    BY DEF Elements, PGDoor, Listing
  <1> QED
    BY <1>1, <1>2, <1>3, <1>4, <1>5

\* The queries that open a database list no tables.
LEMMA Insides ==
  /\ <<Plain("schemas", "database")>> \in Seq(InsideAsks)
  /\ <<RedisInfo>> \in Seq(InsideAsks)
  /\ <<>> \in Seq(InsideAsks)
  <1> USE SeqOfElements DEF Plain, Tried, AskSet, Asks, Costs, Fit, Opens, Lists, InsideAsks,
                   Heavy
  <1>1. <<Plain("schemas", "database")>> \in Seq(InsideAsks)
    OBVIOUS
  <1>2. <<RedisInfo>> \in Seq(InsideAsks)
    BY DEF RedisInfo
  <1>3. <<>> \in Seq(InsideAsks)
    OBVIOUS
  <1> QED
    BY <1>1, <1>2, <1>3

\* The queries of all tables at once cost no single table.
LEMMA Batches ==
  /\ MySQLColumns \o MySQLKeys \in Seq(BatchAsks)
  /\ PGBatch \in Seq(BatchAsks)
  /\ \A a \in Elements(PGBatch) : a.cost # "database"
  /\ <<>> \in Seq(BatchAsks)
  <1>0. \A a \in Elements(PGBatch) : a.cost # "database"
    BY DEF Elements, PGBatch, Plain, Tried
  <1> USE SeqOfElements DEF Plain, Tried, AskSet, Asks, Costs, Fit, Opens, Lists, BatchAsks,
                   Heavy
  <1>1. MySQLColumns \in Seq(BatchAsks)
    BY DEF MySQLColumns
  <1>2. MySQLKeys \in Seq(BatchAsks)
    BY DEF MySQLKeys
  <1>3. PGBatch \in Seq(BatchAsks)
    BY DEF PGBatch
  <1>4. <<>> \in Seq(BatchAsks)
    OBVIOUS
  <1>6. MySQLColumns \o MySQLKeys \in Seq(BatchAsks)
    BY <1>1, <1>2
  <1> QED
    BY <1>0, <1>3, <1>4, <1>6

\* The queries that come last cost no more than their own part.
LEMMA Closings ==
  /\ <<Plain("stats", "part")>> \in Seq(ClosingAsks)
  /\ <<Plain("ddl", "part")>> \in Seq(ClosingAsks)
  /\ <<>> \in Seq(ClosingAsks)
  <1> USE SeqOfElements DEF Plain, Tried, AskSet, Asks, Costs, Fit, Opens, Lists, ClosingAsks,
                   Heavy
  <1>1. /\ <<Plain("stats", "part")>> \in Seq(ClosingAsks)
        /\ <<Plain("ddl", "part")>> \in Seq(ClosingAsks)
    OBVIOUS
  <1>2. <<>> \in Seq(ClosingAsks)
    OBVIOUS
  <1> QED
    BY <1>1, <1>2

\* The queries of one table cost no database.
LEMMA Eaches ==
  /\ <<Sampling>> \in Seq(EachAsks)
  /\ OracleColumns \o OracleKeys \in Seq(EachAsks)
  /\ SQLiteTable \in Seq(EachAsks)
  /\ DuckDBTable \in Seq(EachAsks)
  /\ ClickHouseTable \in Seq(EachAsks)
  /\ HiveTable \in Seq(EachAsks)
  /\ <<Plain("count", "part")>> \in Seq(EachAsks)
  /\ <<Plain("columns", "part")>> \in Seq(EachAsks)
  /\ <<Plain("info", "part")>> \in Seq(EachAsks)
  /\ <<Plain("type", "part")>> \in Seq(EachAsks)
  /\ <<Plain("columns", "table")>> \in Seq(EachAsks)
  /\ <<Plain("columns", "instance")>> \in Seq(EachAsks)
  /\ <<>> \in Seq(EachAsks)
  <1> USE SeqOfElements DEF Plain, Tried, AskSet, Asks, Costs, Fit, Opens, Lists, EachAsks,
                   Heavy
  <1>1. <<Sampling>> \in Seq(EachAsks)
    BY DEF Sampling
  <1>3. OracleColumns \in Seq(EachAsks)
    BY DEF OracleColumns, Sampling
  <1>4. OracleKeys \in Seq(EachAsks)
    BY DEF OracleKeys, Sampling
  <1>5. SQLiteTable \in Seq(EachAsks)
    BY DEF SQLiteTable, Sampling
  <1>6. DuckDBTable \in Seq(EachAsks)
    BY DEF DuckDBTable, Sampling
  <1>7. ClickHouseTable \in Seq(EachAsks)
    BY DEF ClickHouseTable, Sampling
  <1>8. HiveTable \in Seq(EachAsks)
    BY DEF HiveTable, Sampling
  <1>9. <<Plain("count", "part")>> \in Seq(EachAsks)
    OBVIOUS
  <1>10. <<Plain("columns", "part")>> \in Seq(EachAsks)
    OBVIOUS
  <1>11. <<Plain("info", "part")>> \in Seq(EachAsks)
    OBVIOUS
  <1>12. <<Plain("type", "part")>> \in Seq(EachAsks)
    OBVIOUS
  <1>13. <<Plain("columns", "table")>> \in Seq(EachAsks)
    OBVIOUS
  <1>14. <<Plain("columns", "instance")>> \in Seq(EachAsks)
    OBVIOUS
  <1>15. <<>> \in Seq(EachAsks)
    OBVIOUS
  <1>16. OracleColumns \o OracleKeys \in Seq(EachAsks)
    BY <1>3, <1>4
  <1> QED
    BY <1>1, <1>5, <1>6, <1>7, <1>8, <1>9, <1>10, <1>11, <1>12, <1>13,
       <1>14, <1>15, <1>16

\* Which of the queries that open a database ask for its schemas.
LEMMA SchemasKnown ==
  ASSUME NEW c
  PROVE  /\ c.inside = <<Plain("schemas", "database")>> => HasSchemas(c)
         /\ c.inside \in {<<>>, <<RedisInfo>>} => ~ HasSchemas(c)
  BY DEF HasSchemas, Plain, Tried, RedisInfo

\* Lists of tables whose failure costs what it may.
LEMMA TableLists ==
  ASSUME NEW c
  PROVE  /\ <<Plain("tables", "instance")>> \in Seq(ListAsks(c))
         /\ <<PGTables>> \in Seq(ListAsks(c))
         /\ <<RedisScan>> \in Seq(ListAsks(c))
         /\ ~ HasSchemas(c) /\ ~ c.merged =>
              /\ <<Plain("tables", "database")>> \in Seq(ListAsks(c))
              /\ <<MySQLTables>> \in Seq(ListAsks(c))
         /\ c.each = <<>> =>
              <<Plain("labels", "part"), Plain("metrics", "part")>> \in Seq(ListAsks(c))
  <1> USE SeqOfElements DEF ListAsks, Fit, AskSet, Asks, Costs, Plain, Tried, Lists
  <1>1. <<Plain("tables", "instance")>> \in Seq(ListAsks(c))
    OBVIOUS
  <1>2. <<PGTables>> \in Seq(ListAsks(c)) /\ <<RedisScan>> \in Seq(ListAsks(c))
    BY DEF PGTables, RedisScan
  <1>3. ~ HasSchemas(c) /\ ~ c.merged =>
          /\ <<Plain("tables", "database")>> \in Seq(ListAsks(c))
          /\ <<MySQLTables>> \in Seq(ListAsks(c))
    BY DEF MySQLTables
  <1>4. c.each = <<>> =>
          <<Plain("labels", "part"), Plain("metrics", "part")>> \in Seq(ListAsks(c))
    OBVIOUS
  <1> QED
    BY <1>1, <1>2, <1>3, <1>4

\* The fields of a connector, and what its record holds of each.
Fields == {"list", "own", "filter", "breaks", "door", "inside", "tables", "batch",
           "each", "after", "closing", "merged", "sample", "needs", "counts",
           "stream", "scans", "capped", "bare", "empty"}

\* What MySQL says, with what it inherits.
LEMMA MySQLFields ==
  /\ DOMAIN MySQL = Fields
  /\ MySQL.list = "asked"
  /\ MySQL.door = <<Ping, Listing>>
  /\ MySQL.inside = <<>>
  /\ MySQL.tables = <<MySQLTables>>
  /\ MySQL.batch = MySQLColumns \o MySQLKeys
  /\ MySQL.each = <<Sampling>>
  /\ MySQL.after = <<>>
  /\ MySQL.merged = FALSE
  /\ MySQL.closing = <<>>
  BY DEF MySQL, Standard, Fields

\* MySQL contains its failures.
LEMMA MySQLMade == WellMade(MySQL)
  BY MySQLFields, Doors, Insides, SchemasKnown, TableLists, Batches, Closings,
     Eaches DEF WellMade

\* What StarRocks says, with what it inherits.
LEMMA StarRocksFields ==
  /\ DOMAIN StarRocks = Fields
  /\ StarRocks.list = "asked"
  /\ StarRocks.door = <<Ping, Listing>>
  /\ StarRocks.inside = <<>>
  /\ StarRocks.tables = <<MySQLTables>>
  /\ StarRocks.batch = MySQLColumns \o MySQLKeys
  /\ StarRocks.each = <<Sampling>>
  /\ StarRocks.after = <<Plain("ddl", "part")>>
  /\ StarRocks.merged = FALSE
  /\ StarRocks.closing = <<>>
  BY MySQLFields DEF StarRocks, Fields

\* StarRocks contains its failures.
LEMMA StarRocksMade == WellMade(StarRocks)
  BY StarRocksFields, Doors, Insides, SchemasKnown, TableLists, Batches, Closings,
     Eaches DEF WellMade

\* What Postgres says, with what it inherits.
LEMMA PostgresFields ==
  /\ DOMAIN Postgres = Fields
  /\ Postgres.list = "asked"
  /\ Postgres.door = PGDoor
  /\ Postgres.inside = <<Plain("schemas", "database")>>
  /\ Postgres.tables = <<PGTables>>
  /\ Postgres.batch = PGBatch
  /\ Postgres.each = <<Sampling>>
  /\ Postgres.after = <<>>
  /\ Postgres.merged = FALSE
  /\ Postgres.closing = <<>>
  BY DEF Postgres, Standard, Fields

\* Postgres contains its failures.
LEMMA PostgresMade == WellMade(Postgres)
  BY PostgresFields, Doors, Insides, SchemasKnown, TableLists, Batches, Closings,
     Eaches DEF WellMade

\* What GaussDB says, with what it inherits.
LEMMA GaussDBFields ==
  /\ DOMAIN GaussDB = Fields
  /\ GaussDB.list = "asked"
  /\ GaussDB.door = PGDoor
  /\ GaussDB.inside = <<Plain("schemas", "database")>>
  /\ GaussDB.tables = <<PGTables>>
  /\ GaussDB.batch = PGBatch
  /\ GaussDB.each = <<Sampling>>
  /\ GaussDB.after = <<>>
  /\ GaussDB.merged = FALSE
  /\ GaussDB.closing = <<>>
  BY PostgresFields DEF GaussDB, Fields

\* GaussDB contains its failures.
LEMMA GaussDBMade == WellMade(GaussDB)
  BY GaussDBFields, Doors, Insides, SchemasKnown, TableLists, Batches, Closings,
     Eaches DEF WellMade

\* What GaussDBOracle says, with what it inherits.
LEMMA GaussDBOracleFields ==
  /\ DOMAIN GaussDBOracle = Fields
  /\ GaussDBOracle.list = "asked"
  /\ GaussDBOracle.door = <<Ping, Listing>>
  /\ GaussDBOracle.inside = <<Plain("schemas", "database")>>
  /\ GaussDBOracle.tables = <<PGTables>>
  /\ GaussDBOracle.batch = PGBatch
  /\ GaussDBOracle.each = <<Sampling>>
  /\ GaussDBOracle.after = <<>>
  /\ GaussDBOracle.merged = FALSE
  /\ GaussDBOracle.closing = <<>>
  BY GaussDBFields DEF GaussDBOracle, Fields

\* GaussDBOracle contains its failures.
LEMMA GaussDBOracleMade == WellMade(GaussDBOracle)
  BY GaussDBOracleFields, Doors, Insides, SchemasKnown, TableLists, Batches, Closings,
     Eaches DEF WellMade

\* What Oracle says, with what it inherits.
LEMMA OracleFields ==
  /\ DOMAIN Oracle = Fields
  /\ Oracle.list = "asked"
  /\ Oracle.door = <<Ping, Listing>>
  /\ Oracle.inside = <<>>
  /\ Oracle.tables = <<Plain("tables", "database")>>
  /\ Oracle.batch = <<>>
  /\ Oracle.each = OracleColumns \o OracleKeys
  /\ Oracle.after = <<>>
  /\ Oracle.merged = FALSE
  /\ Oracle.closing = <<>>
  BY DEF Oracle, Standard, Fields

\* Oracle contains its failures.
LEMMA OracleMade == WellMade(Oracle)
  BY OracleFields, Doors, Insides, SchemasKnown, TableLists, Batches, Closings,
     Eaches DEF WellMade

\* What SQLite says, with what it inherits.
LEMMA SQLiteFields ==
  /\ DOMAIN SQLite = Fields
  /\ SQLite.list = "only"
  /\ SQLite.door = <<Ping>>
  /\ SQLite.inside = <<>>
  /\ SQLite.tables = <<Plain("tables", "instance")>>
  /\ SQLite.batch = <<>>
  /\ SQLite.each = SQLiteTable
  /\ SQLite.after = <<>>
  /\ SQLite.merged = FALSE
  /\ SQLite.closing = <<>>
  BY DEF SQLite, Standard, Fields

\* SQLite contains its failures.
LEMMA SQLiteMade == WellMade(SQLite)
  BY SQLiteFields, Doors, Insides, SchemasKnown, TableLists, Batches, Closings,
     Eaches DEF WellMade

\* What DuckDB says, with what it inherits.
LEMMA DuckDBFields ==
  /\ DOMAIN DuckDB = Fields
  /\ DuckDB.list = "only"
  /\ DuckDB.door = <<Ping>>
  /\ DuckDB.inside = <<>>
  /\ DuckDB.tables = <<Plain("tables", "instance")>>
  /\ DuckDB.batch = <<>>
  /\ DuckDB.each = DuckDBTable
  /\ DuckDB.after = <<>>
  /\ DuckDB.merged = TRUE
  /\ DuckDB.closing = <<>>
  BY SQLiteFields DEF DuckDB, Fields

\* DuckDB contains its failures.
LEMMA DuckDBMade == WellMade(DuckDB)
  BY DuckDBFields, Doors, Insides, SchemasKnown, TableLists, Batches, Closings,
     Eaches DEF WellMade

\* What ClickHouse says, with what it inherits.
LEMMA ClickHouseFields ==
  /\ DOMAIN ClickHouse = Fields
  /\ ClickHouse.list = "asked"
  /\ ClickHouse.door = <<Ping, Listing>>
  /\ ClickHouse.inside = <<>>
  /\ ClickHouse.tables = <<Plain("tables", "database")>>
  /\ ClickHouse.batch = <<>>
  /\ ClickHouse.each = ClickHouseTable
  /\ ClickHouse.after = <<>>
  /\ ClickHouse.merged = FALSE
  /\ ClickHouse.closing = <<Plain("stats", "part")>>
  BY DEF ClickHouse, Standard, Fields

\* ClickHouse contains its failures.
LEMMA ClickHouseMade == WellMade(ClickHouse)
  BY ClickHouseFields, Doors, Insides, SchemasKnown, TableLists, Batches, Closings,
     Eaches DEF WellMade

\* What Hive says, with what it inherits.
LEMMA HiveFields ==
  /\ DOMAIN Hive = Fields
  /\ Hive.list = "listed"
  /\ Hive.door = <<Ping, Listing>>
  /\ Hive.inside = <<>>
  /\ Hive.tables = <<Plain("tables", "database")>>
  /\ Hive.batch = <<>>
  /\ Hive.each = HiveTable
  /\ Hive.after = <<>>
  /\ Hive.merged = FALSE
  /\ Hive.closing = <<>>
  BY DEF Hive, Standard, Fields

\* Hive contains its failures.
LEMMA HiveMade == WellMade(Hive)
  BY HiveFields, Doors, Insides, SchemasKnown, TableLists, Batches, Closings,
     Eaches DEF WellMade

\* What Directory says, with what it inherits.
LEMMA DirectoryFields ==
  /\ DOMAIN Directory = Fields
  /\ Directory.list = "only"
  /\ Directory.door = <<Ping>>
  /\ Directory.inside = <<>>
  /\ Directory.tables = <<Plain("tables", "instance")>>
  /\ Directory.batch = <<>>
  /\ Directory.each = <<>>
  /\ Directory.after = <<>>
  /\ Directory.merged = FALSE
  /\ Directory.closing = <<>>
  BY DEF Directory, Standard, Fields

\* What Mongo says, with what it inherits.
LEMMA MongoFields ==
  /\ DOMAIN Mongo = Fields
  /\ Mongo.list = "given"
  /\ Mongo.door = <<Ping>>
  /\ Mongo.inside = <<>>
  /\ Mongo.tables = <<Plain("tables", "instance")>>
  /\ Mongo.batch = <<>>
  /\ Mongo.each = <<Plain("count", "part")>>
  /\ Mongo.after = <<>>
  /\ Mongo.merged = FALSE
  /\ Mongo.closing = <<>>
  BY DirectoryFields DEF Mongo, Fields

\* Mongo contains its failures.
LEMMA MongoMade == WellMade(Mongo)
  BY MongoFields, Doors, Insides, SchemasKnown, TableLists, Batches, Closings,
     Eaches DEF WellMade

\* What Elastic says, with what it inherits.
LEMMA ElasticFields ==
  /\ DOMAIN Elastic = Fields
  /\ Elastic.list = "only"
  /\ Elastic.door = <<Ping>>
  /\ Elastic.inside = <<>>
  /\ Elastic.tables = <<Plain("tables", "instance")>>
  /\ Elastic.batch = <<>>
  /\ Elastic.each = <<Plain("columns", "part")>>
  /\ Elastic.after = <<>>
  /\ Elastic.merged = FALSE
  /\ Elastic.closing = <<>>
  BY DirectoryFields DEF Elastic, Fields

\* Elastic contains its failures.
LEMMA ElasticMade == WellMade(Elastic)
  BY ElasticFields, Doors, Insides, SchemasKnown, TableLists, Batches, Closings,
     Eaches DEF WellMade

\* What Qdrant says, with what it inherits.
LEMMA QdrantFields ==
  /\ DOMAIN Qdrant = Fields
  /\ Qdrant.list = "only"
  /\ Qdrant.door = <<Ping>>
  /\ Qdrant.inside = <<>>
  /\ Qdrant.tables = <<Plain("tables", "instance")>>
  /\ Qdrant.batch = <<>>
  /\ Qdrant.each = <<Plain("info", "part")>>
  /\ Qdrant.after = <<>>
  /\ Qdrant.merged = FALSE
  /\ Qdrant.closing = <<>>
  BY DirectoryFields DEF Qdrant, Fields

\* Qdrant contains its failures.
LEMMA QdrantMade == WellMade(Qdrant)
  BY QdrantFields, Doors, Insides, SchemasKnown, TableLists, Batches, Closings,
     Eaches DEF WellMade

\* What Prometheus says, with what it inherits.
LEMMA PrometheusFields ==
  /\ DOMAIN Prometheus = Fields
  /\ Prometheus.list = "only"
  /\ Prometheus.door = <<>>
  /\ Prometheus.inside = <<>>
  /\ Prometheus.tables = <<Plain("labels", "part"), Plain("metrics", "part")>>
  /\ Prometheus.batch = <<>>
  /\ Prometheus.each = <<>>
  /\ Prometheus.after = <<>>
  /\ Prometheus.merged = FALSE
  /\ Prometheus.closing = <<>>
  BY DirectoryFields DEF Prometheus, Fields

\* Prometheus contains its failures.
LEMMA PrometheusMade == WellMade(Prometheus)
  BY PrometheusFields, Doors, Insides, SchemasKnown, TableLists, Batches, Closings,
     Eaches DEF WellMade

\* What Redis says, with what it inherits.
LEMMA RedisFields ==
  /\ DOMAIN Redis = Fields
  /\ Redis.list = "only"
  /\ Redis.door = <<Ping>>
  /\ Redis.inside = <<RedisInfo>>
  /\ Redis.tables = <<RedisScan>>
  /\ Redis.batch = <<>>
  /\ Redis.each = <<Plain("type", "part")>>
  /\ Redis.after = <<>>
  /\ Redis.merged = FALSE
  /\ Redis.closing = <<>>
  BY DirectoryFields DEF Redis, Fields

\* Redis contains its failures.
LEMMA RedisMade == WellMade(Redis)
  BY RedisFields, Doors, Insides, SchemasKnown, TableLists, Batches, Closings,
     Eaches DEF WellMade

\* What CSV says, with what it inherits.
LEMMA CSVFields ==
  /\ DOMAIN CSV = Fields
  /\ CSV.list = "only"
  /\ CSV.door = <<>>
  /\ CSV.inside = <<>>
  /\ CSV.tables = <<Plain("tables", "instance")>>
  /\ CSV.batch = <<>>
  /\ CSV.each = <<Plain("columns", "table")>>
  /\ CSV.after = <<>>
  /\ CSV.merged = FALSE
  /\ CSV.closing = <<>>
  BY DirectoryFields DEF CSV, Fields

\* CSV contains its failures.
LEMMA CSVMade == WellMade(CSV)
  BY CSVFields, Doors, Insides, SchemasKnown, TableLists, Batches, Closings,
     Eaches DEF WellMade

\* What XLSX says, with what it inherits.
LEMMA XLSXFields ==
  /\ DOMAIN XLSX = Fields
  /\ XLSX.list = "only"
  /\ XLSX.door = <<>>
  /\ XLSX.inside = <<>>
  /\ XLSX.tables = <<Plain("tables", "instance")>>
  /\ XLSX.batch = <<>>
  /\ XLSX.each = <<Plain("columns", "instance")>>
  /\ XLSX.after = <<>>
  /\ XLSX.merged = FALSE
  /\ XLSX.closing = <<>>
  BY CSVFields DEF XLSX, Fields

\* XLSX contains its failures.
LEMMA XLSXMade == WellMade(XLSX)
  BY XLSXFields, Doors, Insides, SchemasKnown, TableLists, Batches, Closings,
     Eaches DEF WellMade

\* Every connector contains its failures.
LEMMA ConnectorsMade ==
  \A k \in DOMAIN Connector : WellMade(Connector[k])
  BY MySQLMade, StarRocksMade, PostgresMade, GaussDBMade, GaussDBOracleMade, OracleMade,
     SQLiteMade, DuckDBMade, ClickHouseMade, HiveMade, MongoMade, ElasticMade, QdrantMade,
     PrometheusMade, RedisMade, CSVMade, XLSXMade
     DEF Connector

AskIn(s, x) == \E a \in Elements(s) : a.ask = x

\* Every table is asked for by some list: by one of all tables, or by its own.
LEMMA ConnectorsList ==
  \A k \in DOMAIN Connector :
    \/ AskIn(Connector[k].tables, "tables")
    \/ /\ k = "prometheus" /\ ~ Connector[k].merged
       /\ AskIn(Connector[k].tables, "labels") /\ AskIn(Connector[k].tables, "metrics")
  <1>1. /\ AskIn(<<Plain("tables", "database")>>, "tables")
        /\ AskIn(<<Plain("tables", "instance")>>, "tables")
        /\ AskIn(<<MySQLTables>>, "tables") /\ AskIn(<<PGTables>>, "tables")
        /\ AskIn(<<RedisScan>>, "tables")
    BY DEF AskIn, Elements, Plain, Tried, MySQLTables, PGTables, RedisScan
  <1>2. LET s == <<Plain("labels", "part"), Plain("metrics", "part")>>
        IN  AskIn(s, "labels") /\ AskIn(s, "metrics")
    BY DEF AskIn, Elements, Plain, Tried
  <1>3. AskIn(MySQL.tables, "tables") /\ AskIn(StarRocks.tables, "tables")
    BY <1>1, MySQLFields, StarRocksFields
  <1>4. /\ AskIn(Postgres.tables, "tables") /\ AskIn(GaussDB.tables, "tables")
        /\ AskIn(GaussDBOracle.tables, "tables")
    BY <1>1, PostgresFields, GaussDBFields, GaussDBOracleFields
  <1>5. /\ AskIn(Oracle.tables, "tables") /\ AskIn(ClickHouse.tables, "tables")
        /\ AskIn(Hive.tables, "tables")
    BY <1>1, OracleFields, ClickHouseFields, HiveFields
  <1>6. /\ AskIn(SQLite.tables, "tables") /\ AskIn(DuckDB.tables, "tables")
        /\ AskIn(Redis.tables, "tables")
    BY <1>1, SQLiteFields, DuckDBFields, RedisFields
  <1>7. /\ AskIn(Mongo.tables, "tables") /\ AskIn(Elastic.tables, "tables")
        /\ AskIn(Qdrant.tables, "tables")
    BY <1>1, MongoFields, ElasticFields, QdrantFields
  <1>8. AskIn(CSV.tables, "tables") /\ AskIn(XLSX.tables, "tables")
    BY <1>1, CSVFields, XLSXFields
  <1>9. /\ AskIn(Prometheus.tables, "labels") /\ AskIn(Prometheus.tables, "metrics")
        /\ ~ Prometheus.merged
    BY <1>2, PrometheusFields
  <1> QED
    BY <1>3, <1>4, <1>5, <1>6, <1>7, <1>8, <1>9 DEF Connector

-----------------------------------------------------------------------------
(* The queries still to be put.                                             *)

QueryType == [ask : Asks, tries : Nat, on : {"any", "denied"}, cost : Costs,
              db : Database \cup {NoName}, schema : Schema \cup {NoName},
              table : Name \cup {NoName}, level : Nat]

\* What the loop knows of a query from what it asks and what its failure costs.
Shaped(q) ==
  /\ q.ask = "databases" =>
       q.db = NoName /\ q.schema = NoName /\ q.table = NoName /\ q.cost \notin Heavy
  /\ q.ask \in {"open", "schemas"} =>
       /\ q.db \in Database /\ q.schema = NoName /\ q.table = NoName
       /\ q.cost \notin {"table", "rest", "nested"}
       /\ q.ask = "schemas" => HasSchemas(C)
  /\ q.ask \in Lists =>
       /\ q.db \in Database /\ q.schema \in Schema
       /\ q.cost \notin {"table", "rest", "nested"}
       /\ q.table # NoName => C.each = <<>>
  /\ q.cost = "database" =>
       /\ q.db \in Database /\ q.table = NoName
       /\ q.schema = NoName \/ Within = {q.schema}
  /\ q.cost \in {"table", "rest", "nested"} =>
       /\ q.db \in Database /\ q.schema \in Schema /\ q.table \in Name
       /\ C.each # <<>> /\ q.ask \notin Opens
  /\ C.merged /\ q.schema # NoName /\ q.table = NoName => q.ask \in Lists

Queries == {q \in QueryType : Shaped(q)}

\* The schema and the database that are always there, and the first and
\* the last of the names.
LEMMA PublicHome ==
  /\ Public \in Schema /\ Home \in Database
  /\ Names[1] \in Name /\ Names[Len(Names)] \in Name
  BY CatalogAssumption, ListsAssumption DEF Public, Home, Elements, Schema, Database, Name

\* The connector of a call, and the database that it may name.
LEMMA CallMade ==
  ASSUME call \in Calls
  PROVE  /\ WellMade(C) /\ call.kind \in DOMAIN Connector
         /\ call.dbname \in Database \cup {NoName}
  BY CatalogAssumption, ConnectorsMade DEF C, Call

\* The elements of two lists that are joined.
LEMMA Joined ==
  ASSUME NEW S, NEW s \in Seq(S), NEW t \in Seq(S)
  PROVE  s \o t \in Seq(S) /\ Elements(s \o t) = Elements(s) \cup Elements(t)
  <1>1. s \o t \in Seq(S) /\ Len(s \o t) = Len(s) + Len(t)
    OBVIOUS
  <1>2. \A i \in DOMAIN s : i \in DOMAIN (s \o t) /\ (s \o t)[i] = s[i]
    OBVIOUS
  <1>3. \A i \in DOMAIN t : i + Len(s) \in DOMAIN (s \o t) /\ (s \o t)[i + Len(s)] = t[i]
    OBVIOUS
  <1>4. \A i \in DOMAIN (s \o t) : (s \o t)[i] \in Elements(s) \cup Elements(t)
    <2> SUFFICES ASSUME NEW i \in DOMAIN (s \o t)
                 PROVE  (s \o t)[i] \in Elements(s) \cup Elements(t)
      OBVIOUS
    <2>1. CASE i <= Len(s)
      BY <1>1, <1>2, <2>1 DEF Elements
    <2>2. CASE i > Len(s)
      <3>1. i - Len(s) \in DOMAIN t /\ (s \o t)[i] = t[i - Len(s)]
        BY <1>1, <2>2
      <3> QED
        BY <3>1 DEF Elements
    <2> QED
      BY <1>1, <2>1, <2>2
  <1>5. Elements(s) \subseteq Elements(s \o t) /\ Elements(t) \subseteq Elements(s \o t)
    BY <1>2, <1>3 DEF Elements
  <1>6. Elements(s \o t) \subseteq Elements(s) \cup Elements(t)
    BY <1>4 DEF Elements
  <1> QED
    BY <1>1, <1>5, <1>6

\* A list is its first element and the rest.
LEMMA HeadTail ==
  ASSUME NEW S, NEW s \in Seq(S), s # <<>>
  PROVE  /\ Head(s) \in S /\ Tail(s) \in Seq(S)
         /\ Elements(s) = {Head(s)} \cup Elements(Tail(s))
  <1>1. Head(s) = s[1] /\ 1 \in DOMAIN s /\ s[1] \in S /\ Tail(s) \in Seq(S)
    OBVIOUS
  <1>2. \A i \in DOMAIN Tail(s) : i + 1 \in DOMAIN s /\ Tail(s)[i] = s[i + 1]
    OBVIOUS
  <1>3. \A i \in DOMAIN s : i # 1 => i - 1 \in DOMAIN Tail(s) /\ Tail(s)[i - 1] = s[i]
    OBVIOUS
  <1>4. Elements(s) \subseteq {Head(s)} \cup Elements(Tail(s))
    BY <1>1, <1>3 DEF Elements
  <1>5. {Head(s)} \cup Elements(Tail(s)) \subseteq Elements(s)
    BY <1>1, <1>2 DEF Elements
  <1> QED
    BY <1>1, <1>4, <1>5

\* A function of the numbers up to n is a list.
LEMMA ListSeq ==
  ASSUME NEW S, NEW n \in Nat, NEW f \in [1 .. n -> S]
  PROVE  f \in Seq(S)
  OBVIOUS

\* Positions of pairs, and the two positions that each of them stands for.
Pairs(m, n)  == 1 .. m * n
Former(i, n) == ((i - 1) \div n) + 1
Latter(i, n) == ((i - 1) % n) + 1

\* The positions of all pairs of two lists are numbered without a gap.
LEMMA Crossing ==
  ASSUME NEW m \in Nat, NEW n \in Nat
  PROVE  /\ m * n \in Nat
         /\ \A i \in Pairs(m, n) : Former(i, n) \in 1 .. m /\ Latter(i, n) \in 1 .. n
         /\ \A j \in 1 .. m, k \in 1 .. n :
              \E i \in Pairs(m, n) : Former(i, n) = j /\ Latter(i, n) = k
  <1>1. m * n \in Nat
    OBVIOUS
  <1>2. ASSUME NEW i \in 1 .. m * n
        PROVE  ((i - 1) \div n) + 1 \in 1 .. m /\ ((i - 1) % n) + 1 \in 1 .. n
    <2>1. n # 0 /\ n > 0 /\ i - 1 \in Nat /\ i - 1 < m * n
      BY <1>1
    <2>2. /\ (i - 1) \div n \in Nat /\ (i - 1) % n \in 0 .. n - 1
          /\ i - 1 = n * ((i - 1) \div n) + ((i - 1) % n)
      BY <2>1
    <2>3. (i - 1) \div n < m
      BY <2>1, <2>2
    <2> QED
      BY <2>2, <2>3
  <1>3. ASSUME NEW j \in 1 .. m, NEW k \in 1 .. n
        PROVE  \E i \in 1 .. m * n : ((i - 1) \div n) + 1 = j /\ ((i - 1) % n) + 1 = k
    <2> DEFINE i == (j - 1) * n + k
    <2>1. (j - 1) * n \in Nat /\ i \in Nat /\ i >= 1
      OBVIOUS
    <2>2. i <= m * n
      <3>1. m * n = (j - 1) * n + n + (m - j) * n
        OBVIOUS
      <3>2. (m - j) * n >= 0
        OBVIOUS
      <3> QED
        BY <3>1, <3>2
    <2>3. (i - 1) \div n = j - 1 /\ (i - 1) % n = k - 1
      OBVIOUS
    <2>4. i \in 1 .. m * n /\ ((i - 1) \div n) + 1 = j /\ ((i - 1) % n) + 1 = k
      BY <1>1, <2>1, <2>2, <2>3
    <2> HIDE DEF i
    <2> QED
      BY <2>4
  <1> QED
    BY <1>1, <1>2, <1>3 DEF Pairs, Former, Latter

\* The queries of a batch and those of each table are the connector's.
LEMMA BatchEach ==
  ASSUME call \in Calls
  PROVE  /\ Batch \in Seq(BatchAsks) /\ Each \in Seq(EachAsks)
         /\ C.after \in Seq(ClosingAsks)
         /\ HasSchemas(C) => \A a \in Elements(Batch) : a.cost # "database"
         /\ C.merged => Elements(Batch) = {} /\ Elements(C.closing) = {}
         /\ Each # <<>> => C.each # <<>>
  <1>1. C.batch \in Seq(BatchAsks) /\ C.each \in Seq(EachAsks)
    BY CallMade DEF WellMade
  <1> DEFINE K == {i \in DOMAIN C.batch : C.batch[i].ask # "opstats" \/ call.opstats}
             L == {i \in DOMAIN C.each : C.each[i].ask # "sample" \/ C.sample = "always"
                                                                  \/ call.sample}
  <1>2. Batch = Picked(C.batch, K) /\ Each = Picked(C.each, L)
    BY DEF Batch, Each, Select
  <1>3. K \in SUBSET DOMAIN C.batch /\ L \in SUBSET DOMAIN C.each
    OBVIOUS
  <1> HIDE DEF K, L
  <1>4. /\ Batch \in Seq(BatchAsks) /\ Elements(Batch) \subseteq Elements(C.batch)
    <2>1. {Picked(C.batch, K)[m] : m \in DOMAIN Picked(C.batch, K)} = {C.batch[i] : i \in K}
      BY <1>1, <1>3, PickedElements
    <2>2. Picked(C.batch, K) \in Seq(BatchAsks)
      BY <1>1, <1>3, PickedElements
    <2> QED
      BY <1>2, <1>3, <2>1, <2>2 DEF Elements
  <1>5. Each \in Seq(EachAsks) /\ Elements(Each) \subseteq Elements(C.each)
    <2>1. {Picked(C.each, L)[m] : m \in DOMAIN Picked(C.each, L)} = {C.each[i] : i \in L}
      BY <1>1, <1>3, PickedElements
    <2>2. Picked(C.each, L) \in Seq(EachAsks)
      BY <1>1, <1>3, PickedElements
    <2> QED
      BY <1>2, <1>3, <2>1, <2>2 DEF Elements
  <1>6. Each # <<>> => C.each # <<>>
    <2> SUFFICES ASSUME C.each = <<>>
                 PROVE  Each = <<>>
      OBVIOUS
    <2>1. Elements(Each) = {}
      BY <1>5 DEF Elements
    <2>2. 1 \notin DOMAIN Each
      BY <2>1 DEF Elements
    <2> QED
      BY <1>5, <2>2
  <1>7. C.merged => Elements(Batch) = {} /\ Elements(C.closing) = {}
    <2>1. C.merged => C.batch = <<>> /\ C.closing = <<>>
      BY CallMade DEF WellMade
    <2>2. Elements(<<>>) = {}
      BY DEF Elements
    <2> QED
      BY <1>4, <2>1, <2>2
  <1> QED
    BY <1>4, <1>5, <1>6, <1>7, CallMade DEF WellMade

\* The queries of one table.
Singles == Elements(Each) \cup Elements(C.after)

\* A query is shaped after the list that it comes from.
LEMMA MadeShaped ==
  ASSUME call \in Calls, NEW d \in Database, NEW s \in Schema
  PROVE  /\ \A a \in Elements(C.door) : Query(a, NoName, NoName, NoName) \in Queries
         /\ \A a \in Elements(C.inside) : Query(a, d, NoName, NoName) \in Queries
         /\ HasSchemas(C) \/ s = Public =>
              /\ \A a \in Elements(C.tables) : Query(a, d, s, ListOf(a)) \in Queries
              /\ \A a \in Elements(Batch) : Query(a, d, s, NoName) \in Queries
         /\ \A a \in Elements(C.closing) : Query(a, d, s, NoName) \in Queries
         /\ \A a \in Singles, n \in Name : Query(a, d, s, n) \in Queries
         /\ Query(Plain("open", "part"), d, NoName, NoName) \in Queries
  <1> USE DEF Query, QueryType, AskSet, Fit, Opens, Heavy
  <1>0. /\ \A S, x : \A a \in Elements(x) : x \in Seq(S) => a \in S
        /\ NoName \notin Database /\ NoName \notin Schema /\ NoName \notin Name
    BY CatalogAssumption DEF Elements
  <1>1. ASSUME NEW a \in Elements(C.door)
        PROVE  Query(a, NoName, NoName, NoName) \in Queries
    <2>1. a \in DoorAsks
      BY <1>0, <1>1, CallMade DEF WellMade
    <2> QED
      BY <2>1, <1>0 DEF DoorAsks, Queries, Shaped, Lists
  <1>2. ASSUME NEW a \in Elements(C.inside)
        PROVE  Query(a, d, NoName, NoName) \in Queries
    <2>1. a \in InsideAsks
      BY <1>0, <1>2, CallMade DEF WellMade
    <2>2. a.ask = "schemas" => HasSchemas(C)
      BY <1>2 DEF HasSchemas, Elements
    <2> QED
      BY <2>1, <2>2, <1>0 DEF InsideAsks, Queries, Shaped, Lists
  <1>3. ASSUME HasSchemas(C) \/ s = Public, NEW a \in Elements(C.tables)
        PROVE  Query(a, d, s, ListOf(a)) \in Queries
    <2>1. a \in ListAsks(C)
      BY <1>0, <1>3, CallMade DEF WellMade
    <2>2. ListOf(a) \in Name \cup {NoName} /\ (a.ask = "tables" => ListOf(a) = NoName)
      BY <2>1, PublicHome DEF ListOf, ListAsks
    <2>3. ListOf(a) # NoName => C.each = <<>>
      BY <2>1, <2>2 DEF ListAsks
    <2>4. a.cost = "database" => Within = {s} /\ ListOf(a) = NoName
      BY <2>1, <2>2, <1>3 DEF ListAsks, Within
    <2> QED
      BY <2>1, <2>2, <2>3, <2>4, <1>0 DEF ListAsks, Queries, Shaped, Lists
  <1>4. ASSUME HasSchemas(C) \/ s = Public, NEW a \in Elements(Batch)
        PROVE  Query(a, d, s, NoName) \in Queries
    <2>1. a \in BatchAsks
      BY <1>0, <1>4, BatchEach
    <2>2. ~ C.merged
      BY <1>4, BatchEach
    <2>3. a.cost = "database" => Within = {s}
      BY <1>4, <2>2, BatchEach DEF Within
    <2> QED
      BY <2>1, <2>2, <2>3, <1>0 DEF BatchAsks, Queries, Shaped, Lists
  <1>5. ASSUME NEW a \in Elements(C.closing)
        PROVE  Query(a, d, s, NoName) \in Queries
    <2>1. a \in ClosingAsks /\ ~ C.merged
      BY <1>0, <1>5, CallMade, BatchEach DEF WellMade
    <2> QED
      BY <2>1, <1>0 DEF ClosingAsks, Queries, Shaped, Lists
  <1>6. ASSUME NEW a \in Singles, NEW n \in Name
        PROVE  Query(a, d, s, n) \in Queries
    <2>1. CASE a \in Elements(Each)
      <3>1. a \in EachAsks /\ Each # <<>> /\ C.each # <<>>
        BY <1>0, <2>1, BatchEach DEF Elements
      <3> QED
        BY <3>1, <1>0 DEF EachAsks, Queries, Shaped, Lists
    <2>2. CASE a \in Elements(C.after)
      <3>1. a \in ClosingAsks
        BY <1>0, <2>2, BatchEach
      <3> QED
        BY <3>1, <1>0 DEF ClosingAsks, Queries, Shaped, Lists
    <2> QED
      BY <1>6, <2>1, <2>2 DEF Singles
  <1>7. Query(Plain("open", "part"), d, NoName, NoName) \in Queries
    BY <1>0 DEF Plain, Tried, Asks, Costs, Queries, Shaped, Lists
  <1> QED
    BY <1>1, <1>2, <1>3, <1>4, <1>5, <1>6, <1>7

\* The queries of schemas, of tables, and those that open databases.
LEMMA OfSchemasMade ==
  ASSUME call \in Calls, NEW d \in Database, NEW ss \in Seq(Schema),
         HasSchemas(C) \/ ss = <<Public>>
  PROVE  /\ OfSchemas(d, ss) \in Seq(Queries)
         /\ \A s \in Elements(ss) :
              /\ \A a \in Elements(C.tables) :
                   Query(a, d, s, ListOf(a)) \in Elements(OfSchemas(d, ss))
              /\ \A a \in Elements(Batch) :
                   Query(a, d, s, NoName) \in Elements(OfSchemas(d, ss))
  <1> DEFINE n == Len(ss)
             P(i) == Former(i, n)
             R(i) == Latter(i, n)
             lists == [i \in Pairs(Len(C.tables), n) |->
                         Query(C.tables[P(i)], d, ss[R(i)], ListOf(C.tables[P(i)]))]
             parts == [i \in Pairs(Len(Batch), n) |->
                         Query(Batch[P(i)], d, ss[R(i)], NoName)]
  <1>1. OfSchemas(d, ss) = lists \o parts
    BY DEF OfSchemas, Crossed, Pairs, Former, Latter
  <1>2. /\ C.tables \in Seq(ListAsks(C)) /\ Batch \in Seq(BatchAsks)
        /\ Len(C.tables) \in Nat /\ Len(Batch) \in Nat /\ n \in Nat
        /\ DOMAIN C.tables = 1 .. Len(C.tables) /\ DOMAIN Batch = 1 .. Len(Batch)
        /\ DOMAIN ss = 1 .. n
    BY CallMade, BatchEach DEF WellMade
  <1>3. /\ \A i \in Pairs(Len(C.tables), n) : P(i) \in DOMAIN C.tables /\ R(i) \in DOMAIN ss
        /\ \A j \in DOMAIN C.tables, k \in DOMAIN ss :
             \E i \in Pairs(Len(C.tables), n) : P(i) = j /\ R(i) = k
        /\ \A i \in Pairs(Len(Batch), n) : P(i) \in DOMAIN Batch /\ R(i) \in DOMAIN ss
        /\ \A j \in DOMAIN Batch, k \in DOMAIN ss :
             \E i \in Pairs(Len(Batch), n) : P(i) = j /\ R(i) = k
        /\ Len(C.tables) * n \in Nat /\ Len(Batch) * n \in Nat
    BY <1>2, Crossing
  <1>4. \A k \in DOMAIN ss : ss[k] \in Schema /\ (HasSchemas(C) \/ ss[k] = Public)
    BY PublicHome
  <1> HIDE DEF n, P, R
  <1>5. lists \in Seq(Queries)
    <2>1. \A i \in Pairs(Len(C.tables), n) :
            Query(C.tables[P(i)], d, ss[R(i)], ListOf(C.tables[P(i)])) \in Queries
      BY <1>3, <1>4, MadeShaped DEF Elements
    <2>2. lists \in [Pairs(Len(C.tables), n) -> Queries]
      BY <2>1
    <2> QED
      BY <1>3, <2>2, ListSeq DEF Pairs
  <1>6. parts \in Seq(Queries)
    <2>1. \A i \in Pairs(Len(Batch), n) :
            Query(Batch[P(i)], d, ss[R(i)], NoName) \in Queries
      BY <1>3, <1>4, MadeShaped DEF Elements
    <2>2. parts \in [Pairs(Len(Batch), n) -> Queries]
      BY <2>1
    <2> QED
      BY <1>3, <2>2, ListSeq DEF Pairs
  <1>7. \A j \in DOMAIN C.tables, k \in DOMAIN ss :
          Query(C.tables[j], d, ss[k], ListOf(C.tables[j])) \in Elements(lists)
    BY <1>3 DEF Elements
  <1>8. \A j \in DOMAIN Batch, k \in DOMAIN ss :
          Query(Batch[j], d, ss[k], NoName) \in Elements(parts)
    BY <1>3 DEF Elements
  <1> HIDE DEF lists, parts
  <1>9. /\ OfSchemas(d, ss) \in Seq(Queries)
        /\ Elements(OfSchemas(d, ss)) = Elements(lists) \cup Elements(parts)
    BY <1>1, <1>5, <1>6, Joined
  <1> QED
    BY <1>7, <1>8, <1>9 DEF Elements

\* All tables, in order.
LEMMA InOrderAll ==
  InOrder \in Seq(Schema \X Name) /\ Elements(InOrder) = Schema \X Name
  <1> DEFINE n == Len(Schemas)
             P(i) == Former(i, n)
             R(i) == Latter(i, n)
  <1>1. InOrder = [i \in Pairs(Len(Names), n) |-> <<Schemas[R(i)], Names[P(i)]>>]
    BY DEF InOrder, Crossed, Pairs, Former, Latter
  <1>2. /\ Names \in Seq(Name) /\ Schemas \in Seq(Schema)
        /\ Len(Names) \in Nat /\ n \in Nat
        /\ DOMAIN Names = 1 .. Len(Names) /\ DOMAIN Schemas = 1 .. n
    BY ListsAssumption
  <1>3. /\ \A i \in Pairs(Len(Names), n) : P(i) \in DOMAIN Names /\ R(i) \in DOMAIN Schemas
        /\ \A j \in DOMAIN Names, k \in DOMAIN Schemas :
             \E i \in Pairs(Len(Names), n) : P(i) = j /\ R(i) = k
        /\ Len(Names) * n \in Nat
    BY <1>2, Crossing
  <1> HIDE DEF n, P, R
  <1>4. \A i \in Pairs(Len(Names), n) : <<Schemas[R(i)], Names[P(i)]>> \in Schema \X Name
    BY <1>3 DEF Schema, Name, Elements
  <1>5. InOrder \in [Pairs(Len(Names), n) -> Schema \X Name]
    BY <1>1, <1>4
  <1>6. InOrder \in Seq(Schema \X Name)
    BY <1>3, <1>5, ListSeq DEF Pairs
  <1>7. ASSUME NEW t \in Schema \X Name
        PROVE  t \in Elements(InOrder)
    <2>1. PICK k \in DOMAIN Schemas, j \in DOMAIN Names : t = <<Schemas[k], Names[j]>>
      BY DEF Schema, Name, Elements
    <2>2. PICK i \in Pairs(Len(Names), n) : P(i) = j /\ R(i) = k
      BY <1>3
    <2> QED
      BY <1>1, <2>1, <2>2 DEF Elements
  <1>8. Elements(InOrder) \subseteq Schema \X Name
    BY <1>1, <1>4 DEF Elements
  <1> QED
    BY <1>6, <1>7, <1>8

\* Queries of each of some tables, made of a list of them.
LEMMA OfEachMade ==
  ASSUME call \in Calls, NEW d \in Database, NEW ts \in Seq(Schema \X Name),
         NEW A, NEW qs \in Seq(A), Elements(qs) \subseteq Singles,
         NEW each, each = OfEach(d, ts, qs)
  PROVE  /\ each \in Seq(Queries)
         /\ \A t \in Elements(ts), a \in Elements(qs) :
              Query(a, d, t[1], t[2]) \in Elements(each)
  <1> DEFINE n == Len(qs)
             P(i) == Former(i, n)
             R(i) == Latter(i, n)
  <1>1. each = [i \in Pairs(Len(ts), n) |-> Query(qs[R(i)], d, ts[P(i)][1], ts[P(i)][2])]
    BY DEF OfEach, Crossed, Pairs, Former, Latter
  <1>2. /\ Len(ts) \in Nat /\ n \in Nat
        /\ DOMAIN ts = 1 .. Len(ts) /\ DOMAIN qs = 1 .. n
    OBVIOUS
  <1>3. /\ \A i \in Pairs(Len(ts), n) : P(i) \in DOMAIN ts /\ R(i) \in DOMAIN qs
        /\ \A j \in DOMAIN ts, k \in DOMAIN qs :
             \E i \in Pairs(Len(ts), n) : P(i) = j /\ R(i) = k
        /\ Len(ts) * n \in Nat
    BY <1>2, Crossing
  <1> HIDE DEF n, P, R
  <1>4. \A i \in Pairs(Len(ts), n) :
          Query(qs[R(i)], d, ts[P(i)][1], ts[P(i)][2]) \in Queries
    <2> SUFFICES ASSUME NEW i \in Pairs(Len(ts), n)
                 PROVE  Query(qs[R(i)], d, ts[P(i)][1], ts[P(i)][2]) \in Queries
      OBVIOUS
    <2>1. ts[P(i)] \in Schema \X Name /\ qs[R(i)] \in Singles
      BY <1>3 DEF Elements
    <2>2. ts[P(i)][1] \in Schema /\ ts[P(i)][2] \in Name
      BY <2>1
    <2> QED
      BY <2>1, <2>2, MadeShaped
  <1>5. each \in [Pairs(Len(ts), n) -> Queries]
    BY <1>1, <1>4
  <1>6. each \in Seq(Queries)
    BY <1>3, <1>5, ListSeq DEF Pairs
  <1>7. \A j \in DOMAIN ts, k \in DOMAIN qs :
          Query(qs[k], d, ts[j][1], ts[j][2]) \in Elements(each)
    BY <1>1, <1>3 DEF Elements
  <1> QED
    BY <1>6, <1>7 DEF Elements

\* The queries of tables are those of each, once for every table.
LEMMA OfTablesMade ==
  ASSUME call \in Calls, NEW d \in Database, NEW s \in Schema,
         NEW ts \in Seq(Schema \X Name)
  PROVE  /\ OfTables(d, s, ts) \in Seq(Queries)
         /\ \A t \in Elements(ts), a \in Singles :
              Query(a, d, t[1], t[2]) \in Elements(OfTables(d, s, ts))
  <1> DEFINE each == OfEach(d, ts, Each)
             late == OfEach(d, ts, C.after)
             ends == [i \in DOMAIN C.closing |-> Query(C.closing[i], d, s, NoName)]
  <1>1. OfTables(d, s, ts) = (each \o late) \o ends
    BY DEF OfTables
  <1>2. /\ C.closing \in Seq(ClosingAsks) /\ Each \in Seq(EachAsks)
        /\ C.after \in Seq(ClosingAsks)
        /\ Len(C.closing) \in Nat /\ DOMAIN C.closing = 1 .. Len(C.closing)
    BY CallMade, BatchEach DEF WellMade
  <1>3. ends \in Seq(Queries)
    <2>1. \A i \in DOMAIN C.closing : Query(C.closing[i], d, s, NoName) \in Queries
      BY MadeShaped DEF Elements
    <2>2. ends \in [1 .. Len(C.closing) -> Queries]
      BY <1>2, <2>1
    <2> QED
      BY <1>2, <2>2
  <1>4. PICK e, a : e = Each /\ a = C.after
    OBVIOUS
  <1>5. each = OfEach(d, ts, e) /\ late = OfEach(d, ts, a)
    BY <1>4
  <1> HIDE DEF each, late, ends
  <1>6. Elements(Each) \subseteq Singles /\ Elements(C.after) \subseteq Singles
    BY DEF Singles
  <1>7. /\ each \in Seq(Queries)
        /\ \A t \in Elements(ts), b \in Elements(Each) :
             Query(b, d, t[1], t[2]) \in Elements(each)
    BY <1>2, <1>4, <1>5, <1>6, OfEachMade
  <1>8. /\ late \in Seq(Queries)
        /\ \A t \in Elements(ts), b \in Elements(C.after) :
             Query(b, d, t[1], t[2]) \in Elements(late)
    BY <1>2, <1>4, <1>5, <1>6, OfEachMade
  <1>9. /\ each \o late \in Seq(Queries)
        /\ Elements(each \o late) = Elements(each) \cup Elements(late)
    BY <1>7, <1>8, Joined
  <1>10. /\ OfTables(d, s, ts) \in Seq(Queries)
         /\ Elements(OfTables(d, s, ts)) = Elements(each \o late) \cup Elements(ends)
    <2> DEFINE both == each \o late
    <2>1. OfTables(d, s, ts) = both \o ends /\ both \in Seq(Queries)
      BY <1>1, <1>9
    <2> HIDE DEF both
    <2>2. /\ both \o ends \in Seq(Queries)
          /\ Elements(both \o ends) = Elements(both) \cup Elements(ends)
      BY <1>3, <2>1, Joined
    <2> QED
      BY <2>1, <2>2 DEF both
  <1> QED
    BY <1>7, <1>8, <1>9, <1>10 DEF Singles

\* Every database of a list is opened.
LEMMA OpeningMade ==
  ASSUME call \in Calls, NEW ds \in Seq(Database)
  PROVE  /\ Opening(ds) \in Seq(Queries)
         /\ \A d \in Elements(ds) :
              Query(Plain("open", "part"), d, NoName, NoName) \in Elements(Opening(ds))
  <1>1. \A i \in DOMAIN ds : Query(Plain("open", "part"), ds[i], NoName, NoName) \in Queries
    <2>1. Schema # {}
      BY PublicHome
    <2> QED
      BY <2>1, MadeShaped
  <1>2. Opening(ds) \in [1 .. Len(ds) -> Queries] 
        /\ Len(ds) \in Nat /\ DOMAIN ds = 1 .. Len(ds)
    BY <1>1 DEF Opening
  <1>3. Opening(ds) \in Seq(Queries)
    BY <1>2
  <1> QED
    BY <1>2, <1>3 DEF Opening, Elements

\* A database that is opened is asked for its schemas, or for its tables.
LEMMA OfDatabaseMade ==
  ASSUME call \in Calls, NEW d \in Database
  PROVE  /\ OfDatabase(d) \in Seq(Queries)
         /\ HasSchemas(C) =>
              \E q \in Elements(OfDatabase(d)) : q.ask = "schemas" /\ q.db = d
         /\ ~ HasSchemas(C) =>
              Elements(OfSchemas(d, <<Public>>)) \subseteq Elements(OfDatabase(d))
  <1> DEFINE first == [i \in DOMAIN C.inside |-> Query(C.inside[i], d, NoName, NoName)]
             rest == IF HasSchemas(C) THEN <<>> ELSE OfSchemas(d, <<Public>>)
  <1>1. OfDatabase(d) = first \o rest
    BY DEF OfDatabase
  <1>2. first \in Seq(Queries)
    <2>1. C.inside \in Seq(InsideAsks)
      BY CallMade DEF WellMade
    <2>2. \A i \in DOMAIN C.inside : Query(C.inside[i], d, NoName, NoName) \in Queries
      <3>1. Schema # {}
        BY PublicHome
      <3> QED
        BY <3>1, MadeShaped DEF Elements
    <2>3. first \in [1 .. Len(C.inside) -> Queries] /\ Len(C.inside) \in Nat
      BY <2>1, <2>2
    <2> QED
      BY <2>3
  <1>3. rest \in Seq(Queries)
    <2>1. <<Public>> \in Seq(Schema)
      BY PublicHome
    <2>2. ~ HasSchemas(C) => OfSchemas(d, <<Public>>) \in Seq(Queries)
      BY <2>1, OfSchemasMade
    <2> QED
      BY <2>2
  <1>4. HasSchemas(C) => \E q \in Elements(first) : q.ask = "schemas" /\ q.db = d
    <2> SUFFICES ASSUME HasSchemas(C)
                 PROVE  \E q \in Elements(first) : q.ask = "schemas" /\ q.db = d
      OBVIOUS
    <2>1. PICK i \in DOMAIN C.inside : C.inside[i].ask = "schemas"
      BY DEF HasSchemas
    <2>2. first[i] \in Elements(first)
      BY DEF Elements
    <2>3. first[i].ask = "schemas" /\ first[i].db = d
      BY <2>1 DEF Query
    <2> QED
      BY <2>2, <2>3
  <1>5. ~ HasSchemas(C) => rest = OfSchemas(d, <<Public>>)
    OBVIOUS
  <1> HIDE DEF first, rest
  <1>6. /\ OfDatabase(d) \in Seq(Queries)
        /\ Elements(OfDatabase(d)) = Elements(first) \cup Elements(rest)
    BY <1>1, <1>2, <1>3, Joined
  <1> QED
    BY <1>4, <1>5, <1>6

\* What is kept of a list by a test on its elements.
LEMMA SelectedElements ==
  ASSUME NEW S, NEW s \in Seq(S), NEW T,
         NEW kept, kept = Picked(s, {i \in DOMAIN s : s[i] \in T})
  PROVE  kept \in Seq(S) /\ Elements(kept) = Elements(s) \cap T
  <1> DEFINE K == {i \in DOMAIN s : s[i] \in T}
  <1>1. K \in SUBSET DOMAIN s
    OBVIOUS
  <1>2. {s[i] : i \in K} = Elements(s) \cap T
    BY DEF Elements
  <1> HIDE DEF K
  <1>3. Picked(s, K) \in Seq(S)
    BY <1>1, PickedElements
  <1>4. {Picked(s, K)[m] : m \in DOMAIN Picked(s, K)} = {s[i] : i \in K}
    BY <1>1, PickedElements
  <1> QED
    BY <1>2, <1>3, <1>4 DEF Elements, K

-----------------------------------------------------------------------------
(* What becomes of the queries in a step.                                   *)

ServerType == server \in [Database -> [Schema -> SUBSET Name]]

\* A query that leads to the tables of a database, and one about this table.
Leads(q, d) == q.ask = "databases" \/ (q.ask \in {"open", "schemas"} /\ q.db = d)
Meant(q, d, s, n) == q.db = d /\ Spans(q, s) /\ q.table \in {n, NoName}

\* What the call decides stays when the call does.
LEMMA CallKept ==
  ASSUME call' = call
  PROVE  /\ C' = C /\ Batch' = Batch /\ Each' = Each /\ Singles' = Singles
         /\ Queries' = Queries /\ Reached' = Reached /\ Within' = Within
         /\ \A x : Source(x)' = Source(x) /\ (Named(x)' <=> Named(x))
         /\ \A q, d, s, n : /\ Meant(q, d, s, n)' <=> Meant(q, d, s, n)
                            /\ Covers(q, d, s, n)' <=> Covers(q, d, s, n)
  <1>1. C' = C
    BY DEF C
  <1>2. Batch' = Batch /\ Each' = Each
    BY <1>1 DEF Batch, Each, Select
  <1>3. Within' = Within
    BY <1>1 DEF Within
  <1>4. Reached' = Reached
    BY <1>1 DEF Reached, AsksServer, Target
  <1>5. \A x : Source(x)' = Source(x) /\ (Named(x)' <=> Named(x))
    BY <1>1 DEF Source, Named
  <1>6. Queries' = Queries
    BY <1>1, <1>3 DEF Queries, Shaped
  <1>7. Singles' = Singles
    BY <1>1, <1>2 DEF Singles
  <1>8. \A q, d, s, n : /\ Meant(q, d, s, n)' <=> Meant(q, d, s, n)
                        /\ Covers(q, d, s, n)' <=> Covers(q, d, s, n)
    BY <1>1 DEF Meant, Covers, Spans
  <1> QED
    BY <1>1, <1>2, <1>3, <1>4, <1>5, <1>6, <1>7, <1>8

\* A query leads to the tables it is said to: databases to databases, schemas
\* to the lists and batches of each, a list to the queries of each table.
LEMMA FollowingMade ==
  ASSUME call \in Calls, todo \in Seq(Queries), todo # <<>>,
         NEW q, q = Head(todo), NEW items
  PROVE  /\ Following(q, items) \in Seq(Queries)
         /\ Elements(Tail(todo)) \subseteq Elements(Following(q, items))
         /\ q.ask = "databases" =>
              \A d \in items \cap Database :
                \E p \in Elements(Following(q, items)) : p.ask = "open" /\ p.db = d
         /\ q.ask = "schemas" =>
              \A s \in items \cap Schema :
                /\ \A a \in Elements(C.tables) :
                     Query(a, q.db, s, ListOf(a)) \in Elements(Following(q, items))
                /\ \A a \in Elements(Batch) :
                     Query(a, q.db, s, NoName) \in Elements(Following(q, items))
         /\ q.ask \in Lists =>
              \A t \in items \cap (Schema \X Name), a \in Singles :
                Query(a, q.db, t[1], t[2]) \in Elements(Following(q, items))
  <1> DEFINE rest == Tail(todo)
             new  == Following(q, items)
  <1>1. q \in Queries /\ rest \in Seq(Queries)
    BY HeadTail
  <1> HIDE DEF rest
  <1>2. CASE q.ask = "databases"
    <2> DEFINE ds == Select(Databases, LAMBDA x : x \in items)
    <2>1. new = Opening(ds) \o rest
      BY <1>2 DEF Following, rest, Lists
    <2>2. ds \in Seq(Database) /\ Elements(ds) = Database \cap items
      <3>1. ds = Picked(Databases, {i \in DOMAIN Databases : Databases[i] \in items})
        BY DEF Select
      <3> HIDE DEF ds
      <3> QED
        <4>1. ds \in Seq(Database) /\ Elements(ds) = Elements(Databases) \cap items
          BY <3>1, ListsAssumption, SelectedElements
        <4> QED
          BY <4>1 DEF Database
    <2> HIDE DEF ds
    <2>3. Opening(ds) \in Seq(Queries)
      BY <2>2, OpeningMade
    <2>4. new \in Seq(Queries) /\ Elements(new) = Elements(Opening(ds)) \cup Elements(rest)
      <3> HIDE DEF new
      <3> QED
        BY <1>1, <2>1, <2>3, Joined
    <2>5. \A d \in items \cap Database : \E p \in Elements(new) : p.ask = "open" /\ p.db = d
      <3> HIDE DEF new
      <3>1. \A d : LET p == Query(Plain("open", "part"), d, NoName, NoName)
                  IN  p.ask = "open" /\ p.db = d
        BY DEF Query, Plain, Tried
      <3> QED
        BY <2>2, <2>4, <3>1, OpeningMade
    <2> HIDE DEF new
    <2> QED
      BY <1>2, <2>4, <2>5 DEF Lists, new, rest
  <1>3. CASE q.ask = "schemas"
    <2> DEFINE kept == Select(Schemas, LAMBDA x : x \in items)
               ss == IF items = {} THEN <<Public>> ELSE kept
    <2>1. new = OfSchemas(q.db, ss) \o rest
      BY <1>3 DEF Following, rest, Lists
    <2>2. kept \in Seq(Schema) /\ Elements(kept) = Schema \cap items
      <3>1. kept = Picked(Schemas, {i \in DOMAIN Schemas : Schemas[i] \in items})
        BY DEF Select
      <3> HIDE DEF kept
      <3> QED
        <4>1. kept \in Seq(Schema) /\ Elements(kept) = Elements(Schemas) \cap items
          BY <3>1, ListsAssumption, SelectedElements
        <4> QED
          BY <4>1 DEF Schema
    <2> HIDE DEF kept
    <2>3. /\ ss \in Seq(Schema) /\ Schema \cap items \subseteq Elements(ss)
          /\ q.db \in Database /\ HasSchemas(C)
      <3>1. <<Public>> \in Seq(Schema)
        BY PublicHome
      <3> QED
        BY <1>1, <1>3, <2>2, <3>1 DEF Queries, Shaped
    <2> HIDE DEF ss
    <2>4. /\ OfSchemas(q.db, ss) \in Seq(Queries)
          /\ \A s \in Elements(ss) :
               /\ \A a \in Elements(C.tables) :
                    Query(a, q.db, s, ListOf(a)) \in Elements(OfSchemas(q.db, ss))
               /\ \A a \in Elements(Batch) :
                    Query(a, q.db, s, NoName) \in Elements(OfSchemas(q.db, ss))
      BY <2>3, OfSchemasMade
    <2>5. /\ new \in Seq(Queries)
          /\ Elements(new) = Elements(OfSchemas(q.db, ss)) \cup Elements(rest)
      <3> HIDE DEF new
      <3> QED
        BY <1>1, <2>1, <2>4, Joined
    <2> HIDE DEF new
    <2> QED
      BY <1>3, <2>3, <2>4, <2>5 DEF Lists, new, rest
  <1>4. CASE q.ask \in Lists
    <2> DEFINE mine == Select(rest, LAMBDA p : p.db = q.db)
               others == Select(rest, LAMBDA p : p.db # q.db)
               ts == Select(InOrder, LAMBDA x : x \in items)
               each == OfTables(q.db, q.schema, ts)
    <2>1. new = mine \o each \o others
      BY <1>4 DEF Following, rest, Lists
    <2>2. ts \in Seq(Schema \X Name) /\ Elements(ts) = (Schema \X Name) \cap items
      <3>1. ts = Picked(InOrder, {i \in DOMAIN InOrder : InOrder[i] \in items})
        BY DEF Select
      <3> HIDE DEF ts
      <3>2. PICK S : S = Schema \X Name
        OBVIOUS
      <3>3. ts \in Seq(S) /\ Elements(ts) = Elements(InOrder) \cap items
        <4>1. InOrder \in Seq(S)
          BY <3>2, InOrderAll
        <4> QED
          BY <3>1, <4>1, SelectedElements
      <3> QED
        BY <3>2, <3>3, InOrderAll
    <2>3. mine \in Seq(Queries) /\ Elements(mine) = {p \in Elements(rest) : p.db = q.db}
      <3> DEFINE T == {p \in Queries : p.db = q.db}
      <3>1. mine = Picked(rest, {i \in DOMAIN rest : rest[i] \in T})
        <4>1. {i \in DOMAIN rest : rest[i] \in T} = {i \in DOMAIN rest : rest[i].db = q.db}
          BY <1>1
        <4> QED
          BY <4>1 DEF Select
      <3>2. \A p \in Elements(rest) : p \in T <=> p.db = q.db
        BY <1>1 DEF Elements
      <3> HIDE DEF T, mine
      <3>3. mine \in Seq(Queries) /\ Elements(mine) = Elements(rest) \cap T
        BY <1>1, <3>1, SelectedElements
      <3> QED
        BY <3>2, <3>3
    <2>4. others \in Seq(Queries) /\ Elements(others) = {p \in Elements(rest) : p.db # q.db}
      <3> DEFINE T == {p \in Queries : p.db # q.db}
      <3>1. others = Picked(rest, {i \in DOMAIN rest : rest[i] \in T})
        <4>1. {i \in DOMAIN rest : rest[i] \in T} = {i \in DOMAIN rest : rest[i].db # q.db}
          BY <1>1
        <4> QED
          BY <4>1 DEF Select
      <3>2. \A p \in Elements(rest) : p \in T <=> p.db # q.db
        BY <1>1 DEF Elements
      <3> HIDE DEF T, others
      <3>3. others \in Seq(Queries) /\ Elements(others) = Elements(rest) \cap T
        BY <1>1, <3>1, SelectedElements
      <3> QED
        BY <3>2, <3>3
    <2>5. q.db \in Database /\ q.schema \in Schema
      BY <1>1, <1>4 DEF Queries, Shaped
    <2> HIDE DEF mine, others, ts
    <2>6. /\ each \in Seq(Queries)
          /\ \A t \in Elements(ts), a \in Singles :
               Query(a, q.db, t[1], t[2]) \in Elements(each)
      BY <2>2, <2>5, OfTablesMade
    <2> HIDE DEF each
    <2>7. /\ mine \o each \in Seq(Queries)
          /\ Elements(mine \o each) = Elements(mine) \cup Elements(each)
      BY <2>3, <2>6, Joined
    <2>8. /\ new \in Seq(Queries)
          /\ Elements(new) = Elements(mine) \cup Elements(each) \cup Elements(others)
      <3> DEFINE both == mine \o each
      <3>1. new = both \o others
        BY <2>1
      <3>2. both \in Seq(Queries) /\ others \in Seq(Queries)
        BY <2>4, <2>7
      <3> HIDE DEF new, both
      <3>3. /\ both \o others \in Seq(Queries)
            /\ Elements(both \o others) = Elements(both) \cup Elements(others)
        BY <3>2, Joined
      <3> QED
        BY <2>7, <3>1, <3>3 DEF both
    <2> HIDE DEF new
    <2> QED
      BY <1>4, <2>2, <2>3, <2>4, <2>6, <2>8 DEF Lists, new, rest
  <1>5. CASE q.ask \notin Lists \cup {"databases", "schemas"}
    <2>1. new = rest
      BY <1>5 DEF Following, rest
    <2> QED
      BY <1>1, <1>5, <2>1 DEF rest
  <1> QED
    BY <1>2, <1>3, <1>4, <1>5

\* What is left to do when the failure of q is paid for.
LEMMA PayMade ==
  ASSUME todo \in Seq(Queries), todo # <<>>, NEW q, q = Head(todo), Pay(q)
  PROVE  /\ todo' \in Seq(Queries)
         /\ outcome' # outcome => q.cost \in {"instance", "panic"} /\ todo' = <<>>
                                  /\ outcome' \in {"error", "panic"}
         /\ q.cost \in {"instance", "panic"} => outcome' \in {"error", "panic"}
         /\ \A p \in Elements(Tail(todo)) : p \notin Elements(todo') =>
              \/ outcome' \in {"error", "panic"}
              \/ q.cost = "database" /\ p.db = q.db
              \/ q.cost \in {"table", "rest"} /\ SameTable(p, q)
              \/ q.cost = "nested" /\ SameTable(p, q) /\ p.ask \in Nested
         /\ \A x \in lost' \ lost :
              \/ q.cost = "database" /\ x = <<q.db, <<>>>>
              \/ q.cost = "table" /\ x = <<q.db, Key(q.schema, q.table)>>
  <1> DEFINE rest == Tail(todo)
  <1>1. q \in Queries /\ rest \in Seq(Queries)
    BY HeadTail
  <1>2. CASE q.cost \in {"instance", "panic"}
    BY <1>2, SeqOfElements DEF Pay
  <1>3. CASE q.cost = "database"
    <2> DEFINE T == {p \in Queries : p.db # q.db}
    <2>1. todo' = Picked(rest, {i \in DOMAIN rest : rest[i] \in T})
      <3>1. {i \in DOMAIN rest : rest[i] \in T} = {i \in DOMAIN rest : rest[i].db # q.db}
        BY <1>1
      <3>2. todo' = Picked(rest, {i \in DOMAIN rest : rest[i].db # q.db})
        BY <1>3 DEF Pay, Select
      <3> QED
        BY <3>1, <3>2
    <2>2. \A p \in Elements(rest) : p \in T <=> p.db # q.db
      BY <1>1 DEF Elements
    <2> HIDE DEF T, rest
    <2>3. todo' \in Seq(Queries) /\ Elements(todo') = Elements(rest) \cap T
      BY <1>1, <2>1, SelectedElements
    <2>4. lost' = lost \cup {<<q.db, <<>>>>} /\ outcome' = outcome
      BY <1>3 DEF Pay
    <2> QED
      BY <1>3, <2>2, <2>3, <2>4 DEF rest
  <1>4. CASE q.cost \in {"table", "rest"}
    <2> DEFINE T == {p \in Queries : ~ SameTable(p, q)}
    <2>1. todo' = Picked(rest, {i \in DOMAIN rest : rest[i] \in T})
      <3>1. {i \in DOMAIN rest : rest[i] \in T}
              = {i \in DOMAIN rest : ~ SameTable(rest[i], q)}
        BY <1>1
      <3>2. todo' = Picked(rest, {i \in DOMAIN rest : ~ SameTable(rest[i], q)})
        BY <1>4 DEF Pay, Select
      <3> QED
        BY <3>1, <3>2
    <2>2. \A p \in Elements(rest) : p \in T <=> ~ SameTable(p, q)
      BY <1>1 DEF Elements
    <2> HIDE DEF T, rest
    <2>3. todo' \in Seq(Queries) /\ Elements(todo') = Elements(rest) \cap T
      BY <1>1, <2>1, SelectedElements
    <2>4. /\ lost' = IF q.cost = "table"
                     THEN lost \cup {<<q.db, Key(q.schema, q.table)>>} ELSE lost
          /\ outcome' = outcome
      BY <1>4 DEF Pay
    <2> QED
      BY <1>4, <2>2, <2>3, <2>4 DEF rest
  <1>5. CASE q.cost = "nested"
    <2> DEFINE T == {p \in Queries : ~ (SameTable(p, q) /\ p.ask \in Nested)}
    <2>1. todo' = Picked(rest, {i \in DOMAIN rest : rest[i] \in T})
      <3>1. {i \in DOMAIN rest : rest[i] \in T}
              = {i \in DOMAIN rest : ~ (SameTable(rest[i], q) /\ rest[i].ask \in Nested)}
        BY <1>1
      <3>2. todo' = Picked(rest, {i \in DOMAIN rest :
                                    ~ (SameTable(rest[i], q) /\ rest[i].ask \in Nested)})
        BY <1>5 DEF Pay, Select
      <3> QED
        BY <3>1, <3>2
    <2>2. \A p \in Elements(rest) : p \in T <=> ~ (SameTable(p, q) /\ p.ask \in Nested)
      BY <1>1 DEF Elements
    <2> HIDE DEF T, rest
    <2>3. todo' \in Seq(Queries) /\ Elements(todo') = Elements(rest) \cap T
      BY <1>1, <2>1, SelectedElements
    <2>4. lost' = lost /\ outcome' = outcome
      BY <1>5 DEF Pay
    <2> QED
      BY <1>5, <2>2, <2>3, <2>4 DEF rest
  <1>6. CASE q.cost \notin {"instance", "panic"} \cup Heavy
    BY <1>1, <1>6 DEF Pay, Heavy
  <1> QED
    BY <1>2, <1>3, <1>4, <1>5, <1>6 DEF Heavy

-----------------------------------------------------------------------------
(* Every table is either owed to the report or excused.                     *)

\* A table that has a cause to be missing, and a row read under its name.
Excused(d, s, n) == \E f \in Causes : Covers(f, d, s, n) /\ CostsTable(f)
ReadOf(p, d, s, n) == \E r \in read : r.ask = p /\ r.db = d /\ r.key = Key(s, n)

\* A part of a table that was read, is still to be read, or has failed.
Found(p, d, s, n) ==
  \/ ReadOf(p, d, s, n)
  \/ \E q \in Elements(todo) : q.ask = p /\ Meant(q, d, s, n)
  \/ \E f \in Causes : Covers(f, d, s, n) /\ CostsPart(f, p)

\* A table that is listed, with its own queries, or still to be listed.
Told(d, s, n) ==
  \/ \E q \in Elements(todo) : q.ask \in Lists /\ Meant(q, d, s, n)
  \/ /\ ReadOf("tables", d, s, n)
     /\ \A a \in Singles : a.ask # "sample" => Found(a.ask, d, s, n)

Owed(d, s, n) ==
  \/ \E q \in Elements(todo) : Leads(q, d)
  \/ /\ Told(d, s, n)
     /\ \A a \in Elements(Batch) : a.ask # "sample" => Found(a.ask, d, s, n)

LeftOut(d, s, n) == <<d, <<>>>> \in lost \/ <<d, Key(s, n)>> \in lost

Tracked ==
  \A d \in Reached, s \in Within :
    \A n \in {x \in server[Source(d)][s] : Named(x)} :
      Excused(d, s, n) \/ (Owed(d, s, n) /\ ~ LeftOut(d, s, n))

\* The inductive invariant: until a collection fails, every table that it should
\* report is excused by a cause of its own, or owed by what was read and what is
\* still to be put.
Collected ==
  /\ call \in Calls /\ ServerType /\ todo \in Seq(Queries)
  /\ outcome # "running" => todo = <<>>
  /\ outcome = "called" => lost = {}
  /\ outcome \in {"running", "ok"} => Reached \subseteq Database /\ Tracked

\* A table stays owed when every query that is gone has left what it was for.
LEMMA OwedStays ==
  ASSUME call \in Calls, call' = call, read \subseteq read', Causes \subseteq Causes',
         NEW d, NEW s, NEW n, Owed(d, s, n),
         \A q \in Elements(todo) \ Elements(todo') :
           /\ Leads(q, d) => Owed(d, s, n)'
           /\ Meant(q, d, s, n) /\ q.ask \in Lists => Told(d, s, n)'
           /\ Meant(q, d, s, n) /\ q.ask \notin Lists \cup {"sample"} =>
                Found(q.ask, d, s, n)'
  PROVE  Owed(d, s, n)'
  <1> USE CallKept
  <1>1. ASSUME NEW p, p \notin Lists \cup {"sample"}, Found(p, d, s, n)
        PROVE  Found(p, d, s, n)'
    <2>1. CASE ReadOf(p, d, s, n)
      BY <2>1 DEF ReadOf, Found
    <2>2. CASE \E f \in Causes : Covers(f, d, s, n) /\ CostsPart(f, p)
      BY <2>2 DEF Found
    <2>3. ASSUME NEW q \in Elements(todo), q.ask = p, Meant(q, d, s, n)
          PROVE  Found(p, d, s, n)'
      <3>1. CASE q \in Elements(todo')
        BY <2>3, <3>1 DEF Found
      <3>2. CASE q \notin Elements(todo')
        BY <1>1, <2>3, <3>2
      <3> QED
        BY <3>1, <3>2
    <2> QED
      BY <1>1, <2>1, <2>2, <2>3 DEF Found
  <1>2. \A a \in Singles \cup Elements(Batch) : a.ask \notin Lists
    BY BatchEach DEF Singles, Elements, EachAsks, BatchAsks, ClosingAsks, Fit, Opens
  <1>3. ASSUME Told(d, s, n)
        PROVE  Told(d, s, n)'
    <2>1. ASSUME NEW q \in Elements(todo), q.ask \in Lists, Meant(q, d, s, n)
          PROVE  Told(d, s, n)'
      <3>1. CASE q \in Elements(todo')
        BY <2>1, <3>1 DEF Told
      <3>2. CASE q \notin Elements(todo')
        BY <2>1, <3>2
      <3> QED
        BY <3>1, <3>2
    <2>2. ASSUME ReadOf("tables", d, s, n),
                 \A a \in Singles : a.ask # "sample" => Found(a.ask, d, s, n)
          PROVE  Told(d, s, n)'
      <3>1. ReadOf("tables", d, s, n)'
        BY <2>2 DEF ReadOf
      <3>2. \A a \in Singles : a.ask # "sample" => Found(a.ask, d, s, n)'
        BY <1>1, <1>2, <2>2
      <3> QED
        BY <3>1, <3>2 DEF Told
    <2> QED
      BY <1>3, <2>1, <2>2 DEF Told
  <1>4. ASSUME NEW q \in Elements(todo), Leads(q, d)
        PROVE  Owed(d, s, n)'
    <2>1. CASE q \in Elements(todo')
      BY <1>4, <2>1 DEF Owed
    <2>2. CASE q \notin Elements(todo')
      BY <1>4, <2>2
    <2> QED
      BY <2>1, <2>2
  <1>5. ASSUME Told(d, s, n),
               \A a \in Elements(Batch) : a.ask # "sample" => Found(a.ask, d, s, n)
        PROVE  Owed(d, s, n)'
    <2>1. \A a \in Elements(Batch) : a.ask # "sample" => Found(a.ask, d, s, n)'
      BY <1>1, <1>2, <1>5
    <2> QED
      BY <1>3, <1>5, <2>1 DEF Owed
  <1> QED
    BY <1>4, <1>5 DEF Owed

\* Some list asks for this table.
LEMMA ListFor ==
  ASSUME call \in Calls, NEW n \in Name
  PROVE  \E a \in Elements(C.tables) :
           /\ a.ask \in Lists /\ ListOf(a) \in {n, NoName}
           /\ C.merged => ListOf(a) = NoName
  <1>1. CASE AskIn(C.tables, "tables")
    BY <1>1 DEF AskIn, Lists, ListOf
  <1>2. CASE /\ call.kind = "prometheus" /\ ~ C.merged
             /\ AskIn(C.tables, "labels") /\ AskIn(C.tables, "metrics")
    <2>1. n = Names[1] \/ n = Names[Len(Names)]
      BY <1>2, ListsAssumption
    <2>2. CASE n = Names[1]
      BY <1>2, <2>2 DEF AskIn, Lists, ListOf
    <2>3. CASE n = Names[Len(Names)]
      BY <1>2, <2>3 DEF AskIn, Lists, ListOf
    <2> QED
      BY <2>1, <2>2, <2>3
  <1> QED
    BY <1>1, <1>2, CallMade, ConnectorsList DEF C

\* A table whose lists and batches are to be put is owed.
LEMMA OwedBySchemas ==
  ASSUME call \in Calls, call' = call, NEW d, NEW s, NEW n \in Name,
         NEW t, t = s \/ C.merged,
         \A a \in Elements(C.tables) : Query(a, d, t, ListOf(a)) \in Elements(todo'),
         \A a \in Elements(Batch) : Query(a, d, t, NoName) \in Elements(todo')
  PROVE  Owed(d, s, n)'
  <1> USE CallKept
  <1>1. PICK a \in Elements(C.tables) :
          /\ a.ask \in Lists /\ ListOf(a) \in {n, NoName}
          /\ C.merged => ListOf(a) = NoName
    BY ListFor
  <1>2. Told(d, s, n)'
    <2> DEFINE q == Query(a, d, t, ListOf(a))
    <2>1. /\ q \in Elements(todo') /\ q.ask = a.ask /\ q.db = d /\ q.schema = t
          /\ q.table = ListOf(a)
      BY <1>1 DEF Query
    <2> HIDE DEF q
    <2>2. CASE t = s
      <3>1. q.ask \in Lists /\ Meant(q, d, s, n)
        BY <1>1, <2>1, <2>2 DEF Meant, Spans
      <3> QED
        BY <2>1, <3>1 DEF Told
    <2>3. CASE C.merged
      <3>1. q.ask \in Lists /\ q.table = NoName
        BY <1>1, <2>1, <2>3
      <3>2. Spans(q, s)
        BY <2>3, <3>1 DEF Spans
      <3>3. Meant(q, d, s, n)
        BY <1>1, <2>1, <3>2 DEF Meant
      <3> QED
        BY <2>1, <3>1, <3>3 DEF Told
    <2> QED
      BY <2>2, <2>3
  <1>3. ASSUME NEW b \in Elements(Batch)
        PROVE  Found(b.ask, d, s, n)'
    <2> DEFINE q == Query(b, d, t, NoName)
    <2>0. t = s
      BY <1>3, BatchEach
    <2>1. q \in Elements(todo') /\ q.ask = b.ask /\ Meant(q, d, s, n)
      BY <1>3, <2>0 DEF Query, Meant, Spans
    <2> HIDE DEF q
    <2> QED
      BY <2>1 DEF Found
  <1> QED
    BY <1>2, <1>3 DEF Owed

\* What is known of a table in a step of the collection.
Stands(d, s, n) ==
  /\ d \in Reached /\ d \in Database /\ s \in Within /\ s \in Schema
  /\ n \in server[Source(d)][s] /\ n \in Name /\ Named(n)

\* What Tracked ranges over is in the range of everything it names.
LEMMA StandsIs ==
  ASSUME call \in Calls, ServerType, Reached \subseteq Database,
         NEW d \in Reached, NEW s \in Within,
         NEW n \in {x \in server[Source(d)][s] : Named(x)}
  PROVE  Stands(d, s, n)
  <1>1. s \in Schema
    BY PublicHome DEF Within
  <1>2. Source(d) \in Database
    BY PublicHome, CallMade DEF Source
  <1> QED
    BY <1>1, <1>2 DEF Stands, ServerType

\* What is left open is no database, schema or table.
LEMMA Distinct ==
  /\ NoName \notin Database /\ NoName \notin Schema /\ NoName \notin Name
  /\ \A s, n : Key(s, n) # <<>>
  BY CatalogAssumption DEF Key

\* The queries that a payment cancels are not missed, unless a table is excused.
LEMMA PaidStays ==
  ASSUME call \in Calls, todo \in Seq(Queries), todo # <<>>,
         NEW q, q = Head(todo), Pay(q), outcome' = "running",
         NEW d, NEW s, NEW n, Stands(d, s, n),
         NEW p \in Elements(Tail(todo)), p \notin Elements(todo'),
         q.cost \in {"database", "table"} => ~ Covers(q, d, s, n)
  PROVE  /\ ~ Leads(p, d)
         /\ Meant(p, d, s, n) =>
              Meant(q, d, s, n) /\ CostsPart(q, p.ask) /\ p.ask \notin Lists
  <1>1. q \in Queries /\ p \in Queries
    BY HeadTail DEF Elements
  <1>2. CASE q.cost = "database" /\ p.db = q.db
    <2>1. /\ q.db \in Database /\ q.table = NoName
          /\ q.schema = NoName \/ Within = {q.schema}
      BY <1>1, <1>2 DEF Queries, Shaped
    <2>2. q.db # d
      BY <1>2, <2>1 DEF Covers, Spans, Stands
    <2>3. p.ask = "databases" => p.db = NoName
      BY <1>1 DEF Queries, Shaped
    <2> QED
      BY <1>2, <2>1, <2>2, <2>3, Distinct DEF Leads, Meant
  <1>3. CASE /\ q.cost \in {"table", "rest", "nested"} /\ SameTable(p, q)
             /\ q.cost = "nested" => p.ask \in Nested
    <2>1. q.db \in Database /\ q.schema \in Schema /\ q.table \in Name /\ C.each # <<>>
      BY <1>1, <1>3 DEF Queries, Shaped
    <2>2. p.db = q.db /\ p.schema = q.schema /\ p.table = q.table
      BY <1>3 DEF SameTable
    <2>3. p.ask \notin {"databases", "open", "schemas"}
      BY <1>1, <2>1, <2>2, Distinct DEF Queries, Shaped
    <2>4. p.ask \notin Lists
      BY <1>1, <2>1, <2>2, Distinct DEF Queries, Shaped
    <2>5. Meant(p, d, s, n) => Meant(q, d, s, n) /\ Covers(q, d, s, n)
      BY <2>1, <2>2, Distinct DEF Meant, Covers, Spans
    <2>6. q.cost \in {"rest", "nested"} => CostsPart(q, p.ask)
      BY <1>3 DEF CostsPart
    <2> QED
      BY <1>3, <2>3, <2>4, <2>5, <2>6 DEF Leads
  <1> QED
    BY <1>2, <1>3, PayMade

\* What a payment leaves out is not this table, unless it is excused.
LEMMA PaidIsOther ==
  ASSUME call \in Calls, todo \in Seq(Queries), todo # <<>>,
         NEW q, q = Head(todo), Pay(q),
         NEW d, NEW s, NEW n, Stands(d, s, n), ~ LeftOut(d, s, n),
         q.cost \in {"database", "table"} => ~ Covers(q, d, s, n)
  PROVE  ~ LeftOut(d, s, n)'
  <1>1. q \in Queries
    BY HeadTail
  <1>2. ASSUME NEW x \in lost' \ lost
        PROVE  x # <<d, <<>>>> /\ x # <<d, Key(s, n)>>
    <2>1. CASE q.cost = "database" /\ x = <<q.db, <<>>>>
      <3>1. q.table = NoName /\ (q.schema = NoName \/ Within = {q.schema})
        BY <1>1, <2>1 DEF Queries, Shaped
      <3>2. q.db # d
        BY <2>1, <3>1 DEF Covers, Spans, Stands
      <3> QED
        BY <2>1, <3>2
    <2>2. CASE q.cost = "table" /\ x = <<q.db, Key(q.schema, q.table)>>
      <3>1. ~ (q.db = d /\ q.schema = s /\ q.table = n)
        BY <2>2 DEF Covers, Spans
      <3>2. Key(q.schema, q.table) = Key(s, n) => q.schema = s /\ q.table = n
        BY KeyInjective
      <3> QED
        BY <2>2, <3>1, <3>2, Distinct
    <2> QED
      BY <2>1, <2>2, PayMade
  <1> QED
    BY <1>2 DEF LeftOut

\* A step of the collection keeps track of all tables when it does of each one
\* that no cause excuses.
LEMMA KeepsTrack ==
  ASSUME Collected, outcome = "running", call' = call, server' = server,
         Causes \subseteq Causes',
         \A d, s, n : Stands(d, s, n) /\ Owed(d, s, n) /\ ~ LeftOut(d, s, n)
                        /\ ~ Excused(d, s, n)'
                      => Owed(d, s, n)' /\ ~ LeftOut(d, s, n)'
  PROVE  Reached' \subseteq Database /\ Tracked'
  <1>1. Reached' = Reached /\ Within' = Within
    BY CallKept
  <1>2. \A x : Source(x)' = Source(x) /\ (Named(x)' <=> Named(x))
    BY CallKept
  <1>3. call \in Calls /\ ServerType /\ Reached \subseteq Database /\ Tracked
    BY DEF Collected
  <1>4. ASSUME NEW d \in Reached, NEW s \in Within,
               NEW n \in {x \in server[Source(d)][s] : Named(x)}
        PROVE  Excused(d, s, n)' \/ (Owed(d, s, n)' /\ ~ LeftOut(d, s, n)')
    <2>1. Stands(d, s, n)
      BY <1>3, StandsIs
    <2>2. CASE Excused(d, s, n)
      BY <2>2, CallKept DEF Excused
    <2>3. CASE Owed(d, s, n) /\ ~ LeftOut(d, s, n)
      BY <2>1, <2>3
    <2> QED
      BY <1>3, <2>2, <2>3 DEF Tracked
  <1>5. Tracked'
    BY <1>1, <1>2, <1>4 DEF Tracked
  <1> QED
    BY <1>1, <1>3, <1>5

\* Before anything is asked, every table is owed by the query that leads to it.
LEMMA StartTracks ==
  ASSUME Collected, Start
  PROVE  Collected'
  <1>1. /\ call \in Calls /\ ServerType /\ lost = {} /\ outcome = "called"
        /\ call' = call /\ server' = server /\ lost' = lost
    BY DEF Collected, Start
  <1>2. /\ C' = C /\ Queries' = Queries /\ Reached' = Reached /\ Within' = Within
    BY <1>1, CallKept
  <1>3. ServerType'
    BY <1>1 DEF ServerType
  <1>4. CASE Refused
    <2>1. outcome' = "error" /\ todo' = <<>>
      BY <1>4 DEF Start
    <2> QED
      BY <1>1, <1>3, <2>1, SeqOfElements DEF Collected
  <1>5. CASE ~ Refused
    <2> DEFINE kept == {i \in DOMAIN C.door : C.door[i].ask # "databases" \/ AsksServer}
               door == Picked(C.door, kept)
               ask  == [i \in DOMAIN door |-> Query(door[i], NoName, NoName, NoName)]
               open == IF AsksServer THEN <<>> ELSE Opening(<<Target>>)
    <2>1. outcome' = "running" /\ todo' = ask \o open
      BY <1>5 DEF Start, Select
    <2>2. C.door \in Seq(DoorAsks) /\ kept \in SUBSET DOMAIN C.door
      BY <1>1, CallMade DEF WellMade
    <2> HIDE DEF kept
    <2>3. /\ door \in Seq(DoorAsks)
          /\ {door[m] : m \in DOMAIN door} = {C.door[i] : i \in kept}
      BY <2>2, PickedElements
    <2> HIDE DEF door
    <2>4. ask \in Seq(Queries)
      <3>1. \A i \in DOMAIN door : Query(door[i], NoName, NoName, NoName) \in Queries
        <4>1. \A i \in DOMAIN door : door[i] \in Elements(C.door)
          BY <2>2, <2>3 DEF Elements
        <4> QED
          BY <1>1, <4>1, MadeShaped, PublicHome
      <3>2. ask \in [1 .. Len(door) -> Queries] /\ Len(door) \in Nat
        BY <2>3, <3>1
      <3> QED
        BY <3>2
    <2>5. Reached \subseteq Database /\ (~ AsksServer => Target \in Database)
      <3>1. C.list \in {"asked", "listed", "given", "only"}
        BY <1>1, CallMade DEF WellMade
      <3>2. call.dbname \in Database \cup {NoName}
        BY <1>1, CallMade
      <3> QED
        BY <1>5, <3>1, <3>2, PublicHome DEF Refused, AsksServer, Target, Reached
    <2>6. open \in Seq(Queries)
      <3>1. CASE AsksServer
        BY <3>1
      <3>2. CASE ~ AsksServer
        <4>1. <<Target>> \in Seq(Database)
          BY <2>5, <3>2
        <4> QED
          BY <1>1, <3>2, <4>1, OpeningMade
      <3> QED
        BY <3>1, <3>2
    <2>7. AsksServer => \E q \in Elements(ask) : q.ask = "databases"
      <3> SUFFICES ASSUME AsksServer
                   PROVE  \E q \in Elements(ask) : q.ask = "databases"
        OBVIOUS
      <3>1. C.list \in {"asked", "listed"}
        BY DEF AsksServer
      <3>2. PICK i \in DOMAIN C.door : C.door[i].ask = "databases"
        BY <1>1, <3>1, CallMade DEF WellMade, Elements
      <3>3. i \in kept
        BY DEF kept
      <3>4. PICK m \in DOMAIN door : door[m] = C.door[i]
        BY <2>3, <3>3
      <3>5. ask[m] \in Elements(ask) /\ ask[m].ask = "databases"
        BY <3>2, <3>4 DEF Elements, Query
      <3> QED
        BY <3>5
    <2>8. ~ AsksServer => \E q \in Elements(open) : q.ask = "open" /\ q.db = Target
      <3> SUFFICES ASSUME ~ AsksServer
                   PROVE  \E q \in Elements(open) : q.ask = "open" /\ q.db = Target
        OBVIOUS
      <3> DEFINE q == Query(Plain("open", "part"), Target, NoName, NoName)
      <3>1. <<Target>> \in Seq(Database) /\ Target \in Elements(<<Target>>)
        BY <2>5 DEF Elements
      <3>2. q \in Elements(open)
        BY <1>1, <3>1, OpeningMade
      <3>3. q.ask = "open" /\ q.db = Target
        BY DEF Query, Plain, Tried
      <3> QED
        BY <3>2, <3>3
    <2> HIDE DEF ask, open
    <2>9. todo' \in Seq(Queries) /\ Elements(todo') = Elements(ask) \cup Elements(open)
      BY <2>1, <2>4, <2>6, Joined
    <2>10. ASSUME NEW d \in Reached
           PROVE  \E q \in Elements(todo') : Leads(q, d)
      <3>1. CASE AsksServer
        BY <2>7, <2>9, <3>1 DEF Leads
      <3>2. CASE ~ AsksServer
        BY <2>8, <2>9, <3>2 DEF Leads, Reached
      <3> QED
        BY <3>1, <3>2
    <2>11. Tracked'
      BY <1>1, <1>2, <2>10 DEF Tracked, Owed, LeftOut
    <2> QED
      BY <1>1, <1>2, <1>3, <2>1, <2>5, <2>9, <2>11 DEF Collected
  <1> QED
    BY <1>4, <1>5

\* What holds of a step that takes the first query of a collection that runs.
LEMMA Heads ==
  ASSUME Collected, todo # <<>>
  PROVE  /\ call \in Calls /\ ServerType /\ todo \in Seq(Queries) /\ outcome = "running"
         /\ Head(todo) \in Queries /\ Tail(todo) \in Seq(Queries)
         /\ Elements(todo) = {Head(todo)} \cup Elements(Tail(todo))
  BY HeadTail DEF Collected

\* A database that is opened leads to all of its tables.
LEMMA OpenTracks ==
  ASSUME Collected, OpenDatabase
  PROVE  Collected'
  <1> DEFINE q == Head(todo)
  <1>1. /\ todo # <<>> /\ q.ask = "open" /\ todo' = OfDatabase(q.db) \o Tail(todo)
        /\ UNCHANGED <<call, server, read, failed, unread, lost, outcome>>
    BY DEF OpenDatabase
  <1>2. /\ call \in Calls /\ ServerType /\ outcome = "running"
        /\ q \in Queries /\ Tail(todo) \in Seq(Queries)
        /\ Elements(todo) = {q} \cup Elements(Tail(todo))
    BY <1>1, Heads
  <1>3. q.db \in Database /\ q.schema = NoName /\ q.ask \notin Lists
    BY <1>1, <1>2 DEF Queries, Shaped, Lists
  <1> HIDE DEF q
  <1>4. /\ todo' \in Seq(Queries)
        /\ Elements(todo') = Elements(OfDatabase(q.db)) \cup Elements(Tail(todo))
    <2>1. OfDatabase(q.db) \in Seq(Queries)
      BY <1>2, <1>3, OfDatabaseMade
    <2> DEFINE new == OfDatabase(q.db)
               rest == Tail(todo)
    <2>2. todo' = new \o rest
      BY <1>1
    <2>3. new \in Seq(Queries) /\ rest \in Seq(Queries)
      BY <1>2, <2>1
    <2> HIDE DEF new, rest
    <2>4. /\ new \o rest \in Seq(Queries)
          /\ Elements(new \o rest) = Elements(new) \cup Elements(rest)
      BY <2>3, Joined
    <2> QED
      BY <2>2, <2>4 DEF new, rest
  <1>5. ASSUME NEW d, NEW s, NEW n, Stands(d, s, n), Owed(d, s, n), ~ LeftOut(d, s, n)
        PROVE  Owed(d, s, n)' /\ ~ LeftOut(d, s, n)'
    <2>1. ~ LeftOut(d, s, n)'
      BY <1>1, <1>5 DEF LeftOut
    <2>2. ~ Meant(q, d, s, n)
      BY <1>3, <1>5, Distinct DEF Meant, Spans, Stands
    <2>3. ASSUME q.db = d
          PROVE  Owed(d, s, n)'
      <3>1. CASE HasSchemas(C)
        <4>1. PICK p \in Elements(OfDatabase(q.db)) : p.ask = "schemas" /\ p.db = q.db
          BY <1>2, <1>3, <3>1, OfDatabaseMade
        <4>2. p \in Elements(todo') /\ Leads(p, d)
          BY <1>4, <2>3, <4>1 DEF Leads
        <4> QED
          BY <4>2 DEF Owed
      <3>2. CASE ~ HasSchemas(C)
        <4>1. (Public = s \/ C.merged) /\ n \in Name
          BY <1>5, <3>2 DEF Stands, Within
        <4>2. Elements(OfSchemas(d, <<Public>>)) \subseteq Elements(todo')
          BY <1>2, <1>3, <1>4, <2>3, <3>2, OfDatabaseMade
        <4>3. <<Public>> \in Seq(Schema) /\ Public \in Elements(<<Public>>)
          BY PublicHome DEF Elements
        <4>4. /\ \A a \in Elements(C.tables) :
                   Query(a, d, Public, ListOf(a)) \in Elements(OfSchemas(d, <<Public>>))
              /\ \A a \in Elements(Batch) :
                   Query(a, d, Public, NoName) \in Elements(OfSchemas(d, <<Public>>))
          BY <1>2, <1>3, <2>3, <4>3, OfSchemasMade
        <4> QED
          BY <1>1, <1>2, <4>1, <4>2, <4>4, OwedBySchemas
      <3> QED
        BY <3>1, <3>2
    <2>4. \A p \in Elements(todo) \ Elements(todo') : p = q
      BY <1>2, <1>4
    <2>5. Leads(q, d) => q.db = d
      BY <1>1 DEF Leads
    <2>6. Owed(d, s, n)'
      <3>1. Causes \subseteq Causes'
        BY <1>1 DEF Causes
      <3> QED
        BY <1>1, <1>2, <1>5, <2>2, <2>3, <2>4, <2>5, <3>1, OwedStays
    <2> QED
      BY <2>1, <2>6
  <1>6. Reached' \subseteq Database /\ Tracked'
    <2>1. Causes \subseteq Causes'
      BY <1>1 DEF Causes
    <2> QED
      BY <1>1, <1>2, <1>5, <2>1, KeepsTrack
  <1>7. Queries' = Queries
    BY <1>1, CallKept
  <1> QED
    BY <1>1, <1>2, <1>4, <1>6, <1>7 DEF Collected, ServerType

\* A row of data that nobody wants is not missed.
LEMMA SkipTracks ==
  ASSUME Collected, SkipSample
  PROVE  Collected'
  <1> DEFINE q == Head(todo)
  <1>1. /\ todo # <<>> /\ q.ask = "sample" /\ todo' = Tail(todo)
        /\ UNCHANGED <<call, server, read, failed, unread, lost, outcome>>
    BY DEF SkipSample
  <1>2. /\ call \in Calls /\ ServerType /\ outcome = "running"
        /\ q \in Queries /\ Tail(todo) \in Seq(Queries)
        /\ Elements(todo) = {q} \cup Elements(Tail(todo))
    BY <1>1, Heads
  <1> HIDE DEF q
  <1>3. ASSUME NEW d, NEW s, NEW n, Owed(d, s, n), ~ LeftOut(d, s, n)
        PROVE  Owed(d, s, n)' /\ ~ LeftOut(d, s, n)'
    <2>1. ~ LeftOut(d, s, n)'
      BY <1>1, <1>3 DEF LeftOut
    <2>2. \A p \in Elements(todo) \ Elements(todo') : p = q
      BY <1>1, <1>2
    <2>3. ~ Leads(q, d) /\ q.ask \notin Lists
      BY <1>1 DEF Leads, Lists
    <2>4. Owed(d, s, n)'
      <3>1. Causes \subseteq Causes'
        BY <1>1 DEF Causes
      <3> QED
        BY <1>1, <1>2, <1>3, <2>2, <2>3, <3>1, OwedStays
    <2> QED
      BY <2>1, <2>4
  <1>4. Reached' \subseteq Database /\ Tracked'
    <2>1. Causes \subseteq Causes'
      BY <1>1 DEF Causes
    <2> QED
      BY <1>1, <1>2, <1>3, <2>1, KeepsTrack
  <1>5. Queries' = Queries
    BY <1>1, CallKept
  <1> QED
    BY <1>1, <1>2, <1>4, <1>5 DEF Collected, ServerType

\* An answer that is no error has a row for every table that it is about.
LEMMA Holds ==
  ASSUME NEW q \in Queries, ~ Missing(q),
         NEW d, NEW s, NEW n, Stands(d, s, n), Meant(q, d, s, n)
  PROVE  /\ q.ask \notin {"databases", "schemas", "open"} /\ q.schema # NoName
         /\ q.ask \notin Lists => q.schema = s
         /\ \E t \in Items(q) :
              t[2] = n /\ (q.ask \in Lists \/ q.table = NoName => t = <<s, n>>)
  <1>1. /\ q.db = d /\ d \in Database /\ s \in Schema /\ n \in Name /\ q.table \in {n, NoName}
        /\ n \in server[Source(d)][s] /\ Named(n)
    BY DEF Meant, Stands
  <1>2. q.schema = s \/ (C.merged /\ q.ask \in Lists /\ q.table = NoName)
    BY DEF Meant, Spans
  <1>3. q.schema \in Schema
    BY <1>1, <1>2 DEF Queries, Shaped
  <1>4. q.ask \notin {"databases", "schemas", "open"} /\ q.schema # NoName
    BY <1>3, Distinct DEF Queries, Shaped
  <1>5. Items(q) = Present(q)
    BY <1>4 DEF Items
  <1>6. s \in Scope(q) => <<s, n>> \in Present(q)
    BY <1>1 DEF Present
  <1>7. CASE ~ C.merged \/ q.ask \in Lists \cup {"constraints"}
    <2>1. s \in Scope(q)
      BY <1>1, <1>2, <1>7 DEF Scope
    <2> QED
      BY <1>2, <1>4, <1>5, <1>6, <2>1
  <1>8. CASE C.merged /\ q.ask \notin Lists \cup {"constraints"}
    <2>1. q.table = n /\ n # NoName
      BY <1>1, <1>4, <1>8, Distinct DEF Queries, Shaped
    <2>2. Present(q) # {}
      BY <1>8, <2>1 DEF Missing, Gone
    <2>3. PICK t \in Present(q) : t[2] = n
      BY <2>1, <2>2 DEF Present
    <2> QED
      BY <1>2, <1>4, <1>5, <1>8, <2>1, <2>3
  <1> QED
    BY <1>7, <1>8

\* A row that is passed over is a cause of its own for the table it is about.
LEMMA MissedOf ==
  ASSUME NEW q \in Queries, NEW d, NEW s, NEW n, Meant(q, d, s, n), NEW t,
         t[2] = n, q.ask \in Lists \/ q.table = NoName => t = <<s, n>>,
         q.ask \notin {"databases", "schemas"}
  PROVE  /\ Covers(Missed(q, t), d, s, n) /\ Missed(q, t).ask = q.ask
         /\ q.cost \in {"table", "nested"} => Missed(q, t).cost = q.cost
  <1> DEFINE own == [q EXCEPT !.cost = IF @ \in {"table", "nested"} THEN @ ELSE "part"]
             f   == Missed(q, t)
  <1>1. q \in QueryType
    BY DEF Queries
  <1>2. /\ own.ask = q.ask /\ own.db = q.db /\ own.schema = q.schema /\ own.table = q.table
        /\ q.cost \in {"table", "nested"} => own.cost = q.cost
        /\ own \in QueryType
    BY <1>1 DEF QueryType, Costs
  <1> HIDE DEF own
  <1>3. q.db = d /\ Spans(q, s) /\ q.table \in {n, NoName}
    BY DEF Meant
  <1>4. CASE q.table = NoName
    <2>1. f = [own EXCEPT !.schema = t[1], !.table = t[2]]
      BY <1>4 DEF Missed, own
    <2>2. /\ f.ask = q.ask /\ f.cost = own.cost /\ f.db = d
          /\ f.schema = s /\ f.table = n
      BY <1>2, <1>3, <1>4, <2>1 DEF QueryType
    <2> HIDE DEF f
    <2>3. Covers(f, d, s, n)
      BY <2>2 DEF Covers, Spans
    <2> QED
      BY <1>2, <2>2, <2>3 DEF f
  <1>5. CASE q.table # NoName
    <2>1. f = own
      BY <1>5 DEF Missed, own
    <2> HIDE DEF f
    <2>2. Covers(f, d, s, n)
      BY <1>2, <1>3, <2>1 DEF Covers, Spans
    <2> QED
      BY <1>2, <2>1, <2>2 DEF f
  <1> QED
    BY <1>4, <1>5

\* So is a row of the list of databases, or of schemas.
LEMMA MissedWide ==
  ASSUME NEW q \in Queries, NEW d, NEW s, NEW n
  PROVE  /\ q.ask = "databases" => Covers(Missed(q, d), d, s, n) /\ CostsTable(Missed(q, d))
         /\ q.ask = "schemas" /\ q.db = d =>
              Covers(Missed(q, s), d, s, n) /\ CostsTable(Missed(q, s))
  <1> DEFINE own == [q EXCEPT !.cost = IF @ \in {"table", "nested"} THEN @ ELSE "part"]
  <1>1. q \in QueryType
    BY DEF Queries
  <1>2. /\ own.ask = q.ask /\ own.db = q.db /\ own.schema = q.schema /\ own.table = q.table
        /\ own \in QueryType
    BY <1>1 DEF QueryType, Costs
  <1> HIDE DEF own
  <1>3. CASE q.ask = "databases"
    <2> DEFINE f == Missed(q, d)
    <2>1. f = [own EXCEPT !.db = d]
      BY <1>3 DEF Missed, own
    <2>2. f.ask = "databases" /\ f.db = d /\ f.schema = NoName /\ f.table = NoName
      BY <1>2, <1>3, <2>1 DEF QueryType, Queries, Shaped
    <2> HIDE DEF f
    <2>3. Covers(f, d, s, n) /\ CostsTable(f)
      BY <2>2 DEF Covers, CostsTable
    <2> QED
      BY <1>3, <2>3 DEF f
  <1>4. CASE q.ask = "schemas" /\ q.db = d
    <2> DEFINE f == Missed(q, s)
    <2>1. f = [own EXCEPT !.schema = s]
      BY <1>4 DEF Missed, own
    <2>2. f.ask = "schemas" /\ f.db = d /\ f.schema = s /\ f.table = NoName
      BY <1>2, <1>4, <2>1 DEF QueryType, Queries, Shaped
    <2> HIDE DEF f
    <2>3. Covers(f, d, s, n) /\ CostsTable(f)
      BY <2>2 DEF Covers, Spans, CostsTable
    <2> QED
      BY <1>4, <2>3 DEF f
  <1> QED
    BY <1>3, <1>4

\* What is found through a cause.
LEMMA FoundByCause ==
  ASSUME NEW d, NEW s, NEW n, NEW p, NEW f \in Causes', call' = call,
         Covers(f, d, s, n), CostsPart(f, p)
  PROVE  Found(p, d, s, n)'
  BY CallKept DEF Found

\* An answer leaves nothing of a table behind that it did not give.
LEMMA AnswerTracks ==
  ASSUME Collected, Answer
  PROVE  Collected'
  <1>1. PICK q \in Elements(todo) :
          /\ Puts(q) /\ ~ Missing(q)
          /\ \E taken \in Taken(q) : \E items \in SUBSET taken, torn \in BOOLEAN :
               /\ failed' = IF torn THEN failed \cup {q} ELSE failed
               /\ unread' = IF torn THEN unread
                            ELSE unread \cup {Missed(q, i) : i \in Items(q) \ items}
               /\ read' = read \cup Rows(q, items)
               /\ IF Bare(q, items)
                  THEN Pay(q)
                  ELSE todo' = Following(q, items) /\ UNCHANGED <<lost, outcome>>
    BY DEF Answer
  <1>2. PICK items \in SUBSET Items(q), torn \in BOOLEAN :
          /\ failed' = IF torn THEN failed \cup {q} ELSE failed
          /\ unread' = IF torn THEN unread
                       ELSE unread \cup {Missed(q, i) : i \in Items(q) \ items}
          /\ read' = read \cup Rows(q, items)
          /\ IF Bare(q, items)
             THEN Pay(q)
             ELSE todo' = Following(q, items) /\ UNCHANGED <<lost, outcome>>
    <2>1. \A taken \in Taken(q) : taken \subseteq Items(q)
      BY DEF Taken
    <2>2. PICK taken \in Taken(q) : \E its \in SUBSET taken, torn \in BOOLEAN :
            /\ failed' = IF torn THEN failed \cup {q} ELSE failed
            /\ unread' = IF torn THEN unread
                         ELSE unread \cup {Missed(q, i) : i \in Items(q) \ its}
            /\ read' = read \cup Rows(q, its)
            /\ IF Bare(q, its)
               THEN Pay(q)
               ELSE todo' = Following(q, its) /\ UNCHANGED <<lost, outcome>>
      BY <1>1
    <2>3. SUBSET taken \subseteq SUBSET Items(q)
      BY <2>1
    <2> QED
      BY <2>2, <2>3
  <1>3. todo # <<>> /\ q = Head(todo) /\ q.ask # "open"
    BY <1>1 DEF Puts
  <1>4. call' = call /\ server' = server
    BY DEF Answer
  <1>5. /\ call \in Calls /\ ServerType /\ todo \in Seq(Queries) /\ outcome = "running"
        /\ q \in Queries /\ Tail(todo) \in Seq(Queries)
        /\ Elements(todo) = {q} \cup Elements(Tail(todo))
    BY <1>3, Heads
  <1>6. read \subseteq read' /\ Causes \subseteq Causes'
    BY <1>2 DEF Causes
  <1>7. Queries' = Queries /\ \A x : Source(x)' = Source(x)
    BY <1>4, CallKept
  <1>8. \A i \in Items(q) : i \in items \/ q \in Causes' \/ Missed(q, i) \in Causes'
    BY <1>2 DEF Causes
  <1>9. \A f \in Causes' : \A d, s, n : Covers(f, d, s, n) /\ CostsTable(f) => Excused(d, s, n)'
    BY <1>4, CallKept DEF Excused
  <1>10. \A x, d, s, n : Meant(x, d, s, n) => Covers(x, d, s, n)
    BY DEF Meant, Covers
  <1>11. CASE Bare(q, items)
    <2>1. /\ (q.ask = "columns" /\ q.cost = "table") \/ q.cost = "nested"
          /\ items = {} /\ Pay(q)
      BY <1>2, <1>11 DEF Bare
    <2>2. todo' \in Seq(Queries) /\ outcome' = "running"
      BY <1>3, <1>5, <2>1, PayMade
    <2>3. /\ q.db \in Database /\ q.schema \in Schema /\ q.table \in Name
          /\ q.ask \notin Lists \cup {"databases", "schemas", "open"}
      BY <1>5, <2>1 DEF Queries, Shaped, Opens
    <2>4. ASSUME NEW d, NEW s, NEW n, Stands(d, s, n), Owed(d, s, n),
                 ~ LeftOut(d, s, n), ~ Excused(d, s, n)'
          PROVE  Owed(d, s, n)' /\ ~ LeftOut(d, s, n)'
      <3>1. ASSUME Meant(q, d, s, n)
            PROVE  \E f \in Causes' : /\ f.ask = q.ask /\ f.cost = q.cost
                                      /\ Covers(f, d, s, n)
        <4>1. PICK t \in Items(q) :
                t[2] = n /\ (q.ask \in Lists \/ q.table = NoName => t = <<s, n>>)
          BY <1>1, <1>5, <2>4, <3>1, Holds
        <4>2. q \in Causes' \/ Missed(q, t) \in Causes'
          BY <1>8, <2>1
        <4>3. /\ Covers(Missed(q, t), d, s, n) /\ Missed(q, t).ask = q.ask
              /\ Missed(q, t).cost = q.cost
          BY <1>5, <2>1, <2>3, <3>1, <4>1, MissedOf
        <4> QED
          BY <1>10, <3>1, <4>2, <4>3
      <3>2. q.cost = "table" => ~ Covers(q, d, s, n)
        <4>1. SUFFICES ASSUME q.cost = "table", Covers(q, d, s, n) PROVE FALSE
          OBVIOUS
        <4>2. Meant(q, d, s, n)
          BY <2>3, <4>1, Distinct DEF Covers, Meant
        <4>3. PICK f \in Causes' : f.cost = "table" /\ Covers(f, d, s, n)
          BY <3>1, <4>1, <4>2
        <4> QED
          BY <1>9, <2>4, <4>3 DEF CostsTable
      <3>3. ~ LeftOut(d, s, n)'
        <4>1. q.cost \in {"database", "table"} => ~ Covers(q, d, s, n)
          BY <2>1, <3>2
        <4> QED
          BY <1>3, <1>5, <2>1, <2>4, <4>1, PaidIsOther
      <3>4. ASSUME NEW p \in Elements(todo) \ Elements(todo')
            PROVE  /\ ~ Leads(p, d)
                   /\ Meant(p, d, s, n) => p.ask \notin Lists /\ Found(p.ask, d, s, n)'
        <4>1. /\ ~ Leads(p, d)
              /\ Meant(p, d, s, n) =>
                   Meant(q, d, s, n) /\ CostsPart(q, p.ask) /\ p.ask \notin Lists
          <5>1. CASE p = q
            BY <2>3, <5>1 DEF Leads, CostsPart
          <5>2. CASE p # q
            <6>1. p \in Elements(Tail(todo)) /\ p \notin Elements(todo')
              BY <1>5, <3>4, <5>2
            <6>2. q.cost \in {"database", "table"} => ~ Covers(q, d, s, n)
              BY <2>1, <3>2
            <6> QED
              BY <1>3, <1>5, <2>1, <2>2, <2>4, <6>1, <6>2, PaidStays
          <5> QED
            BY <5>1, <5>2
        <4>2. ASSUME Meant(p, d, s, n)
              PROVE  Found(p.ask, d, s, n)'
          <5>1. PICK f \in Causes' : /\ f.ask = q.ask /\ f.cost = q.cost
                                     /\ Covers(f, d, s, n)
            BY <3>1, <4>1, <4>2
          <5>2. CostsPart(f, p.ask)
            BY <4>1, <4>2, <5>1 DEF CostsPart
          <5> QED
            BY <1>4, <5>1, <5>2, FoundByCause
        <4> QED
          BY <4>1, <4>2
      <3>5. Owed(d, s, n)'
        BY <1>4, <1>5, <1>6, <2>4, <3>4, OwedStays
      <3> QED
        BY <3>3, <3>5
    <2>5. Reached' \subseteq Database /\ Tracked'
      BY <1>4, <1>5, <1>6, <2>4, KeepsTrack
    <2> QED
      BY <1>4, <1>5, <1>7, <2>2, <2>5 DEF Collected, ServerType
  <1>12. CASE ~ Bare(q, items)
    <2>1. todo' = Following(q, items) /\ lost' = lost /\ outcome' = outcome
      BY <1>2, <1>12
    <2>2. todo' \in Seq(Queries) /\ Elements(Tail(todo)) \subseteq Elements(todo')
      BY <1>3, <1>5, <2>1, FollowingMade
    <2>3. ASSUME NEW d, NEW s, NEW n, Stands(d, s, n), Owed(d, s, n),
                 ~ LeftOut(d, s, n), ~ Excused(d, s, n)'
          PROVE  Owed(d, s, n)' /\ ~ LeftOut(d, s, n)'
      <3>1. ~ LeftOut(d, s, n)'
        BY <2>1, <2>3 DEF LeftOut
      <3>2. /\ d \in Database /\ s \in Schema /\ n \in Name
            /\ n \in server[Source(d)][s] /\ Named(n)
        BY <2>3 DEF Stands
      <3>3. Covers(q, d, s, n) /\ CostsTable(q) => q \notin Causes'
        BY <1>9, <2>3
      <3>4. Leads(q, d) => Owed(d, s, n)'
        <4>1. CASE q.ask = "databases"
          <5>1. q.db = NoName /\ q.schema = NoName /\ q.table = NoName
            BY <1>5, <4>1 DEF Queries, Shaped
          <5>2. Covers(q, d, s, n) /\ CostsTable(q)
            BY <4>1, <5>1 DEF Covers, CostsTable
          <5>3. Missed(q, d) \notin Causes'
            BY <1>5, <1>9, <2>3, <4>1, MissedWide
          <5>4. d \in items \cap Database
            BY <1>8, <3>2, <3>3, <4>1, <5>1, <5>2, <5>3 DEF Items
          <5>5. PICK p \in Elements(todo') : p.ask = "open" /\ p.db = d
            BY <1>3, <1>5, <2>1, <4>1, <5>4, FollowingMade
          <5> QED
            BY <5>5 DEF Owed, Leads
        <4>2. CASE q.ask = "schemas" /\ q.db = d
          <5>1. q.schema = NoName /\ q.table = NoName
            BY <1>5, <4>2 DEF Queries, Shaped
          <5>2. Covers(q, d, s, n) /\ CostsTable(q)
            BY <4>2, <5>1 DEF Covers, CostsTable
          <5>3. Missed(q, s) \notin Causes'
            BY <1>5, <1>9, <2>3, <4>2, MissedWide
          <5>4. s \in items \cap Schema
            BY <1>8, <3>2, <3>3, <4>2, <5>1, <5>2, <5>3 DEF Items
          <5>5. /\ \A a \in Elements(C.tables) :
                     Query(a, d, s, ListOf(a)) \in Elements(todo')
                /\ \A a \in Elements(Batch) :
                     Query(a, d, s, NoName) \in Elements(todo')
            BY <1>3, <1>5, <2>1, <4>2, <5>4, FollowingMade
          <5> QED
            BY <1>4, <1>5, <3>2, <5>5, OwedBySchemas
        <4> QED
          BY <1>3, <4>1, <4>2 DEF Leads
      <3>5. ASSUME Meant(q, d, s, n)
            PROVE  /\ q.db = d /\ q.schema # NoName
                   /\ q.ask \notin Lists => q.schema = s
                   /\ \/ \E t \in items :
                           t[2] = n /\ (q.ask \in Lists => t = <<s, n>>)
                      \/ \E f \in Causes' : f.ask = q.ask /\ Covers(f, d, s, n)
        <4>1. /\ q.ask \notin {"databases", "schemas", "open"} /\ q.schema # NoName
              /\ q.ask \notin Lists => q.schema = s
              /\ \E t \in Items(q) :
                   t[2] = n /\ (q.ask \in Lists \/ q.table = NoName => t = <<s, n>>)
          BY <1>1, <1>5, <2>3, <3>5, Holds
        <4>2. PICK t \in Items(q) :
                t[2] = n /\ (q.ask \in Lists \/ q.table = NoName => t = <<s, n>>)
          BY <4>1
        <4>3. Covers(Missed(q, t), d, s, n) /\ Missed(q, t).ask = q.ask
          BY <1>5, <3>5, <4>1, <4>2, MissedOf
        <4>4. q.db = d
          BY <3>5 DEF Meant
        <4> QED
          BY <1>8, <1>10, <3>5, <4>1, <4>2, <4>3, <4>4
      <3>6. ASSUME Meant(q, d, s, n), q.ask \in Lists
            PROVE  Told(d, s, n)'
        <4>1. \A f \in Causes' : ~ (f.ask = q.ask /\ Covers(f, d, s, n))
          BY <1>9, <2>3, <3>6 DEF CostsTable
        <4>2. <<s, n>> \in items /\ q.db = d /\ q.schema # NoName
          BY <3>5, <3>6, <4>1
        <4>3. ReadOf("tables", d, s, n)'
          <5>1. Row("tables", q, <<s, n>>) \in read'
            BY <1>2, <3>6, <4>2 DEF Rows
          <5>2. LET r == Row("tables", q, <<s, n>>)
                IN  r.ask = "tables" /\ r.db = d /\ r.key = Key(s, n)
            BY <3>6, <4>2 DEF Row
          <5> QED
            BY <5>1, <5>2 DEF ReadOf
        <4>4. ASSUME NEW a \in Singles
              PROVE  Found(a.ask, d, s, n)'
          <5> DEFINE p == Query(a, d, s, n)
          <5>1. p \in Elements(todo')
            <6>1. <<s, n>> \in items \cap (Schema \X Name)
              BY <3>2, <4>2
            <6>2. PICK t \in items \cap (Schema \X Name) : t = <<s, n>>
              BY <6>1
            <6>3. Query(a, q.db, t[1], t[2]) \in Elements(todo')
              BY <1>3, <1>5, <2>1, <3>6, FollowingMade
            <6> QED
              BY <4>2, <6>2, <6>3
          <5>2. p.ask = a.ask /\ p.db = d /\ p.schema = s /\ p.table = n
            BY DEF Query
          <5> HIDE DEF p
          <5>3. Meant(p, d, s, n)'
            BY <5>2 DEF Meant, Spans
          <5> QED
            BY <5>1, <5>2, <5>3 DEF Found
        <4>5. Singles' = Singles
          BY <1>4, CallKept
        <4> QED
          BY <4>3, <4>4, <4>5 DEF Told
      <3>7. ASSUME Meant(q, d, s, n), q.ask \notin Lists
            PROVE  Found(q.ask, d, s, n)'
        <4>1. CASE \E t \in items : t[2] = n
          <5>1. PICK t \in items : t[2] = n
            BY <4>1
          <5>2. q.db = d /\ q.schema = s /\ q.schema # NoName
            BY <3>5, <3>7
          <5>3. Row(q.ask, q, t) \in read'
            BY <1>2, <3>7, <5>1, <5>2 DEF Rows
          <5>4. LET r == Row(q.ask, q, t)
                IN  r.ask = q.ask /\ r.db = d /\ r.key = Key(s, n)
            BY <3>7, <5>1, <5>2 DEF Row
          <5> QED
            BY <5>3, <5>4 DEF Found, ReadOf
        <4>2. CASE \E f \in Causes' : f.ask = q.ask /\ Covers(f, d, s, n)
          <5>1. PICK f \in Causes' : f.ask = q.ask /\ Covers(f, d, s, n)
            BY <4>2
          <5>2. CostsPart(f, q.ask)
            BY <5>1 DEF CostsPart
          <5> QED
            BY <1>4, <5>1, <5>2, FoundByCause
        <4> QED
          BY <3>5, <3>7, <4>1, <4>2
      <3>8. \A p \in Elements(todo) \ Elements(todo') : p = q
        BY <1>5, <2>2
      <3>9. Owed(d, s, n)'
        BY <1>4, <1>5, <1>6, <2>3, <3>4, <3>6, <3>7, <3>8, OwedStays
      <3> QED
        BY <3>1, <3>9
    <2>4. Reached' \subseteq Database /\ Tracked'
      BY <1>4, <1>5, <1>6, <2>3, KeepsTrack
    <2> QED
      BY <1>4, <1>5, <1>7, <2>1, <2>2, <2>4 DEF Collected, ServerType
  <1> QED
    BY <1>11, <1>12

\* A failure is paid for by what it covers, or the query is put again.
LEMMA FailTracks ==
  ASSUME Collected, Fail
  PROVE  Collected'
  <1>1. PICK q \in Elements(todo) :
          /\ Puts(q)
          /\ \/ /\ todo' = <<[q EXCEPT !.level = @ + 1]>> \o Tail(todo)
                /\ UNCHANGED <<failed, lost, outcome>>
             \/ failed' = failed \cup {q} /\ Pay(q)
    BY DEF Fail
  <1>2. todo # <<>> /\ q = Head(todo) /\ q.ask # "open"
    BY <1>1 DEF Puts
  <1>3. call' = call /\ server' = server /\ read' = read /\ unread' = unread
    BY DEF Fail
  <1>4. /\ call \in Calls /\ ServerType /\ todo \in Seq(Queries) /\ outcome = "running"
        /\ q \in Queries /\ Tail(todo) \in Seq(Queries)
        /\ Elements(todo) = {q} \cup Elements(Tail(todo))
    BY <1>2, Heads
  <1>5. /\ Queries' = Queries
        /\ \A x, d, s, n : /\ Meant(x, d, s, n)' <=> Meant(x, d, s, n)
                           /\ Covers(x, d, s, n)' <=> Covers(x, d, s, n)
    BY <1>3, CallKept
  <1>6. CASE /\ todo' = <<[q EXCEPT !.level = @ + 1]>> \o Tail(todo)
             /\ UNCHANGED <<failed, lost, outcome>>
    <2> DEFINE again == [q EXCEPT !.level = @ + 1]
    <2>1. /\ again \in Queries
          /\ again.ask = q.ask /\ again.db = q.db /\ again.schema = q.schema
          /\ again.table = q.table
          /\ \A d, s, n : Meant(q, d, s, n) => Meant(again, d, s, n)
      <3>1. q \in QueryType
        BY <1>4 DEF Queries
      <3>2. again \in QueryType
        BY <3>1 DEF QueryType
      <3>3. /\ again.ask = q.ask /\ again.db = q.db /\ again.schema = q.schema
            /\ again.table = q.table /\ again.cost = q.cost
        BY <3>1 DEF QueryType
      <3> HIDE DEF again
      <3>4. Shaped(again)
        BY <1>4, <3>3 DEF Queries, Shaped
      <3>5. \A d, s, n : Meant(q, d, s, n) => Meant(again, d, s, n)
        BY <3>3 DEF Meant, Spans
      <3> QED
        BY <3>2, <3>3, <3>4, <3>5 DEF Queries
    <2>2. todo' = <<again>> \o Tail(todo)
      BY <1>6
    <2> HIDE DEF again
    <2>3. <<again>> \in Seq(Queries) /\ Elements(<<again>>) = {again}
      BY <2>1 DEF Elements
    <2>4. todo' \in Seq(Queries) /\ Elements(todo') = {again} \cup Elements(Tail(todo))
      <3> DEFINE one == <<again>>
                 rest == Tail(todo)
      <3>1. one \in Seq(Queries) /\ rest \in Seq(Queries) /\ todo' = one \o rest
        BY <1>4, <2>2, <2>3
      <3> HIDE DEF one, rest
      <3>2. /\ one \o rest \in Seq(Queries)
            /\ Elements(one \o rest) = Elements(one) \cup Elements(rest)
        BY <3>1, Joined
      <3> QED
        BY <2>3, <3>1, <3>2 DEF one, rest
    <2> Causes \subseteq Causes'
      BY <1>3, <1>6 DEF Causes
    <2>5. ASSUME NEW d, NEW s, NEW n, Owed(d, s, n), ~ LeftOut(d, s, n)
          PROVE  Owed(d, s, n)' /\ ~ LeftOut(d, s, n)'
      <3>1. ~ LeftOut(d, s, n)'
        BY <1>6, <2>5 DEF LeftOut
      <3>2. \A p \in Elements(todo) \ Elements(todo') : p = q
        BY <1>4, <2>4
      <3>3. again \in Elements(todo')
        BY <2>4
      <3>4. Leads(q, d) => Owed(d, s, n)'
        BY <2>1, <3>3 DEF Leads, Owed
      <3>5. Meant(q, d, s, n) /\ q.ask \in Lists => Told(d, s, n)'
        BY <1>5, <2>1, <3>3 DEF Told
      <3>6. Meant(q, d, s, n) => Found(q.ask, d, s, n)'
        BY <1>5, <2>1, <3>3 DEF Found
      <3>7. Owed(d, s, n)'
        BY <1>3, <1>4, <1>6, <2>5, <3>2, <3>4, <3>5, <3>6, OwedStays
      <3> QED
        BY <3>1, <3>7
    <2>6. Reached' \subseteq Database /\ Tracked'
      BY <1>3, <1>4, <1>6, <2>5, KeepsTrack
    <2> QED
      BY <1>3, <1>4, <1>5, <1>6, <2>4, <2>6 DEF Collected, ServerType
  <1>7. CASE failed' = failed \cup {q} /\ Pay(q)
    <2>0. q \in Causes' /\ Causes \subseteq Causes'
      BY <1>3, <1>7 DEF Causes
    <2>1. todo' \in Seq(Queries)
      BY <1>2, <1>4, <1>7, PayMade
    <2>2. CASE outcome' # "running"
      <3>1. todo' = <<>> /\ outcome' \in {"error", "panic"}
        BY <1>2, <1>4, <1>7, <2>2, PayMade
      <3> QED
        BY <1>3, <1>4, <1>5, <2>1, <3>1 DEF Collected, ServerType
    <2>3. CASE outcome' = "running"
      <3>1. ASSUME NEW d, NEW s, NEW n, Stands(d, s, n), Owed(d, s, n),
                   ~ LeftOut(d, s, n), ~ Excused(d, s, n)'
            PROVE  Owed(d, s, n)' /\ ~ LeftOut(d, s, n)'
        <4>1. ~ (Covers(q, d, s, n) /\ CostsTable(q))
          BY <1>5, <2>0, <3>1 DEF Excused
        <4>2. q.cost \in {"database", "table"} => ~ Covers(q, d, s, n)
          BY <4>1 DEF CostsTable
        <4>3. ~ LeftOut(d, s, n)'
          BY <1>2, <1>4, <1>7, <3>1, <4>2, PaidIsOther
        <4>4. ~ Leads(q, d)
          <5>1. q.ask = "databases" => Covers(q, d, s, n)
            BY <1>4 DEF Covers, Queries, Shaped
          <5>2. q.ask = "schemas" /\ q.db = d => Covers(q, d, s, n)
            BY <1>4 DEF Covers, Queries, Shaped
          <5> QED
            BY <1>2, <4>1, <5>1, <5>2 DEF Leads, CostsTable
        <4>5. Meant(q, d, s, n) => Covers(q, d, s, n)
          BY DEF Meant, Covers
        <4>6. ~ (Meant(q, d, s, n) /\ q.ask \in Lists)
          BY <4>1, <4>5 DEF CostsTable
        <4>7. Meant(q, d, s, n) => Found(q.ask, d, s, n)'
          BY <1>5, <2>0, <4>5 DEF Found, CostsPart
        <4>8. ASSUME NEW p \in Elements(Tail(todo)), p \notin Elements(todo')
              PROVE  /\ ~ Leads(p, d)
                     /\ Meant(p, d, s, n) =>
                          p.ask \notin Lists /\ Found(p.ask, d, s, n)'
          <5>1. ~ Leads(p, d)
            BY <1>2, <1>4, <1>7, <2>3, <3>1, <4>2, <4>8, PaidStays
          <5>2. Meant(p, d, s, n) =>
                  Meant(q, d, s, n) /\ CostsPart(q, p.ask) /\ p.ask \notin Lists
            BY <1>2, <1>4, <1>7, <2>3, <3>1, <4>2, <4>8, PaidStays
          <5>3. Meant(q, d, s, n) /\ CostsPart(q, p.ask) => Found(p.ask, d, s, n)'
            BY <1>3, <2>0, <4>5, FoundByCause
          <5> QED
            BY <5>1, <5>2, <5>3
        <4>9. \A p \in Elements(todo) \ Elements(todo') :
                p = q \/ (p \in Elements(Tail(todo)) /\ p \notin Elements(todo'))
          BY <1>4
        <4>10. Owed(d, s, n)'
          BY <1>3, <1>4, <2>0, <3>1, <4>4, <4>6, <4>7, <4>8, <4>9, OwedStays
        <4> QED
          BY <4>3, <4>10
      <3>2. Reached' \subseteq Database /\ Tracked'
        BY <1>3, <1>4, <2>0, <3>1, KeepsTrack
      <3> QED
        BY <1>3, <1>4, <1>5, <2>1, <2>3, <3>2 DEF Collected, ServerType
    <2> QED
      BY <2>2, <2>3
  <1> QED
    BY <1>1, <1>6, <1>7

\* Nothing is left to do when a collection ends.
LEMMA FinishTracks ==
  ASSUME Collected, Finish
  PROVE  Collected'
  <1>1. /\ outcome = "running" /\ todo = <<>> /\ outcome' \in {"ok", "error"}
        /\ UNCHANGED <<call, server, todo, read, failed, unread, lost>>
    BY DEF Finish
  <1>2. /\ Queries' = Queries /\ Reached' = Reached /\ Within' = Within
        /\ C' = C /\ Batch' = Batch /\ Singles' = Singles /\ Causes' = Causes
        /\ \A x : Source(x)' = Source(x) /\ (Named(x)' <=> Named(x))
        /\ \A q, d, s, n : /\ Meant(q, d, s, n)' <=> Meant(q, d, s, n)
                           /\ Covers(q, d, s, n)' <=> Covers(q, d, s, n)
    BY <1>1, CallKept DEF Causes
  <1>3. \A d, s, n : /\ Excused(d, s, n)' <=> Excused(d, s, n)
                     /\ Owed(d, s, n)' <=> Owed(d, s, n)
                     /\ LeftOut(d, s, n)' <=> LeftOut(d, s, n)
    <2>1. \A p, d, s, n : Found(p, d, s, n)' <=> Found(p, d, s, n)
      BY <1>1, <1>2 DEF Found, ReadOf
    <2>2. \A d, s, n : Told(d, s, n)' <=> Told(d, s, n)
      BY <1>1, <1>2, <2>1 DEF Told, ReadOf
    <2> QED
      BY <1>1, <1>2, <2>1, <2>2 DEF Excused, Owed, LeftOut
  <1>4. Tracked => Tracked'
    BY <1>1, <1>2, <1>3 DEF Tracked
  <1> QED
    BY <1>1, <1>2, <1>4 DEF Collected, ServerType

\* A table that is dropped is owed to nobody.
LEMMA DropTracks ==
  ASSUME Collected, DropTable
  PROVE  Collected'
  <1>1. /\ outcome = "running"
        /\ UNCHANGED <<call, todo, read, failed, unread, lost, outcome>>
    BY DEF DropTable
  <1>2. PICK e \in Database, t \in Schema : \E m \in server[e][t] :
          server' = [server EXCEPT ![e][t] = @ \ {m}]
    BY DEF DropTable
  <1>3. PICK m \in server[e][t] : server' = [server EXCEPT ![e][t] = @ \ {m}]
    BY <1>2
  <1>4. call \in Calls /\ ServerType /\ Reached \subseteq Database /\ Tracked
    BY <1>1 DEF Collected
  <1>5. ServerType'
    BY <1>3, <1>4 DEF ServerType
  <1>6. \A d \in Database, s \in Schema : server'[d][s] \subseteq server[d][s]
    BY <1>3, <1>4 DEF ServerType
  <1>7. /\ Queries' = Queries /\ Reached' = Reached /\ Within' = Within
        /\ C' = C /\ Batch' = Batch /\ Singles' = Singles /\ Causes' = Causes
        /\ \A x : Source(x)' = Source(x) /\ (Named(x)' <=> Named(x))
        /\ \A q, d, s, n : /\ Meant(q, d, s, n)' <=> Meant(q, d, s, n)
                           /\ Covers(q, d, s, n)' <=> Covers(q, d, s, n)
    BY <1>1, CallKept DEF Causes
  <1>8. \A d, s, n : /\ Excused(d, s, n)' <=> Excused(d, s, n)
                     /\ Owed(d, s, n)' <=> Owed(d, s, n)
                     /\ LeftOut(d, s, n)' <=> LeftOut(d, s, n)
    <2>1. \A p, d, s, n : Found(p, d, s, n)' <=> Found(p, d, s, n)
      BY <1>1, <1>7 DEF Found, ReadOf
    <2>2. \A d, s, n : Told(d, s, n)' <=> Told(d, s, n)
      BY <1>1, <1>7, <2>1 DEF Told, ReadOf
    <2> QED
      BY <1>1, <1>7, <2>1, <2>2 DEF Excused, Owed, LeftOut
  <1>9. \A d \in Reached, s \in Within : Source(d) \in Database /\ s \in Schema
    BY <1>4, PublicHome, CallMade DEF Source, Within
  <1>10. Tracked'
    BY <1>4, <1>6, <1>7, <1>8, <1>9 DEF Tracked
  <1> QED
    BY <1>1, <1>4, <1>5, <1>7, <1>10 DEF Collected

\* No step of a collection, and no table that somebody drops, loses a table that
\* is still owed to the report.
THEOREM CollectedInductive == Spec => []Collected
<1>1. Init => Collected
  <2> SUFFICES ASSUME Init PROVE Collected
    OBVIOUS
  <2>1. call \in Calls /\ server \in Servers /\ todo = <<>> /\ lost = {}
        /\ outcome = "called"
    BY DEF Init
  <2> QED
    BY <2>1, CatalogAssumption, SeqOfElements DEF Collected, ServerType
<1>2. Collected /\ [Next]_vars => Collected'
  <2> SUFFICES ASSUME Collected, [Next]_vars PROVE Collected'
    OBVIOUS
  <2>1. CASE Start
    BY <2>1, StartTracks
  <2>2. CASE OpenDatabase
    BY <2>2, OpenTracks
  <2>3. CASE SkipSample
    BY <2>3, SkipTracks
  <2>4. CASE Answer
    BY <2>4, AnswerTracks
  <2>5. CASE Fail
    BY <2>5, FailTracks
  <2>6. CASE Finish
    BY <2>6, FinishTracks
  <2>7. CASE DropTable
    BY <2>7, DropTracks
  <2>8. CASE UNCHANGED vars
    <3>1. UNCHANGED <<call, server, todo, read, failed, unread, lost, outcome>>
      BY <2>8 DEF vars
    <3>2. /\ Queries' = Queries /\ Reached' = Reached /\ Within' = Within
          /\ C' = C /\ Batch' = Batch /\ Singles' = Singles /\ Causes' = Causes
          /\ \A x : Source(x)' = Source(x) /\ (Named(x)' <=> Named(x))
          /\ \A q, d, s, n : /\ Meant(q, d, s, n)' <=> Meant(q, d, s, n)
                             /\ Covers(q, d, s, n)' <=> Covers(q, d, s, n)
      BY <3>1, CallKept DEF Causes
    <3>3. \A p, d, s, n : Found(p, d, s, n)' <=> Found(p, d, s, n)
      BY <3>1, <3>2 DEF Found, ReadOf
    <3>4. \A d, s, n : Told(d, s, n)' <=> Told(d, s, n)
      BY <3>1, <3>2, <3>3 DEF Told, ReadOf
    <3>5. \A d, s, n : /\ Excused(d, s, n)' <=> Excused(d, s, n)
                       /\ Owed(d, s, n)' <=> Owed(d, s, n)
                       /\ LeftOut(d, s, n)' <=> LeftOut(d, s, n)
      BY <3>1, <3>2, <3>3, <3>4 DEF Excused, Owed, LeftOut
    <3>6. Tracked' <=> Tracked
      BY <3>1, <3>2, <3>5 DEF Tracked
    <3> QED
      BY <3>1, <3>2, <3>6 DEF Collected, ServerType
  <2> QED
    BY <2>1, <2>2, <2>3, <2>4, <2>5, <2>6, <2>7, <2>8 DEF Next, Collecting
<1> QED
  BY <1>1, <1>2, PTL DEF Spec

\* At the end nothing is still to be put, so that what a table is owed has been
\* read, under its own key, or has a cause to be missing.
LEMMA LossFollows ==
  ASSUME Collected, RowsOwn
  PROVE  LossHasCause
  <1> SUFFICES ASSUME outcome = "ok", NEW d \in Reached, NEW s \in Within,
                      NEW n \in {x \in server[Source(d)][s] : Named(x)},
                      ~ \E f \in Causes : Covers(f, d, s, n) /\ CostsTable(f)
               PROVE  \E e \in Report :
                        /\ e.table.db = d /\ e.table.from = <<Source(d), s, n>>
                        /\ \A p \in Parts :
                             \/ \E r \in e.parts : r.ask = p
                             \/ \E f \in Causes : Covers(f, d, s, n) /\ CostsPart(f, p)
    BY DEF LossHasCause
  <1>1. call \in Calls /\ Tracked /\ todo = <<>>
    BY DEF Collected
  <1>2. Owed(d, s, n) /\ ~ LeftOut(d, s, n)
    BY <1>1 DEF Tracked, Excused
  <1>3. Elements(todo) = {}
    BY <1>1 DEF Elements
  <1>4. /\ ReadOf("tables", d, s, n)
        /\ \A a \in Singles \cup Elements(Batch) : a.ask # "sample" => Found(a.ask, d, s, n)
    BY <1>2, <1>3 DEF Owed, Told
  <1>5. PICK r \in read : r.ask = "tables" /\ r.db = d /\ r.key = Key(s, n)
    BY <1>4 DEF ReadOf
  <1>6. r.from = <<Source(d), s, n>>
    <2>1. RowOwn(r)
      BY DEF RowsOwn
    <2>2. Key(r.from[2], r.from[3]) = Key(s, n)
      BY <1>5, <2>1 DEF RowOwn
    <2>3. r.from[2] = s /\ r.from[3] = n
      BY <2>2, KeyInjective
    <2> QED
      BY <1>5, <2>1, <2>3 DEF RowOwn
  <1>7. r \in Listed
    BY <1>2, <1>5 DEF Listed, LeftOut
  <1>8. Entry(r) \in Report /\ Entry(r).table = r
    BY <1>7 DEF Report, Entry
  <1>9. \A a \in Singles \cup Elements(Batch) : a.ask # "tables"
    BY <1>1, BatchEach
       DEF Singles, Elements, EachAsks, BatchAsks, ClosingAsks, Fit, Opens, Lists
  <1>10. ASSUME NEW p \in Parts
         PROVE  \/ \E x \in Entry(r).parts : x.ask = p
                \/ \E f \in Causes : Covers(f, d, s, n) /\ CostsPart(f, p)
    <2>1. p # "tables" /\ Found(p, d, s, n)
      BY <1>4, <1>9 DEF Parts, Singles
    <2>2. CASE ReadOf(p, d, s, n)
      <3>1. PICK x \in read : x.ask = p /\ x.db = d /\ x.key = Key(s, n)
        BY <2>2 DEF ReadOf
      <3>2. x \in Entry(r).parts
        BY <1>5, <2>1, <3>1 DEF Entry
      <3> QED
        BY <3>1, <3>2
    <2> QED
      BY <1>3, <2>1, <2>2 DEF Found
  <1> QED
    BY <1>5, <1>6, <1>8, <1>10

\* Whatever is missing from a report has a query that failed, or a row that was
\* passed over, of its own to answer for it, for every connector, server and
\* choice of failures.
THEOREM LossAlwaysHasCause == Spec => []LossHasCause
  BY LossFollows, CollectedInductive, RowsOwnInductive, PTL

-----------------------------------------------------------------------------
(* Analysis.                                                                 *)

\* The nodes on the way up from x, one for each of n steps.
Climbs(p, x, up, n) == up = [k \in 0 .. n |-> IF k = 0 THEN x ELSE Parent(p, up[k - 1])]

\* The definition of Ascent has a solution.
LEMMA ClimbsExist ==
  ASSUME NEW p, NEW x, NEW n \in Nat
  PROVE  \E up : Climbs(p, x, up, n)
  <1> DEFINE T == {m \in Nat : \E up : Climbs(p, x, up, m)}
  <1>1. 0 \in T
    <2> DEFINE up == [k \in 0 .. 0 |-> x]
    <2>1. up = [k \in 0 .. 0 |-> IF k = 0 THEN x ELSE Parent(p, up[k - 1])]
      <3>1. \A k \in 0 .. 0 : k = 0
        OBVIOUS
      <3> QED
        BY <3>1
    <2> HIDE DEF up
    <2>2. Climbs(p, x, up, 0)
      BY <2>1 DEF Climbs
    <2> QED
      BY <2>2
  <1>2. ASSUME NEW m \in Nat, m \in T
        PROVE  m + 1 \in T
    <2>1. PICK f : Climbs(p, x, f, m)
      BY <1>2
    <2> DEFINE last == Parent(p, f[m])
               g == [k \in 0 .. m + 1 |-> IF k = m + 1 THEN last ELSE f[k]]
    <2>2. g = [k \in 0 .. m + 1 |-> IF k = m + 1 THEN last ELSE f[k]]
      OBVIOUS
    <2>3. f = [k \in 0 .. m |-> IF k = 0 THEN x ELSE Parent(p, f[k - 1])]
      BY <2>1 DEF Climbs
    <2> HIDE DEF g
    <2>4. ASSUME NEW k \in 0 .. m + 1
          PROVE  g[k] = IF k = 0 THEN x ELSE Parent(p, g[k - 1])
      <3>1. CASE k = m + 1
        <4>1. k # 0 /\ k - 1 = m /\ m \in 0 .. m + 1 /\ m # m + 1
          BY <3>1
        <4>2. g[k - 1] = f[m] /\ g[k] = last
          BY <2>2, <3>1, <4>1
        <4> QED
          BY <4>1, <4>2
      <3>2. CASE k # m + 1
        <4>1. k \in 0 .. m /\ g[k] = f[k]
          BY <2>2, <3>2
        <4>2. f[k] = IF k = 0 THEN x ELSE Parent(p, f[k - 1])
          BY <2>3, <4>1
        <4>3. k # 0 => k - 1 \in 0 .. m + 1 /\ k - 1 # m + 1
          BY <4>1
        <4>4. k # 0 => g[k - 1] = f[k - 1]
          BY <2>2, <4>3
        <4> QED
          BY <4>1, <4>2, <4>4
      <3> QED
        BY <3>1, <3>2
    <2>5. g = [k \in 0 .. m + 1 |-> g[k]]
      BY <2>2
    <2>6. Climbs(p, x, g, m + 1)
      BY <2>4, <2>5 DEF Climbs
    <2> QED
      BY <2>6
  <1> HIDE DEF T
  <1>3. Nat \subseteq T
    BY <1>1, <1>2, NatInd
  <1> QED
    BY <1>3 DEF T

\* Ascent starts at x and goes to the parent in each step.
LEMMA AscentSteps ==
  ASSUME NEW p, NEW x, IsFiniteSet(DOMAIN p)
  PROVE  /\ Cardinality(DOMAIN p) \in Nat
         /\ DOMAIN Ascent(p, x) = 0 .. Cardinality(DOMAIN p)
         /\ Ascent(p, x)[0] = x
         /\ \A k \in 1 .. Cardinality(DOMAIN p) :
              Ascent(p, x)[k] = Parent(p, Ascent(p, x)[k - 1])
  <1> DEFINE N == Cardinality(DOMAIN p)
             up == CHOOSE up : Climbs(p, x, up, N)
  <1>1. N \in Nat
    BY FS_CardinalityType
  <1>2. Climbs(p, x, up, N)
    BY <1>1, ClimbsExist
  <1>3. Ascent(p, x) = up
    BY DEF Ascent, Climbs
  <1> HIDE DEF up, N
  <1>4. up = [k \in 0 .. N |-> IF k = 0 THEN x ELSE Parent(p, up[k - 1])]
    BY <1>2 DEF Climbs
  <1>5. /\ DOMAIN up = 0 .. N
        /\ \A k \in 0 .. N : up[k] = IF k = 0 THEN x ELSE Parent(p, up[k - 1])
    BY <1>4
  <1>6. /\ up[0] = x
        /\ \A k \in 1 .. N : up[k] = Parent(p, up[k - 1])
    BY <1>1, <1>5
  <1> QED
    BY <1>1, <1>3, <1>5, <1>6 DEF N

\* The nodes that are not roots.
Linked(p) == {x \in DOMAIN p : p[x] # x}

\* A forest: heights fall on the way up, and there are no more of them than
\* nodes that are linked.
Forest(p, h) ==
  /\ IsFiniteSet(DOMAIN p)
  /\ p \in [DOMAIN p -> DOMAIN p]
  /\ h \in [DOMAIN p -> Nat]
  /\ \A x \in DOMAIN p : /\ p[x] = x => h[x] = 0
                         /\ p[x] # x => h[p[x]] < h[x]
                         /\ h[x] <= Cardinality(Linked(p))

\* The way up from a parent is the one from its child without the first step.
LEMMA AscentShifts ==
  ASSUME NEW p, NEW h, Forest(p, h), NEW x \in DOMAIN p
  PROVE  \A k \in 1 .. Cardinality(DOMAIN p) :
           Ascent(p, p[x])[k - 1] = Ascent(p, x)[k]
  <1> DEFINE N == Cardinality(DOMAIN p)
             up == Ascent(p, x)
             vp == Ascent(p, p[x])
             T  == {n \in Nat : n + 1 <= N => vp[n] = up[n + 1]}
  <1>1. /\ N \in Nat /\ up[0] = x /\ vp[0] = p[x]
        /\ \A k \in 1 .. N : up[k] = Parent(p, up[k - 1])
        /\ \A k \in 1 .. N : vp[k] = Parent(p, vp[k - 1])
    <2>1. IsFiniteSet(DOMAIN p)
      BY DEF Forest
    <2> HIDE DEF Forest
    <2> QED
      BY <2>1, AscentSteps
  <1> HIDE DEF N, up, vp
  <1>2. 0 \in T
    <2> SUFFICES ASSUME 1 <= N
                 PROVE  vp[0] = up[1]
      BY <1>1
    <2>1. up[1] = Parent(p, up[1 - 1])
      BY <1>1
    <2> QED
      BY <1>1, <2>1 DEF Parent
  <1>3. ASSUME NEW n \in Nat, n \in T
        PROVE  n + 1 \in T
    <2> SUFFICES ASSUME n + 2 <= N
                 PROVE  vp[n + 1] = up[n + 2]
      OBVIOUS
    <2>1. vp[n + 1] = Parent(p, vp[n + 1 - 1]) /\ n + 1 - 1 = n
      BY <1>1
    <2>2. up[n + 2] = Parent(p, up[n + 2 - 1]) /\ n + 2 - 1 = n + 1
      BY <1>1
    <2>3. vp[n] = up[n + 1]
      BY <1>1, <1>3
    <2> QED
      BY <2>1, <2>2, <2>3
  <1> HIDE DEF T
  <1>4. Nat \subseteq T
    BY <1>2, <1>3, NatInd
  <1>5. ASSUME NEW k \in 1 .. N
        PROVE  vp[k - 1] = up[k]
    <2>1. k - 1 \in T /\ k - 1 + 1 = k /\ k <= N
      BY <1>1, <1>4
    <2> QED
      BY <2>1 DEF T
  <1> QED
    BY <1>5 DEF N, up, vp

\* Every way up ends at a root, in as many steps as the node is high.
LEMMA RootRules ==
  ASSUME NEW p, NEW h, Forest(p, h), NEW x \in DOMAIN p
  PROVE  /\ Root(p, x) \in DOMAIN p
         /\ p[Root(p, x)] = Root(p, x)
         /\ p[x] = x => Root(p, x) = x
         /\ Root(p, p[x]) = Root(p, x)
  <1> DEFINE D == DOMAIN p
             N == Cardinality(D)
             A(y) == Ascent(p, y)
             T == {n \in Nat : n <= N => \A y \in D : h[y] <= n =>
                                 A(y)[n] \in D /\ p[A(y)[n]] = A(y)[n]}
  <1>1. \A y \in D : /\ A(y)[0] = y
                     /\ \A k \in 1 .. N : A(y)[k] = Parent(p, A(y)[k - 1])
                     /\ \A k \in 1 .. N : A(p[y])[k - 1] = A(y)[k]
    <2>1. IsFiniteSet(D)
      BY DEF Forest
    <2> SUFFICES ASSUME NEW y \in D
                 PROVE  /\ A(y)[0] = y
                        /\ \A k \in 1 .. N : A(y)[k] = Parent(p, A(y)[k - 1])
                        /\ \A k \in 1 .. N : A(p[y])[k - 1] = A(y)[k]
      OBVIOUS
    <2>2. /\ A(y)[0] = y
          /\ \A k \in 1 .. N : A(y)[k] = Parent(p, A(y)[k - 1])
      BY <2>1, AscentSteps
    <2> QED
      BY <2>2, AscentShifts
  <1>2. /\ N \in Nat /\ p \in [D -> D] /\ h \in [D -> Nat]
        /\ \A y \in D : /\ p[y] = y => h[y] = 0
                        /\ p[y] # y => h[p[y]] < h[y]
                        /\ h[y] <= N
    <2>1. N \in Nat /\ Cardinality(Linked(p)) \in Nat /\ Cardinality(Linked(p)) <= N
      BY FS_Subset, FS_CardinalityType DEF Forest, Linked
    <2> QED
      BY <2>1 DEF Forest
  <1> HIDE DEF A, N
  <1>3. 0 \in T
    <2> SUFFICES ASSUME NEW y \in D, h[y] <= 0
                 PROVE  A(y)[0] \in D /\ p[A(y)[0]] = A(y)[0]
      OBVIOUS
    <2>1. p[y] = y
      <3> SUFFICES ASSUME p[y] # y
                   PROVE  FALSE
        OBVIOUS
      <3>1. p[y] \in D /\ h[p[y]] \in Nat /\ h[p[y]] < h[y] /\ h[y] \in Nat
        BY <1>2
      <3> QED
        BY <3>1
    <2> QED
      BY <1>1, <2>1
  <1>4. ASSUME NEW n \in Nat, n \in T
        PROVE  n + 1 \in T
    <2> SUFFICES ASSUME NEW y \in D, n + 1 <= N, h[y] <= n + 1
                 PROVE  A(y)[n + 1] \in D /\ p[A(y)[n + 1]] = A(y)[n + 1]
      OBVIOUS
    <2>1. p[y] \in D /\ h[p[y]] <= n
      <3>1. p[y] \in D /\ h[p[y]] \in Nat /\ h[y] \in Nat
        BY <1>2
      <3> QED
        BY <1>2, <3>1
    <2>2. A(p[y])[n] \in D /\ p[A(p[y])[n]] = A(p[y])[n]
      BY <1>2, <1>4, <2>1
    <2>3. A(p[y])[n + 1 - 1] = A(y)[n + 1] /\ n + 1 - 1 = n
      BY <1>1, <1>2
    <2> QED
      BY <2>2, <2>3
  <1>5. N \in T
    <2> HIDE DEF T
    <2> QED
      BY <1>2, <1>3, <1>4, NatInd
  <1>6. \A y \in D : A(y)[N] \in D /\ p[A(y)[N]] = A(y)[N]
    BY <1>2, <1>5
  <1>7. \A y \in D : Root(p, y) = A(y)[N]
    BY DEF Root, A, N
  <1>8. p[x] = x => A(x)[N] = x
    <2> SUFFICES ASSUME p[x] = x
                 PROVE  A(x)[N] = x
      OBVIOUS
    <2> DEFINE U == {n \in Nat : n <= N => A(x)[n] = x}
    <2>1. 0 \in U
      BY <1>1
    <2>2. ASSUME NEW n \in Nat, n \in U
          PROVE  n + 1 \in U
      <3> SUFFICES ASSUME n + 1 <= N
                   PROVE  A(x)[n + 1] = x
        OBVIOUS
      <3>1. A(x)[n + 1] = Parent(p, A(x)[n + 1 - 1]) /\ n + 1 - 1 = n
        BY <1>1, <1>2
      <3>2. A(x)[n] = x
        BY <1>2, <2>2
      <3> QED
        BY <3>1, <3>2 DEF Parent
    <2> HIDE DEF U
    <2>3. N \in U
      BY <1>2, <2>1, <2>2, NatInd
    <2> QED
      BY <1>2, <2>3 DEF U
  <1>9. A(p[x])[N] = A(x)[N]
    <2>1. N >= 1
      <3>1. CASE N = 0
        BY <3>1, FS_EmptySet DEF Forest, N
      <3> QED
        BY <1>2, <3>1
    <2>2. A(p[x])[N] = Parent(p, A(p[x])[N - 1]) /\ A(p[x])[N - 1] = A(x)[N]
      BY <1>1, <1>2, <2>1
    <2> QED
      BY <1>6, <2>2 DEF Parent
  <1>10. p[x] \in D
    BY <1>2
  <1> QED
    BY <1>6, <1>7, <1>8, <1>9, <1>10

\* A node on the way up from another one has the same root, which is on it too.
LEMMA AscentRoots ==
  ASSUME NEW p, NEW h, Forest(p, h), NEW x \in DOMAIN p, NEW y \in Range(Ascent(p, x))
  PROVE  y \in DOMAIN p /\ Root(p, y) = Root(p, x)
  <1> DEFINE N == Cardinality(DOMAIN p)
             up == Ascent(p, x)
             T == {n \in Nat : n <= N => up[n] \in DOMAIN p /\ Root(p, up[n]) = Root(p, x)}
  <1>1. /\ N \in Nat /\ DOMAIN up = 0 .. N /\ up[0] = x
        /\ \A k \in 1 .. N : up[k] = Parent(p, up[k - 1])
    BY AscentSteps DEF Forest
  <1> HIDE DEF N, up
  <1>2. 0 \in T
    BY <1>1
  <1>3. ASSUME NEW n \in Nat, n \in T
        PROVE  n + 1 \in T
    <2> SUFFICES ASSUME n + 1 <= N
                 PROVE  up[n + 1] \in DOMAIN p /\ Root(p, up[n + 1]) = Root(p, x)
      OBVIOUS
    <2>1. up[n] \in DOMAIN p /\ Root(p, up[n]) = Root(p, x)
      BY <1>1, <1>3
    <2>2. up[n + 1] = Parent(p, up[n + 1 - 1]) /\ n + 1 - 1 = n
      BY <1>1
    <2>3. up[n + 1] = p[up[n]]
      BY <2>1, <2>2 DEF Parent
    <2>4. p[up[n]] \in DOMAIN p
      BY <2>1 DEF Forest
    <2> QED
      BY <2>1, <2>3, <2>4, RootRules
  <1> HIDE DEF T
  <1>4. Nat \subseteq T
    BY <1>2, <1>3, NatInd
  <1>5. PICK n \in 0 .. N : y = up[n]
    BY <1>1 DEF Range, up
  <1>6. n \in T /\ n <= N
    BY <1>1, <1>4
  <1> QED
    BY <1>5, <1>6 DEF T

\* What goes with the parents, and is itself at the roots, is the root.
LEMMA RootUnique ==
  ASSUME NEW p, NEW h, Forest(p, h), NEW r,
         \A x \in DOMAIN p : /\ p[x] = x => r[x] = x
                             /\ p[x] # x => r[x] = r[p[x]]
  PROVE  \A x \in DOMAIN p : Root(p, x) = r[x]
  <1> DEFINE T == {n \in Nat : \A x \in DOMAIN p : h[x] <= n => Root(p, x) = r[x]}
  <1>1. \A x \in DOMAIN p : /\ p[x] \in DOMAIN p /\ h[x] \in Nat
                            /\ p[x] # x => h[p[x]] < h[x]
    BY DEF Forest
  <1>2. \A x \in DOMAIN p : /\ p[x] = x => Root(p, x) = x
                            /\ Root(p, p[x]) = Root(p, x)
    BY RootRules
  <1>3. 0 \in T
    <2> SUFFICES ASSUME NEW x \in DOMAIN p, h[x] <= 0
                 PROVE  Root(p, x) = r[x]
      OBVIOUS
    <2>1. h[x] \in Nat /\ h[p[x]] \in Nat
      BY <1>1
    <2>2. p[x] = x
      BY <1>1, <2>1
    <2> QED
      BY <1>2, <2>2
  <1>4. ASSUME NEW n \in Nat, n \in T
        PROVE  n + 1 \in T
    <2> SUFFICES ASSUME NEW x \in DOMAIN p, h[x] <= n + 1
                 PROVE  Root(p, x) = r[x]
      OBVIOUS
    <2>1. CASE p[x] = x
      BY <1>2, <2>1
    <2>2. CASE p[x] # x
      <3>1. p[x] \in DOMAIN p /\ h[p[x]] <= n
        BY <1>1, <2>2
      <3> QED
        BY <1>2, <1>4, <2>2, <3>1
    <2> QED
      BY <2>1, <2>2
  <1> HIDE DEF T
  <1>5. Nat \subseteq T
    BY <1>3, <1>4, NatInd
  <1>6. ASSUME NEW x \in DOMAIN p
        PROVE  Root(p, x) = r[x]
    <2>1. h[x] \in T /\ h[x] \in Nat
      BY <1>1, <1>5
    <2> QED
      BY <2>1 DEF T
  <1> QED
    BY <1>6

\* find, of any node, changes no root: a node that is new is one of its own, and
\* the way that is walked becomes shorter.
LEMMA CompressedKeeps ==
  ASSUME NEW p, NEW h, Forest(p, h), NEW x
  PROVE  /\ DOMAIN Compressed(p, x) = DOMAIN p \cup {x}
         /\ \E g : Forest(Compressed(p, x), g)
         /\ \A y \in DOMAIN p : Root(Compressed(p, x), y) = Root(p, y)
         /\ x \notin DOMAIN p => Root(Compressed(p, x), x) = x
  <1> DEFINE D == DOMAIN p
             q == Compressed(p, x)
  <1>1. /\ IsFiniteSet(D) /\ p \in [D -> D] /\ h \in [D -> Nat]
        /\ \A y \in D : /\ p[y] = y => h[y] = 0
                        /\ p[y] # y => h[p[y]] < h[y]
                        /\ h[y] <= Cardinality(Linked(p))
    BY DEF Forest
  <1>2. \A y \in D : /\ Root(p, y) \in D /\ p[Root(p, y)] = Root(p, y)
                     /\ p[y] = y => Root(p, y) = y
                     /\ Root(p, p[y]) = Root(p, y)
    BY RootRules
  <1>3. q = [y \in D \cup {x} |-> IF y \in Range(Ascent(p, x)) THEN Root(p, x) ELSE p[y]]
    BY DEF Compressed
  <1>4. CASE x \in D
    <2>1. D \cup {x} = D
      BY <1>4
    <2>2. \A y \in Range(Ascent(p, x)) : y \in D /\ Root(p, y) = Root(p, x)
      BY <1>4, AscentRoots
    <2>3. ASSUME NEW y \in D
          PROVE  /\ q[y] = Root(p, y) \/ q[y] = p[y]
                 /\ q[y] \in D
                 /\ q[y] = y <=> p[y] = y
                 /\ q[y] # y => h[q[y]] < h[y]
                 /\ Root(p, q[y]) = Root(p, y)
      <3>1. q[y] = Root(p, y) \/ q[y] = p[y]
        BY <1>3, <2>1, <2>2
      <3>2. CASE q[y] = p[y]
        BY <1>1, <1>2, <3>1, <3>2
      <3>3. CASE q[y] = Root(p, y)
        <4>1. Root(p, Root(p, y)) = Root(p, y)
          BY <1>2
        <4>2. h[Root(p, y)] = 0
          BY <1>1, <1>2
        <4>3. p[y] # y => 0 < h[y]
          <5>1. p[y] \in D /\ h[p[y]] \in Nat /\ h[y] \in Nat
            BY <1>1
          <5> QED
            BY <1>1, <5>1
        <4> QED
          BY <1>2, <3>3, <4>1, <4>2, <4>3
      <3> QED
        BY <3>1, <3>2, <3>3
    <2>4. DOMAIN q = D /\ q \in [D -> D]
      BY <1>3, <2>1, <2>3
    <2>5. Linked(q) = Linked(p)
      BY <2>3, <2>4 DEF Linked
    <2> HIDE DEF q
    <2>6. Forest(q, h)
      BY <1>1, <2>3, <2>4, <2>5 DEF Forest
    <2> DEFINE r == [y \in D |-> Root(p, y)]
    <2>7. \A y \in DOMAIN q : /\ q[y] = y => r[y] = y
                              /\ q[y] # y => r[y] = r[q[y]]
      BY <1>2, <2>3, <2>4
    <2>8. \A y \in D : Root(q, y) = r[y]
      <3> HIDE DEF r
      <3> QED
        BY <2>4, <2>6, <2>7, RootUnique
    <2> QED
      BY <1>4, <2>1, <2>4, <2>6, <2>8 DEF q
  <1>5. CASE x \notin D
    <2> DEFINE N == Cardinality(D)
               up == Ascent(p, x)
               T == {n \in Nat : n <= N => up[n] = x}
    <2>1. /\ N \in Nat /\ DOMAIN up = 0 .. N /\ up[0] = x
          /\ \A k \in 1 .. N : up[k] = Parent(p, up[k - 1])
      <3>1. IsFiniteSet(D)
        BY <1>1
      <3> QED
        BY <3>1, AscentSteps
    <2> HIDE DEF N, up
    <2>2. 0 \in T
      BY <2>1
    <2>3. ASSUME NEW n \in Nat, n \in T
          PROVE  n + 1 \in T
      <3> SUFFICES ASSUME n + 1 <= N
                   PROVE  up[n + 1] = x
        OBVIOUS
      <3>1. up[n + 1] = Parent(p, up[n + 1 - 1]) /\ n + 1 - 1 = n /\ up[n] = x
        BY <2>1, <2>3
      <3> QED
        BY <1>5, <3>1 DEF Parent
    <2> HIDE DEF T
    <2>4. Nat \subseteq T
      BY <2>2, <2>3, NatInd
    <2>5. \A n \in 0 .. N : up[n] = x
      BY <2>1, <2>4 DEF T
    <2>6. Range(up) = {x} /\ Root(p, x) = x
      BY <2>1, <2>5 DEF Range, Root, up, N
    <2>7. q = [y \in D \cup {x} |-> IF y = x THEN x ELSE p[y]]
      BY <1>3, <2>6 DEF up
    <2> HIDE DEF q
    <2>8. /\ DOMAIN q = D \cup {x} /\ q[x] = x
          /\ \A y \in D : y # x /\ q[y] = p[y]
          /\ q \in [D \cup {x} -> D \cup {x}]
      BY <1>1, <1>5, <2>7
    <2>9. Linked(q) = Linked(p)
      BY <2>8 DEF Linked
    <2> DEFINE g == [y \in D \cup {x} |-> IF y = x THEN 0 ELSE h[y]]
    <2>10. /\ g \in [D \cup {x} -> Nat] /\ g[x] = 0
           /\ \A y \in D : g[y] = h[y]
      BY <1>1, <1>5
    <2>11. IsFiniteSet(D \cup {x})
      BY <1>1, FS_AddElement
    <2>12. Cardinality(Linked(p)) \in Nat
      BY <1>1, FS_Subset, FS_CardinalityType DEF Linked
    <2> HIDE DEF g
    <2>13. Forest(q, g)
      <3>1. ASSUME NEW y \in DOMAIN q
            PROVE  /\ q[y] = y => g[y] = 0
                   /\ q[y] # y => g[q[y]] < g[y]
                   /\ g[y] <= Cardinality(Linked(q))
        <4>1. CASE y = x
          BY <2>8, <2>9, <2>10, <2>12, <4>1
        <4>2. CASE y \in D
          <5>1. q[y] = p[y] /\ p[y] \in D
            BY <1>1, <2>8, <4>2
          <5> QED
            BY <1>1, <2>9, <2>10, <4>2, <5>1
        <4> QED
          BY <2>8, <4>1, <4>2
      <3> QED
        BY <2>8, <2>10, <2>11, <3>1 DEF Forest
    <2> DEFINE r == [y \in D \cup {x} |-> IF y = x THEN x ELSE Root(p, y)]
    <2>14. \A y \in DOMAIN q : /\ q[y] = y => r[y] = y
                               /\ q[y] # y => r[y] = r[q[y]]
      <3> TAKE y \in DOMAIN q
      <3>1. CASE y = x
        BY <2>8, <3>1
      <3>2. CASE y \in D
        <4>1. q[y] = p[y] /\ p[y] \in D /\ r[y] = Root(p, y) /\ r[p[y]] = Root(p, p[y])
          BY <1>1, <1>5, <2>8, <3>2
        <4> QED
          BY <1>2, <3>2, <4>1
      <3> QED
        BY <2>8, <3>1, <3>2
    <2>15. r[x] = x /\ \A y \in D : r[y] = Root(p, y)
      BY <1>5
    <2>16. \A y \in DOMAIN q : Root(q, y) = r[y]
      <3> HIDE DEF r
      <3> QED
        BY <2>13, <2>14, RootUnique
    <2> HIDE DEF r
    <2>17. \A y \in D : Root(q, y) = Root(p, y)
      BY <2>8, <2>15, <2>16
    <2> QED
      BY <2>8, <2>13, <2>15, <2>16, <2>17 DEF q
  <1> QED
    BY <1>4, <1>5

\* The root of a node that may be new.
RootOrOwn(p, x) == IF x \in DOMAIN p THEN Root(p, x) ELSE x

\* Linking two roots makes one class of theirs.
LinkedRoot(a, b, r) == IF r = a THEN b ELSE r

\* union: the classes of the two nodes become one, and all others stay.
LEMMA JoinKeeps ==
  ASSUME NEW p, NEW h, Forest(p, h), NEW a, NEW b
  PROVE  /\ DOMAIN Join(p, a, b) = DOMAIN p \cup {a, b}
         /\ \E g : Forest(Join(p, a, b), g)
         /\ \A y \in DOMAIN p \cup {a, b} :
              Root(Join(p, a, b), y)
                = LinkedRoot(RootOrOwn(p, a), RootOrOwn(p, b), RootOrOwn(p, y))
  <1> DEFINE p1 == Compressed(p, a)
             q == Compressed(p1, b)
             D == DOMAIN p \cup {a, b}
             ra == RootOrOwn(p, a)
             rb == RootOrOwn(p, b)
             j == Join(p, a, b)
  <1>1. PICK g1 : Forest(p1, g1)
    BY CompressedKeeps
  <1>2. /\ DOMAIN p1 = DOMAIN p \cup {a}
        /\ \A y \in DOMAIN p1 : Root(p1, y) = RootOrOwn(p, y)
    <2>1. /\ DOMAIN p1 = DOMAIN p \cup {a}
          /\ \A y \in DOMAIN p : Root(p1, y) = Root(p, y)
          /\ a \notin DOMAIN p => Root(p1, a) = a
      BY CompressedKeeps
    <2> HIDE DEF p1
    <2> QED
      BY <2>1 DEF RootOrOwn
  <1>3. \A y : RootOrOwn(p1, y) = RootOrOwn(p, y)
    <2> TAKE y
    <2>1. CASE y \in DOMAIN p1
      BY <1>2, <2>1 DEF RootOrOwn
    <2>2. CASE y \notin DOMAIN p1
      BY <1>2, <2>2 DEF RootOrOwn
    <2> QED
      BY <2>1, <2>2
  <1> HIDE DEF p1
  <1>4. PICK g2 : Forest(q, g2)
    BY <1>1, CompressedKeeps
  <1>5. /\ DOMAIN q = DOMAIN p1 \cup {b}
        /\ \A y \in DOMAIN q : Root(q, y) = RootOrOwn(p1, y)
    <2>1. /\ DOMAIN q = DOMAIN p1 \cup {b}
          /\ \A y \in DOMAIN p1 : Root(q, y) = Root(p1, y)
          /\ b \notin DOMAIN p1 => Root(q, b) = b
      BY <1>1, CompressedKeeps
    <2> HIDE DEF q
    <2> QED
      BY <2>1 DEF RootOrOwn
  <1>6. /\ DOMAIN q = D
        /\ \A y \in D : Root(q, y) = RootOrOwn(p, y)
    BY <1>2, <1>3, <1>5
  <1>7. j = IF Root(q, a) = Root(q, b) THEN q ELSE [q EXCEPT ![Root(q, a)] = Root(q, b)]
    BY DEF Join, p1
  <1>8. Root(q, a) = ra /\ Root(q, b) = rb
    BY <1>6
  <1> HIDE DEF q, ra, rb, j
  <1>9. CASE ra = rb
    <2>1. j = q
      BY <1>7, <1>8, <1>9
    <2>2. \A y \in D : Root(j, y) = LinkedRoot(ra, rb, RootOrOwn(p, y))
      BY <1>6, <1>9, <2>1 DEF LinkedRoot
    <2> QED
      BY <1>4, <1>6, <2>1, <2>2 DEF ra, rb, j
  <1>10. CASE ra # rb
    <2>1. j = [q EXCEPT ![ra] = rb]
      BY <1>7, <1>8, <1>10
    <2>2. /\ IsFiniteSet(D) /\ q \in [D -> D] /\ g2 \in [D -> Nat]
          /\ \A y \in D : /\ q[y] = y => g2[y] = 0
                          /\ q[y] # y => g2[q[y]] < g2[y]
                          /\ g2[y] <= Cardinality(Linked(q))
      BY <1>4, <1>6 DEF Forest
    <2>3. \A y \in D : /\ Root(q, y) \in D /\ q[Root(q, y)] = Root(q, y)
                       /\ q[y] = y => Root(q, y) = y
                       /\ Root(q, q[y]) = Root(q, y)
      BY <1>4, <1>6, RootRules
    <2>4. ra \in D /\ rb \in D /\ q[ra] = ra /\ q[rb] = rb
      BY <1>8, <2>3
    <2>5. Root(q, ra) = ra /\ Root(q, rb) = rb
      BY <2>3, <2>4
    <2>6. /\ DOMAIN j = D /\ j \in [D -> D] /\ j[ra] = rb
          /\ \A y \in D : y # ra => j[y] = q[y]
      BY <1>6, <2>1, <2>2, <2>4
    <2> HIDE DEF D
    <2>7. /\ Linked(j) = Linked(q) \cup {ra} /\ ra \notin Linked(q)
          /\ IsFiniteSet(Linked(q))
      BY <1>6, <1>10, <2>2, <2>4, <2>6, FS_Subset DEF Linked
    <2>8. /\ Cardinality(Linked(q)) \in Nat
          /\ Cardinality(Linked(j)) = Cardinality(Linked(q)) + 1
      BY <2>7, FS_AddElement, FS_CardinalityType
    <2> DEFINE g == [y \in D |-> IF Root(q, y) = ra THEN g2[y] + 1 ELSE g2[y]]
    <2>9. g \in [D -> Nat] /\ \A y \in D : g2[y] \in Nat
      BY <2>2
    <2>10. ASSUME NEW y \in D
           PROVE  /\ j[y] = y => g[y] = 0
                  /\ j[y] # y => g[j[y]] < g[y]
                  /\ g[y] <= Cardinality(Linked(j))
      <3>1. g[y] = (IF Root(q, y) = ra THEN g2[y] + 1 ELSE g2[y])
        OBVIOUS
      <3>2. g[y] <= Cardinality(Linked(j))
        BY <2>2, <2>8, <2>9, <3>1
      <3>3. CASE y = ra
        <4>1. g[rb] = g2[rb] /\ g2[rb] = 0
          BY <1>10, <2>2, <2>4, <2>5
        <4>2. g[y] = g2[y] + 1 /\ j[y] = rb /\ j[y] # y
          BY <1>10, <2>5, <2>6, <3>1, <3>3
        <4> QED
          BY <2>9, <3>2, <4>1, <4>2
      <3>4. CASE y # ra
        <4>1. j[y] = q[y] /\ q[y] \in D
          BY <2>2, <2>6, <3>4
        <4>2. g[q[y]] = IF Root(q, y) = ra THEN g2[q[y]] + 1 ELSE g2[q[y]]
          BY <2>3, <4>1
        <4>3. q[y] = y => Root(q, y) # ra
          BY <2>3, <3>4
        <4> QED
          BY <2>2, <2>9, <3>1, <3>2, <4>1, <4>2, <4>3
      <3> QED
        BY <3>3, <3>4
    <2> HIDE DEF g
    <2>11. Forest(j, g)
      BY <2>2, <2>6, <2>9, <2>10 DEF Forest
    <2> DEFINE r == [y \in D |-> LinkedRoot(ra, rb, Root(q, y))]
    <2>12. \A y \in DOMAIN j : /\ j[y] = y => r[y] = y
                               /\ j[y] # y => r[y] = r[j[y]]
      <3> SUFFICES ASSUME NEW y \in D
                   PROVE  /\ j[y] = y => r[y] = y
                          /\ j[y] # y => r[y] = r[j[y]]
        BY <2>6
      <3>1. CASE y = ra
        <4>1. j[y] = rb /\ r[y] = rb /\ r[rb] = rb
          BY <1>10, <2>4, <2>5, <2>6, <3>1 DEF LinkedRoot
        <4> QED
          BY <1>10, <3>1, <4>1
      <3>2. CASE y # ra
        <4>1. j[y] = q[y] /\ q[y] \in D
          BY <2>2, <2>6, <3>2
        <4>2. r[q[y]] = r[y]
          BY <2>3, <4>1
        <4>3. q[y] = y => r[y] = y
          BY <2>3, <3>2 DEF LinkedRoot
        <4> QED
          BY <4>1, <4>2, <4>3
      <3> QED
        BY <3>1, <3>2
    <2>13. \A y \in D : r[y] = LinkedRoot(ra, rb, RootOrOwn(p, y))
      BY <1>6 DEF D
    <2>14. \A y \in D : Root(j, y) = r[y]
      <3> HIDE DEF r
      <3> QED
        BY <2>6, <2>11, <2>12, RootUnique
    <2> HIDE DEF r
    <2>15. \A y \in D : Root(j, y) = LinkedRoot(ra, rb, RootOrOwn(p, y))
      BY <2>13, <2>14
    <2> QED
      BY <2>6, <2>11, <2>15 DEF ra, rb, j, D
  <1> QED
    BY <1>9, <1>10

\* What FlattenSeq builds up: the first n sequences in one.
Flattens(ss, f, n) == f = [i \in 1 .. n |-> IF i = 1 THEN ss[i] ELSE f[i - 1] \o ss[i]]

\* The definition of FlattenSeq has a solution.
LEMMA FlattensExist ==
  ASSUME NEW ss, NEW n \in Nat
  PROVE  \E f : Flattens(ss, f, n)
  <1> DEFINE T == {m \in Nat : \E f : Flattens(ss, f, m)}
  <1>1. 0 \in T
    <2> DEFINE f == [i \in 1 .. 0 |-> ss[i]]
    <2>1. f = [i \in 1 .. 0 |-> IF i = 1 THEN ss[i] ELSE f[i - 1] \o ss[i]]
      <3>1. 1 .. 0 = {}
        OBVIOUS
      <3> QED
        BY <3>1
    <2> HIDE DEF f
    <2>2. Flattens(ss, f, 0)
      BY <2>1 DEF Flattens
    <2> QED
      BY <2>2
  <1>2. ASSUME NEW m \in Nat, m \in T
        PROVE  m + 1 \in T
    <2>1. PICK f : Flattens(ss, f, m)
      BY <1>2
    <2> DEFINE last == IF m = 0 THEN ss[1] ELSE f[m] \o ss[m + 1]
               g == [i \in 1 .. m + 1 |-> IF i = m + 1 THEN last ELSE f[i]]
    <2>2. g = [i \in 1 .. m + 1 |-> IF i = m + 1 THEN last ELSE f[i]]
      OBVIOUS
    <2>3. f = [i \in 1 .. m |-> IF i = 1 THEN ss[i] ELSE f[i - 1] \o ss[i]]
      BY <2>1 DEF Flattens
    <2> HIDE DEF g
    <2>4. ASSUME NEW i \in 1 .. m + 1
          PROVE  g[i] = IF i = 1 THEN ss[i] ELSE g[i - 1] \o ss[i]
      <3>1. CASE i = m + 1
        <4>1. g[i] = last
          BY <2>2, <3>1
        <4>2. i # 1 => i - 1 = m /\ m # 0 /\ m \in 1 .. m + 1 /\ m # m + 1
          BY <3>1
        <4>3. i # 1 => g[i - 1] = f[m]
          BY <2>2, <4>2
        <4>4. i = 1 => m = 0
          BY <3>1
        <4> QED
          BY <3>1, <4>1, <4>2, <4>3, <4>4
      <3>2. CASE i # m + 1
        <4>1. i \in 1 .. m /\ g[i] = f[i]
          BY <2>2, <3>2
        <4>2. f[i] = IF i = 1 THEN ss[i] ELSE f[i - 1] \o ss[i]
          BY <2>3, <4>1
        <4>3. i # 1 => i - 1 \in 1 .. m + 1 /\ i - 1 # m + 1
          BY <4>1
        <4>4. i # 1 => g[i - 1] = f[i - 1]
          BY <2>2, <4>3
        <4> QED
          BY <4>1, <4>2, <4>4
      <3> QED
        BY <3>1, <3>2
    <2>5. g = [i \in 1 .. m + 1 |-> g[i]]
      BY <2>2
    <2>6. Flattens(ss, g, m + 1)
      BY <2>4, <2>5 DEF Flattens
    <2> QED
      BY <2>6
  <1> HIDE DEF T
  <1>3. Nat \subseteq T
    BY <1>1, <1>2, NatInd
  <1> QED
    BY <1>3 DEF T

\* Sequences over a set make one over it.
LEMMA FlattenKeeps ==
  ASSUME NEW S, NEW ss \in Seq(Seq(S))
  PROVE  FlattenSeq(ss) \in Seq(S)
  <1> DEFINE N == Len(ss)
             f == CHOOSE f : Flattens(ss, f, N)
  <1>1. N \in Nat /\ \A i \in 1 .. N : ss[i] \in Seq(S)
    OBVIOUS
  <1>2. CASE N = 0
    <2>1. ss = <<>>
      BY <1>2
    <2>2. FlattenSeq(ss) = ss
      BY <1>2 DEF FlattenSeq
    <2>3. <<>> \in Seq(S)
      OBVIOUS
    <2> HIDE DEF N
    <2> QED
      BY ONLY <2>1, <2>2, <2>3
  <1>3. CASE N # 0
    <2>1. Flattens(ss, f, N)
      BY <1>1, FlattensExist
    <2>2. FlattenSeq(ss) = f[N]
      BY <1>3 DEF FlattenSeq, Flattens
    <2> HIDE DEF f
    <2>3. f = [i \in 1 .. N |-> IF i = 1 THEN ss[i] ELSE f[i - 1] \o ss[i]]
      BY <2>1 DEF Flattens
    <2>4. \A i \in 1 .. N : f[i] = IF i = 1 THEN ss[i] ELSE f[i - 1] \o ss[i]
      BY <2>3
    <2> DEFINE T == {n \in Nat : n + 1 <= N => f[n + 1] \in Seq(S)}
    <2> HIDE DEF N
    <2>5. 0 \in T
      BY <1>1, <2>4
    <2>6. ASSUME NEW n \in Nat, n \in T
          PROVE  n + 1 \in T
      <3> SUFFICES ASSUME n + 2 <= N
                   PROVE  f[n + 2] \in Seq(S)
        OBVIOUS
      <3>1. f[n + 1] \in Seq(S) /\ ss[n + 2] \in Seq(S)
        BY <1>1, <2>6
      <3>2. PICK i \in 1 .. N : i = n + 2 /\ i # 1 /\ i - 1 = n + 1
        BY <1>1
      <3>3. f[i] = f[i - 1] \o ss[i]
        BY <2>4, <3>2
      <3> QED
        BY <3>1, <3>2, <3>3
    <2> HIDE DEF T
    <2>7. Nat \subseteq T
      BY <2>5, <2>6, NatInd
    <2>8. N - 1 \in T /\ N - 1 + 1 = N
      BY <1>1, <1>3, <2>7
    <2> QED
      BY <2>2, <2>8 DEF T
  <1> QED
    BY <1>2, <1>3

\* What is known while relationships are joined: every table scanned is a node,
\* the two ends of what was joined have one root, and nodes with one root are
\* on one side of every set that is closed under what was joined.
Clusters ==
  /\ cursor \in 1 .. Len(refs) + 1
  /\ Keys \subseteq DOMAIN parent /\ DOMAIN parent \subseteq Nodes
  /\ \E h : Forest(parent, h)
  /\ \A i \in 1 .. cursor - 1 :
       /\ refs[i].from \in DOMAIN parent /\ refs[i].to \in DOMAIN parent
       /\ Root(parent, refs[i].from) = Root(parent, refs[i].to)
  /\ \A S \in Closed(cursor - 1) : \A x, y \in DOMAIN parent :
       Root(parent, x) = Root(parent, y) /\ x \in S => y \in S

ClustersFound == {Component(k, Len(refs)) \cap Keys : k \in Keys}

GroupsInv ==
  /\ stage \in {"declared", "infer", "union", "diagnose", "rank"} => tables \in Scans
  /\ refs \in Seq(Range(refs))
  /\ stage \in {"declared", "infer", "union", "compare"} => groups = {}
  /\ stage = "union" => Clusters
  /\ groups = {} \/ groups = ClustersFound

\* While relationships are joined, the nodes with the root of k are those that
\* the relationships so far connect with it.
LEMMA ClassIsComponent ==
  ASSUME Clusters, NEW k \in Keys
  PROVE  {x \in DOMAIN parent : Root(parent, x) = Root(parent, k)}
           = Component(k, cursor - 1)
  <1> DEFINE E == {x \in DOMAIN parent : Root(parent, x) = Root(parent, k)}
  <1>1. k \in DOMAIN parent /\ k \in E
    BY DEF Clusters
  <1>2. E \in Closed(cursor - 1)
    <2>1. E \in SUBSET Nodes
      BY DEF Clusters
    <2>2. \A i \in 1 .. cursor - 1 : refs[i].from \in E <=> refs[i].to \in E
      BY DEF Clusters
    <2> HIDE DEF E
    <2> QED
      BY <2>1, <2>2 DEF Closed
  <1>3. ASSUME NEW x \in E
        PROVE  x \in Component(k, cursor - 1)
    <2>1. x \in Nodes
      BY DEF Clusters
    <2>2. \A S \in Closed(cursor - 1) : k \in S => x \in S
      BY <1>1 DEF Clusters
    <2> QED
      BY <2>1, <2>2 DEF Component
  <1>4. ASSUME NEW x \in Component(k, cursor - 1)
        PROVE  x \in E
    <2> HIDE DEF E
    <2> QED
      BY <1>1, <1>2 DEF Component
  <1> QED
    BY <1>3, <1>4

\* A relationship joins the two classes of its ends, and no others.
LEMMA UnionClusters ==
  ASSUME Clusters, refs \in Seq(Range(refs)), Union
  PROVE  Clusters'
  <1> DEFINE a == refs[cursor].from
             b == refs[cursor].to
             p == parent
             q == parent'
             ra == RootOrOwn(p, a)
             rb == RootOrOwn(p, b)
  <1>1. /\ cursor \in 1 .. Len(refs) /\ Len(refs) \in Nat
        /\ cursor' = cursor + 1 /\ q = Join(p, a, b)
        /\ UNCHANGED <<tables, refs>>
    BY DEF Union, Clusters
  <1>2. Keys' = Keys /\ Nodes' = Nodes /\ \A n : Closed(n)' = Closed(n)
    BY <1>1 DEF Keys, KeyOf, Nodes, Closed
  <1>3. PICK h : Forest(p, h)
    BY DEF Clusters
  <1>4. /\ DOMAIN q = DOMAIN p \cup {a, b}
        /\ \E g : Forest(q, g)
        /\ \A y \in DOMAIN q : Root(q, y) = LinkedRoot(ra, rb, RootOrOwn(p, y))
    <2>1. /\ DOMAIN Join(p, a, b) = DOMAIN p \cup {a, b}
          /\ \E g : Forest(Join(p, a, b), g)
          /\ \A y \in DOMAIN p \cup {a, b} : Root(Join(p, a, b), y)
                                              = LinkedRoot(ra, rb, RootOrOwn(p, y))
      BY <1>3, JoinKeeps
    <2>2. q = Join(p, a, b)
      BY <1>1
    <2> HIDE DEF p, q, ra, rb, a, b
    <2> QED
      BY <2>1, <2>2
  <1>5. a \in Nodes /\ b \in Nodes
    BY <1>1 DEF Nodes
  <1>6. a \in DOMAIN q /\ b \in DOMAIN q
    BY <1>4
  <1> HIDE DEF p, q, ra, rb, a, b
  <1>7. DOMAIN q \subseteq Nodes /\ Keys \subseteq DOMAIN q
    BY <1>4, <1>5 DEF Clusters, p
  <1>8. cursor' - 1 = cursor /\ cursor' \in 1 .. Len(refs) + 1
    BY <1>1
  <1>9. ASSUME NEW i \in 1 .. cursor
        PROVE  /\ refs[i].from \in DOMAIN q /\ refs[i].to \in DOMAIN q
               /\ Root(q, refs[i].from) = Root(q, refs[i].to)
    <2>1. CASE i = cursor
      BY <1>4, <1>6, <2>1 DEF LinkedRoot, ra, rb, a, b
    <2>2. CASE i # cursor
      <3>1. i \in 1 .. cursor - 1
        BY <1>1, <2>2
      <3>2. /\ refs[i].from \in DOMAIN p /\ refs[i].to \in DOMAIN p
            /\ Root(p, refs[i].from) = Root(p, refs[i].to)
        BY <3>1 DEF Clusters, p
      <3> QED
        BY <1>4, <3>2 DEF RootOrOwn
    <2> QED
      BY <2>1, <2>2
  <1>10. ASSUME NEW S \in Closed(cursor), NEW x \in DOMAIN q, NEW y \in DOMAIN q,
                Root(q, x) = Root(q, y), x \in S
         PROVE  y \in S
    <2>1. S \in Closed(cursor - 1) /\ (a \in S <=> b \in S)
      BY <1>1 DEF Closed, a, b
    <2>2. ASSUME NEW u \in DOMAIN q, NEW v \in DOMAIN q,
                 RootOrOwn(p, u) = RootOrOwn(p, v), u \in S
          PROVE  v \in S
      <3>1. \A w \in DOMAIN p : Root(p, w) \in DOMAIN p
        BY <1>3, RootRules
      <3>2. CASE u \in DOMAIN p
        <4>1. v \in DOMAIN p
          BY <2>2, <3>1, <3>2 DEF RootOrOwn
        <4> QED
          BY <2>1, <2>2, <3>2, <4>1 DEF RootOrOwn, Clusters, p
      <3>3. CASE u \notin DOMAIN p
        BY <2>2, <3>1, <3>3 DEF RootOrOwn
      <3> QED
        BY <3>2, <3>3
    <2>3. LinkedRoot(ra, rb, RootOrOwn(p, x)) = LinkedRoot(ra, rb, RootOrOwn(p, y))
      BY <1>4, <1>10
    <2>4. CASE RootOrOwn(p, x) = RootOrOwn(p, y)
      BY <1>10, <2>2, <2>4
    <2>5. CASE RootOrOwn(p, x) = ra /\ RootOrOwn(p, y) = rb
      <3>1. a \in S
        BY <1>6, <1>10, <2>2, <2>5 DEF ra
      <3> QED
        BY <1>6, <2>1, <2>2, <2>5, <3>1 DEF rb
    <2>6. CASE RootOrOwn(p, x) = rb /\ RootOrOwn(p, y) = ra
      <3>1. b \in S
        BY <1>6, <1>10, <2>2, <2>6 DEF rb
      <3> QED
        BY <1>6, <2>1, <2>2, <2>6, <3>1 DEF ra
    <2> QED
      BY <2>3, <2>4, <2>5, <2>6 DEF LinkedRoot
  <1> QED
    BY <1>1, <1>2, <1>4, <1>7, <1>8, <1>9, <1>10 DEF Clusters, q

\* At first every table is a class of its own.
LEMMA InferredClusters ==
  ASSUME tables \in Scans, refs \in Seq(Range(refs)), Inferred
  PROVE  Clusters'
  <1> DEFINE p == [k \in Keys |-> k]
  <1>1. /\ parent' = p /\ cursor' = 1 /\ UNCHANGED <<tables, refs>>
        /\ Len(refs) \in Nat
    BY DEF Inferred
  <1>2. Keys' = Keys /\ Nodes' = Nodes /\ \A n : Closed(n)' = Closed(n)
    BY <1>1 DEF Keys, KeyOf, Nodes, Closed
  <1>3. IsFiniteSet(Keys)
    <2>1. IsFiniteSet(1 .. Len(tables))
      <3>1. Len(tables) \in Nat
        BY ScansAssumption
      <3> QED
        BY <3>1, FS_Interval
    <2> DEFINE f == [i \in 1 .. Len(tables) |-> KeyOf(tables[i])]
    <2>2. Keys = {f[i] : i \in 1 .. Len(tables)}
      BY DEF Keys
    <2>3. f \in Surjection(1 .. Len(tables), Keys)
      BY <2>2 DEF Surjection
    <2> HIDE DEF f
    <2> QED
      BY <2>1, <2>3, FS_Surjection
  <1>4. /\ DOMAIN p = Keys /\ p \in [Keys -> Keys] /\ \A x \in Keys : p[x] = x
    OBVIOUS
  <1> HIDE DEF p
  <1>5. Linked(p) = {} /\ Cardinality(Linked(p)) = 0
    BY <1>4, FS_EmptySet DEF Linked
  <1> DEFINE h == [x \in Keys |-> 0]
  <1>6. Forest(p, h)
    BY <1>3, <1>4, <1>5 DEF Forest
  <1>7. \A x \in Keys : Root(p, x) = x
    BY <1>4, <1>6, RootRules
  <1>8. Keys \subseteq Nodes
    BY DEF Nodes
  <1> HIDE DEF h
  <1>9. \E g : Forest(p, g)
    BY <1>6
  <1>10. /\ cursor' \in 1 .. Len(refs') + 1
         /\ \A i \in 1 .. cursor' - 1 : FALSE
    BY <1>1
  <1>11. Keys \subseteq DOMAIN p /\ DOMAIN p \subseteq Nodes
    BY <1>4, <1>8
  <1>12. \A x, y \in DOMAIN p : Root(p, x) = Root(p, y) => x = y
    BY <1>4, <1>7
  <1> QED
    BY <1>1, <1>2, <1>9, <1>10, <1>11, <1>12 DEF Clusters

\* A component depends on nothing but the tables and the relationships.
LEMMA ComponentKept ==
  ASSUME UNCHANGED <<tables, refs>>
  PROVE  /\ Keys' = Keys /\ ClustersFound' = ClustersFound
         /\ \A k, n : Component(k, n)' = Component(k, n)
  <1>1. Keys' = Keys
    BY DEF Keys, KeyOf
  <1>2. Nodes' = Nodes
    BY <1>1 DEF Nodes
  <1>3. \A n : Closed(n)' = Closed(n)
    BY <1>2 DEF Closed
  <1>4. \A k, n : Component(k, n)' = Component(k, n)
    BY <1>2, <1>3 DEF Component
  <1> QED
    BY <1>1, <1>4 DEF ClustersFound

\* The declared keys of a scan are a list, each from a table of the scan.
LEMMA DeclaredList ==
  ASSUME tables \in Scans, Declared
  PROVE  refs' \in Seq(Range(refs')) /\ \A i \in 1 .. Len(refs') : refs'[i].from \in Keys
  <1> DEFINE S == UNION {Range(DeclaredOf(tables[i])) : i \in 1 .. Len(tables)}
             ss == [i \in 1 .. Len(tables) |-> DeclaredOf(tables[i])]
  <1>1. Len(tables) \in Nat
    BY ScansAssumption
  <1>2. ASSUME NEW i \in 1 .. Len(tables)
        PROVE  DeclaredOf(tables[i]) \in Seq(S)
    <2>1. tables[i] \in Range(tables)
      BY <1>1, ScansAssumption DEF Range
    <2>2. Len(tables[i].fks) \in Nat
      BY <2>1, ScansAssumption
    <2> DEFINE d == DeclaredOf(tables[i])
    <2>3. DOMAIN d = 1 .. Len(tables[i].fks)
      BY DEF DeclaredOf
    <2>4. d = [n \in 1 .. Len(tables[i].fks) |-> d[n]]
      BY DEF DeclaredOf
    <2>5. \A n \in DOMAIN d : d[n] \in S
      BY DEF Range
    <2> HIDE DEF d, S
    <2>6. d \in [1 .. Len(tables[i].fks) -> S]
      BY <2>3, <2>4, <2>5
    <2>7. d \in Seq(S)
      BY <2>2, <2>6
    <2> QED
      BY <2>7 DEF d
  <1>3. \A x \in S : x.from \in Keys
    <2>1. ASSUME NEW i \in 1 .. Len(tables), NEW x \in Range(DeclaredOf(tables[i]))
          PROVE  x.from = KeyOf(tables[i])
      <3>1. PICK n \in DOMAIN DeclaredOf(tables[i]) : x = DeclaredOf(tables[i])[n]
        BY DEF Range
      <3> QED
        BY <3>1 DEF DeclaredOf, Ref
    <2>2. \A i \in 1 .. Len(tables) : KeyOf(tables[i]) \in Keys
      BY DEF Keys
    <2> QED
      BY <2>1, <2>2
  <1> HIDE DEF S
  <1>4. ss \in Seq(Seq(S))
    BY <1>1, <1>2
  <1>5. refs' = FlattenSeq(ss)
    BY DEF Declared
  <1> HIDE DEF ss
  <1>6. refs' \in Seq(S)
    BY <1>4, <1>5, FlattenKeeps
  <1> QED
    BY <1>3, <1>6 DEF Range

\* The groups are found once every relationship has been joined.
LEMMA GroupFinds ==
  ASSUME Clusters, refs \in Seq(Range(refs)), Group
  PROVE  groups' = ClustersFound
  <1>1. /\ cursor > Len(refs)
        /\ groups' = {{k \in Keys : Root(parent, k) = r} : r \in {Root(parent, k) : k \in Keys}}
    BY DEF Group
  <1>2. Len(refs) \in Nat /\ cursor \in 1 .. Len(refs) + 1
    BY DEF Clusters
  <1>3. cursor - 1 = Len(refs)
    BY <1>1, <1>2
  <1>4. Keys \subseteq DOMAIN parent
    BY DEF Clusters
  <1>5. ASSUME NEW k \in Keys
        PROVE  {x \in Keys : Root(parent, x) = Root(parent, k)}
                 = Component(k, Len(refs)) \cap Keys
    <2>1. {x \in DOMAIN parent : Root(parent, x) = Root(parent, k)} = Component(k, Len(refs))
      BY <1>3, ClassIsComponent
    <2> QED
      BY <1>4, <2>1
  <1> HIDE DEF Clusters
  <1>6. groups' = {{x \in Keys : Root(parent, x) = Root(parent, k)} : k \in Keys}
    BY <1>1
  <1> QED
    BY <1>5, <1>6 DEF ClustersFound

\* A scan starts without relationships and groups.
LEMMA ScannedGroups == Scanned => GroupsInv
  BY DEF Scanned, GroupsInv, Range

\* Every step of the analysis keeps the groups and the classes they come from.
LEMMA AnalyseGroups == GroupsInv /\ [Analyse]_analysis => GroupsInv'
  <1> SUFFICES ASSUME GroupsInv, [Analyse]_analysis
               PROVE  GroupsInv'
    OBVIOUS
  <1>1. refs \in Seq(Range(refs))
    BY DEF GroupsInv
  <1>2. CASE UNCHANGED analysis
    <2>1. /\ UNCHANGED <<tables, refs, stage, groups, cursor, parent>>
      BY <1>2 DEF analysis, analysed
    <2>2. Clusters' = Clusters
      <3>1. Keys' = Keys /\ Nodes' = Nodes /\ \A n : Closed(n)' = Closed(n)
        BY <2>1 DEF Keys, KeyOf, Nodes, Closed
      <3> QED
        BY <2>1, <3>1 DEF Clusters
    <2> QED
      BY <2>1, <2>2, ComponentKept DEF GroupsInv
  <1>3. CASE Declared
    <2>1. /\ tables \in Scans /\ tables' = tables /\ stage' = "infer"
          /\ groups' = {}
      BY <1>3 DEF Declared, GroupsInv
    <2> QED
      BY <1>3, <2>1, DeclaredList DEF GroupsInv
  <1>4. CASE InferColumn
    <2>1. /\ tables \in Scans /\ tables' = tables /\ stage' = "infer"
          /\ groups' = {}
      BY <1>4 DEF InferColumn, GroupsInv
    <2>2. refs' = refs \/ \E r : refs' = Append(refs, r)
      BY <1>4 DEF InferColumn
    <2>3. refs' \in Seq(Range(refs'))
      <3>1. CASE refs' = refs
        BY <1>1, <3>1
      <3>2. CASE \E r : refs' = Append(refs, r)
        <4>1. PICK r : refs' = Append(refs, r)
          BY <3>2
        <4>2. refs' \in Seq(Range(refs) \cup {r})
          BY <1>1, <4>1
        <4> QED
          BY <4>2 DEF Range
      <3> QED
        BY <2>2, <3>1, <3>2
    <2> QED
      BY <2>1, <2>3 DEF GroupsInv
  <1>5. CASE Inferred
    <2>1. /\ tables \in Scans /\ stage' = "union" /\ groups' = {}
          /\ UNCHANGED <<tables, refs>>
      BY <1>5 DEF Inferred, GroupsInv
    <2> QED
      BY <1>1, <1>5, <2>1, InferredClusters DEF GroupsInv
  <1>6. CASE Union
    <2>1. /\ tables \in Scans /\ stage' = "union" /\ groups' = {} /\ Clusters
          /\ UNCHANGED <<tables, refs>>
      BY <1>6 DEF Union, GroupsInv
    <2> QED
      BY <1>1, <1>6, <2>1, UnionClusters DEF GroupsInv
  <1>7. CASE Group
    <2>1. /\ tables \in Scans /\ stage' = "diagnose" /\ Clusters
          /\ UNCHANGED <<tables, refs>>
      BY <1>7 DEF Group, GroupsInv
    <2>2. groups' = ClustersFound
      BY <1>1, <1>7, <2>1, GroupFinds
    <2> QED
      BY <1>1, <2>1, <2>2, ComponentKept DEF GroupsInv
  <1>8. CASE Diagnose \/ Rank \/ WriteContext
    <2>1. /\ UNCHANGED <<tables, refs, groups>>
          /\ stage \in {"diagnose", "rank", "report"}
          /\ stage' \in {"rank", "report", "done"}
          /\ stage' = "rank" => stage = "diagnose"
      BY <1>8 DEF Diagnose, Rank, WriteContext
    <2> QED
      BY <1>1, <2>1, ComponentKept DEF GroupsInv
  <1>9. CASE Compare
    <2>1. UNCHANGED <<tables, refs, groups>> /\ stage' = "done" /\ groups = {}
      BY <1>9 DEF Compare, analysed, GroupsInv
    <2> QED
      BY <1>1, <2>1 DEF GroupsInv
  <1> QED
    BY <1>2, <1>3, <1>4, <1>5, <1>6, <1>7, <1>8, <1>9 DEF Analyse

\* After every relationship two nodes have one root exactly if the relationships
\* so far connect them, and the groups are these classes.
THEOREM GroupsAlwaysConnect == Analysing => []GroupsConnect
  <1>1. GroupsInv => GroupsConnect
    <2> SUFFICES ASSUME GroupsInv
                 PROVE  GroupsConnect
      OBVIOUS
    <2>1. stage = "union" => \A k \in Keys :
            {x \in DOMAIN parent : Root(parent, x) = Root(parent, k)}
              = Component(k, cursor - 1)
      BY ClassIsComponent DEF GroupsInv
    <2> QED
      BY <2>1 DEF GroupsInv, GroupsConnect, ClustersFound
  <1> QED
    BY <1>1, ScannedGroups, AnalyseGroups, PTL DEF Analysing

\* One of a row of numbers is greatest.
LEMMA GreatestOfRow ==
  ASSUME NEW n \in Nat, n > 0, NEW f \in [1 .. n -> Int]
  PROVE  \E i \in 1 .. n : \A j \in 1 .. n : f[j] <= f[i]
  <1> DEFINE T == {m \in Nat : m \in 1 .. n => \E i \in 1 .. m : \A j \in 1 .. m : f[j] <= f[i]}
  <1>1. ASSUME NEW m \in Nat, m \in T
        PROVE  m + 1 \in T
    <2> SUFFICES ASSUME m + 1 \in 1 .. n
                 PROVE  \E i \in 1 .. m + 1 : \A j \in 1 .. m + 1 : f[j] <= f[i]
      OBVIOUS
    <2>1. \A j \in 1 .. m + 1 : f[j] \in Int /\ (j \in 1 .. m \/ j = m + 1)
      OBVIOUS
    <2>2. CASE m = 0
      BY <2>1, <2>2
    <2>3. CASE m > 0
      <3>1. PICK i \in 1 .. m : \A j \in 1 .. m : f[j] <= f[i]
        BY <1>1, <2>3
      <3>2. CASE f[i] <= f[m + 1]
        <4>1. \A j \in 1 .. m + 1 : f[j] <= f[m + 1]
          BY <2>1, <3>1, <3>2
        <4> QED
          BY <4>1
      <3>3. CASE f[m + 1] <= f[i]
        <4>1. \A j \in 1 .. m + 1 : f[j] <= f[i]
          BY <2>1, <3>1, <3>3
        <4> QED
          BY <3>1, <4>1
      <3> QED
        BY <2>1, <3>1, <3>2, <3>3
    <2> QED
      BY <2>2, <2>3
  <1>2. 0 \in T
    OBVIOUS
  <1> HIDE DEF T
  <1>3. Nat \subseteq T
    BY <1>1, <1>2, NatInd
  <1>4. n \in T
    BY <1>3
  <1> QED
    BY <1>4 DEF T

\* Most is 1 or one of the counts, and none is more.
LEMMA MostBounds ==
  ASSUME NEW n \in Nat, NEW f \in [1 .. n -> Int]
  PROVE  LET most == Most({f[i] : i \in 1 .. n})
         IN  /\ most \in Nat /\ most >= 1
             /\ most = 1 \/ \E i \in 1 .. n : most = f[i]
             /\ \A i \in 1 .. n : f[i] <= most
  <1> DEFINE S == {1} \cup {f[i] : i \in 1 .. n}
  <1>1. \E x \in S : \A y \in S : x >= y
    <2>1. CASE n = 0
      BY <2>1
    <2>2. CASE n > 0
      <3>1. PICK i \in 1 .. n : \A j \in 1 .. n : f[j] <= f[i]
        BY <2>2, GreatestOfRow
      <3>2. f[i] \in Int /\ f[i] \in S /\ 1 \in S
        OBVIOUS
      <3>3. CASE f[i] >= 1
        <4>1. \A y \in S : f[i] >= y
          BY <3>1, <3>2, <3>3
        <4> QED
          BY <3>2, <4>1
      <3>4. CASE f[i] < 1
        <4>1. \A y \in S : 1 >= y
          BY <3>1, <3>2, <3>4
        <4> QED
          BY <3>2, <4>1
      <3> QED
        BY <3>2, <3>3, <3>4
    <2> QED
      BY <2>1, <2>2
  <1> DEFINE m == CHOOSE x \in S : \A y \in S : x >= y
  <1>2. m \in S /\ \A y \in S : m >= y
    BY <1>1
  <1>3. Most({f[i] : i \in 1 .. n}) = m
    BY DEF Most, Max
  <1> HIDE DEF m
  <1>4. \A x \in S : x \in Int
    OBVIOUS
  <1>5. m \in Int /\ m >= 1 /\ \A i \in 1 .. n : f[i] <= m
    <2>1. 1 \in S /\ \A i \in 1 .. n : f[i] \in S
      OBVIOUS
    <2> HIDE DEF S
    <2> QED
      BY <1>2, <1>4, <2>1
  <1>6. m = 1 \/ \E i \in 1 .. n : m = f[i]
    BY <1>2
  <1>7. m \in Nat
    BY <1>5
  <1> HIDE DEF S
  <1> QED
    BY <1>3, <1>5, <1>6, <1>7

\* The factors of a table, all natural numbers.
FactorsType ==
  [graph_degree : Nat, fk_centrality : Nat, row_count : Nat, index_density : Nat,
   write_intensity : Nat, query_frequency : Nat]

\* Division of a natural number rounds down and keeps the order.
LEMMA DivisionKeeps ==
  ASSUME NEW a \in Nat, NEW b \in Nat, NEW d \in Nat \ {0}
  PROVE  a \div d \in Nat /\ (a <= b => a \div d <= b \div d)
  OBVIOUS

\* Degrees count relationships.
LEMMA DegreeIsNatural ==
  ASSUME refs \in Seq(Range(refs)), NEW k
  PROVE  FKCount(k) \in Nat /\ Degree(k) \in Nat
  <1>1. Len(refs) \in Nat
    OBVIOUS
  <1>2. IsFiniteSet(1 .. Len(refs))
    BY <1>1, FS_Interval
  <1>3. \A K \in SUBSET (1 .. Len(refs)) : Cardinality(K) \in Nat
    BY <1>2, FS_Subset, FS_CardinalityType
  <1>4. FKCount(k) \in Nat
    BY <1>3 DEF FKCount
  <1>5. Cardinality({i \in 1 .. Len(refs) : refs[i].from = k}) \in Nat
    BY <1>3
  <1> QED
    BY <1>4, <1>5 DEF Degree

\* What a ratio to the greatest count needs: the tables are a list, so Most
\* has a value.
LEMMA MostOfTables ==
  ASSUME tables \in Scans, NEW f \in [Range(tables) -> Int]
  PROVE  /\ Most({f[u] : u \in Range(tables)}) \in Nat \ {0}
         /\ \/ Most({f[u] : u \in Range(tables)}) = 1
            \/ \E u \in Range(tables) : Most({f[v] : v \in Range(tables)}) = f[u]
         /\ \A u \in Range(tables) : f[u] <= Most({f[v] : v \in Range(tables)})
  <1> DEFINE n == Len(tables)
             g == [i \in 1 .. n |-> f[tables[i]]]
  <1>1. tables \in Seq(Range(tables)) /\ n \in Nat
    BY ScansAssumption
  <1>2. Range(tables) = {tables[i] : i \in 1 .. n}
    BY <1>1 DEF Range
  <1>3. g \in [1 .. n -> Int]
    BY <1>2
  <1>4. {f[u] : u \in Range(tables)} = {g[i] : i \in 1 .. n}
    BY <1>2
  <1>5. \A u \in Range(tables) : \E i \in 1 .. n : f[u] = g[i]
    BY <1>2
  <1>6. \A i \in 1 .. n : \E u \in Range(tables) : f[u] = g[i]
    BY <1>2
  <1> HIDE DEF g, n
  <1>7. LET most == Most({g[i] : i \in 1 .. n})
        IN  /\ most \in Nat /\ most >= 1
            /\ most = 1 \/ \E i \in 1 .. n : most = g[i]
            /\ \A i \in 1 .. n : g[i] <= most
    BY <1>1, <1>3, MostBounds
  <1> DEFINE most == Most({f[u] : u \in Range(tables)})
  <1>8. /\ most \in Nat /\ most >= 1
        /\ most = 1 \/ \E i \in 1 .. n : most = g[i]
        /\ \A i \in 1 .. n : g[i] <= most
    BY <1>4, <1>7
  <1> HIDE DEF most
  <1>9. most \in Nat \ {0}
    BY <1>8
  <1>10. most = 1 \/ \E u \in Range(tables) : most = f[u]
    BY <1>6, <1>8
  <1>11. \A u \in Range(tables) : f[u] <= most
    BY <1>5, <1>8
  <1> QED
    BY <1>9, <1>10, <1>11 DEF most

\* The row counts are compared by their magnitudes.
LEMMA LogNormIsNatural ==
  ASSUME tables \in Scans, NEW t \in Range(tables)
  PROVE  LogNorm(t.rows, Most({u.rows : u \in Range(tables)})) \in Nat
  <1> DEFINE f == [u \in Range(tables) |-> u.rows]
             most == Most({u.rows : u \in Range(tables)})
  <1>1. f \in [Range(tables) -> Int]
    BY ScansAssumption
  <1>2. {u.rows : u \in Range(tables)} = {f[u] : u \in Range(tables)}
    OBVIOUS
  <1>3. \A u \in Range(tables) : f[u] = u.rows
    OBVIOUS
  <1> HIDE DEF f
  <1>4. /\ most \in Nat \ {0}
        /\ most = 1 \/ \E u \in Range(tables) : most = u.rows
        /\ t.rows <= most
    BY <1>1, <1>2, <1>3, MostOfTables
  <1>5. CASE t.rows <= 0
    BY <1>5 DEF LogNorm
  <1>6. CASE ~ (t.rows <= 0)
    <2>1. t.rows \in Int /\ t.rows >= 1
      BY <1>6, ScansAssumption
    <2>2. most \in DOMAIN Magnitude /\ t.rows \in DOMAIN Magnitude
      <3> HIDE DEF most
      <3>1. CASE most = 1
        BY <1>4, <2>1, <3>1, ScansAssumption
      <3>2. CASE \E u \in Range(tables) : most = u.rows
        BY <1>4, <2>1, <3>2, ScansAssumption
      <3> QED
        BY <1>4, <2>1, <3>1, <3>2, ScansAssumption
    <2>3. Magnitude[most] \in Nat \ {0} /\ Magnitude[t.rows] \in Nat
      BY <1>4, <2>2, NormAssumption
    <2>4. 1000 * Magnitude[t.rows] \in Nat
      BY <2>3
    <2>5. (1000 * Magnitude[t.rows]) \div Magnitude[most] \in Nat
      BY <2>3, <2>4, DivisionKeeps
    <2> HIDE DEF most
    <2>6. LogNorm(t.rows, most) \in Nat
      BY <1>6, <2>5 DEF LogNorm
    <2> QED
      BY <2>6 DEF most
  <1> QED
    BY <1>5, <1>6

\* Every factor of a table that was scanned is a natural number.
LEMMA FactorsAreNatural ==
  ASSUME tables \in Scans, refs \in Seq(Range(refs)), NEW t \in Range(tables)
  PROVE  Factors(t) \in FactorsType
  <1> DEFINE degree == [u \in Range(tables) |-> Degree(KeyOf(u))]
             named == [u \in Range(tables) |-> FKCount(KeyOf(u))]
  <1>1. /\ t.columns \in Seq(Range(t.columns)) /\ t.indexes \in Seq(Range(t.indexes))
        /\ t.writes \in Nat /\ t.queries \in DOMAIN QueryNorm
    BY ScansAssumption
  <1>2. Factors(t).graph_degree \in Nat
    <2>1. degree \in [Range(tables) -> Int]
      BY DegreeIsNatural
    <2>2. {Degree(KeyOf(u)) : u \in Range(tables)} = {degree[u] : u \in Range(tables)}
      OBVIOUS
    <2> HIDE DEF degree
    <2>3. Most({Degree(KeyOf(u)) : u \in Range(tables)}) \in Nat \ {0}
      BY <2>1, <2>2, MostOfTables
    <2>4. Degree(KeyOf(t)) \in Nat
      BY DegreeIsNatural
    <2>5. 1000 * Degree(KeyOf(t)) \in Nat
      BY <2>4
    <2>6. (1000 * Degree(KeyOf(t))) \div Most({Degree(KeyOf(u)) : u \in Range(tables)}) \in Nat
      BY <2>3, <2>5, DivisionKeeps
    <2> QED
      BY <2>6 DEF Factors
  <1>3. Factors(t).fk_centrality \in Nat
    <2>1. named \in [Range(tables) -> Int]
      BY DegreeIsNatural
    <2>2. {FKCount(KeyOf(u)) : u \in Range(tables)} = {named[u] : u \in Range(tables)}
      OBVIOUS
    <2> HIDE DEF named
    <2>3. Most({FKCount(KeyOf(u)) : u \in Range(tables)}) \in Nat \ {0}
      BY <2>1, <2>2, MostOfTables
    <2>4. FKCount(KeyOf(t)) \in Nat
      BY DegreeIsNatural
    <2>5. 1000 * FKCount(KeyOf(t)) \in Nat
      BY <2>4
    <2>6. (1000 * FKCount(KeyOf(t))) \div Most({FKCount(KeyOf(u)) : u \in Range(tables)}) \in Nat
      BY <2>3, <2>5, DivisionKeeps
    <2> QED
      BY <2>6 DEF Factors
  <1>4. Factors(t).row_count \in Nat
    BY LogNormIsNatural DEF Factors
  <1>5. Factors(t).index_density \in Nat
    <2>1. CASE t.columns = <<>>
      BY <2>1 DEF Factors
    <2>2. CASE t.columns # <<>>
      <3> DEFINE xs == 1000 * Len(t.indexes)
                 cols == Len(t.columns)
      <3>1. xs \in Nat /\ cols \in Nat \ {0}
        BY <1>1, <2>2
      <3>2. Factors(t).index_density = Least(1000, xs \div cols)
        BY <2>2 DEF Factors
      <3> HIDE DEF xs, cols
      <3>3. xs \div cols \in Nat
        BY <3>1, DivisionKeeps
      <3> QED
        BY <3>2, <3>3 DEF Least
    <2> QED
      BY <2>1, <2>2
  <1>6. Factors(t).write_intensity \in Nat
    <2>1. 1000 * t.writes \in Nat /\ t.writes + 1 \in Nat \ {0}
      BY <1>1
    <2>2. (1000 * t.writes) \div (t.writes + 1) \in Nat
      BY <2>1, DivisionKeeps
    <2> QED
      BY <2>2 DEF Factors
  <1>7. Factors(t).query_frequency \in Nat
    BY <1>1, NormAssumption DEF Factors
  <1>8. Factors(t) = [graph_degree |-> Factors(t).graph_degree,
                      fk_centrality |-> Factors(t).fk_centrality,
                      row_count |-> Factors(t).row_count,
                      index_density |-> Factors(t).index_density,
                      write_intensity |-> Factors(t).write_intensity,
                      query_frequency |-> Factors(t).query_frequency]
    BY DEF Factors
  <1> QED
    BY <1>2, <1>3, <1>4, <1>5, <1>6, <1>7, <1>8 DEF FactorsType

\* The sum of the weighted factors, written out.
WeightedSum(f, w, q) ==
  30 * f.graph_degree + 30 * f.fk_centrality + 18 * f.row_count + 7 * f.index_density
    + w * f.write_intensity + q * f.query_frequency

\* The weights are the default ones, less those of a statistic there is none of.
LEMMA WeightsAre ==
  ASSUME NEW w, w = Weight.write_intensity, NEW q, q = Weight.query_frequency
  PROVE  /\ w \in {0, 10} /\ q \in {0, 5} /\ Total(Weight) = 85 + w + q
         /\ \A f \in FactorsType :
              /\ Weighted(f) = WeightedSum(f, w, q) /\ Weighted(f) \in Nat
              /\ f.graph_degree \in Nat /\ f.fk_centrality \in Nat /\ f.row_count \in Nat
              /\ f.index_density \in Nat /\ f.write_intensity \in Nat
              /\ f.query_frequency \in Nat
  <1>1. w \in {0, 10} /\ q \in {0, 5}
    BY DEF Weight
  <1>2. /\ Weight.graph_degree = 30 /\ Weight.fk_centrality = 30 /\ Weight.row_count = 18
        /\ Weight.index_density = 7
        /\ DOMAIN Weight = {"graph_degree", "fk_centrality", "row_count", "index_density",
                            "write_intensity", "query_frequency"}
    BY DEF Weight
  <1>3. Total(Weight) = 85 + w + q
    BY <1>1, <1>2 DEF Total
  <1>4. ASSUME NEW f \in FactorsType
        PROVE  /\ Weighted(f) = WeightedSum(f, w, q) /\ Weighted(f) \in Nat
               /\ f.graph_degree \in Nat /\ f.fk_centrality \in Nat /\ f.row_count \in Nat
               /\ f.index_density \in Nat /\ f.write_intensity \in Nat
               /\ f.query_frequency \in Nat
    <2>1. /\ f.graph_degree \in Nat /\ f.fk_centrality \in Nat /\ f.row_count \in Nat
          /\ f.index_density \in Nat /\ f.write_intensity \in Nat
          /\ f.query_frequency \in Nat
      BY DEF FactorsType
    <2>2. Weighted(f) = WeightedSum(f, w, q)
      BY <1>2 DEF Weighted, Total, WeightedSum
    <2>3. WeightedSum(f, w, q) \in Nat
      BY <1>1, <2>1 DEF WeightedSum
    <2> QED
      BY <2>1, <2>2, <2>3
  <1> QED
    BY <1>1, <1>3, <1>4

\* A score is at most the full one, follows the factors, and is full when every
\* factor with a weight is.
LEMMA ScoreFollows ==
  ASSUME NEW f \in FactorsType, NEW g \in FactorsType
  PROVE  /\ Score(f) \in 0 .. 1000
         /\ (\A d \in DOMAIN f : f[d] >= g[d]) => Score(f) >= Score(g)
         /\ (\A d \in DOMAIN f : Weight[d] > 0 => f[d] = 1000) => Score(f) = 1000
  <1> DEFINE w == Weight.write_intensity
             q == Weight.query_frequency
             total == Total(Weight)
  <1>1. w \in {0, 10} /\ q \in {0, 5} /\ total = 85 + w + q
    BY WeightsAre
  <1>2. ASSUME NEW h \in FactorsType
        PROVE  /\ Weighted(h) = WeightedSum(h, w, q) /\ Weighted(h) \in Nat
               /\ h.graph_degree \in Nat /\ h.fk_centrality \in Nat /\ h.row_count \in Nat
               /\ h.index_density \in Nat /\ h.write_intensity \in Nat
               /\ h.query_frequency \in Nat
    BY WeightsAre
  <1>3. /\ DOMAIN f = {"graph_degree", "fk_centrality", "row_count", "index_density",
                       "write_intensity", "query_frequency"}
        /\ Weight.graph_degree = 30 /\ Weight.fk_centrality = 30 /\ Weight.row_count = 18
        /\ Weight.index_density = 7
    BY DEF FactorsType, Weight
  <1> HIDE DEF w, q, total
  <1>4. total \in Nat \ {0}
    BY <1>1
  <1>5. \A h \in FactorsType :
          Score(h) = Least(1000, Weighted(h) \div total) /\ Weighted(h) \div total \in Nat
    <2>1. ASSUME NEW h \in FactorsType
          PROVE  Weighted(h) \div total \in Nat
      BY <1>2, <1>4, DivisionKeeps
    <2> QED
      BY <2>1 DEF Score, total
  <1>6. Score(f) \in 0 .. 1000
    <2>1. Weighted(f) \div total \in Nat
      BY <1>5
    <2>2. Least(1000, Weighted(f) \div total) \in 0 .. 1000
      BY <2>1 DEF Least
    <2> QED
      BY <1>5, <2>2
  <1>7. ASSUME \A d \in DOMAIN f : f[d] >= g[d]
        PROVE  Score(f) >= Score(g)
    <2>1. /\ f.graph_degree >= g.graph_degree /\ f.fk_centrality >= g.fk_centrality
          /\ f.row_count >= g.row_count /\ f.index_density >= g.index_density
          /\ f.write_intensity >= g.write_intensity /\ f.query_frequency >= g.query_frequency
      BY <1>3, <1>7
    <2>2. w * f.write_intensity >= w * g.write_intensity
      BY <1>1, <1>2, <2>1
    <2>3. q * f.query_frequency >= q * g.query_frequency
      BY <1>1, <1>2, <2>1
    <2>4. /\ w * f.write_intensity \in Nat /\ w * g.write_intensity \in Nat
          /\ q * f.query_frequency \in Nat /\ q * g.query_frequency \in Nat
      BY <1>1, <1>2
    <2>5. WeightedSum(g, w, q) <= WeightedSum(f, w, q)
      BY <1>2, <2>1, <2>2, <2>3, <2>4 DEF WeightedSum
    <2>6. Weighted(g) <= Weighted(f) /\ Weighted(f) \in Nat /\ Weighted(g) \in Nat
      BY <1>2, <2>5
    <2>7. Weighted(g) \div total <= Weighted(f) \div total
      BY <1>4, <2>6, DivisionKeeps
    <2>8. Weighted(g) \div total \in Nat /\ Weighted(f) \div total \in Nat
      BY <1>5
    <2>9. Least(1000, Weighted(f) \div total) >= Least(1000, Weighted(g) \div total)
      BY <2>7, <2>8 DEF Least
    <2> QED
      BY <1>5, <2>9
  <1>8. ASSUME \A d \in DOMAIN f : Weight[d] > 0 => f[d] = 1000
        PROVE  Score(f) = 1000
    <2>1. /\ f.graph_degree = 1000 /\ f.fk_centrality = 1000 /\ f.row_count = 1000
          /\ f.index_density = 1000
      BY <1>3, <1>8
    <2>2. w * f.write_intensity = 1000 * w
      <3>1. w > 0 => f.write_intensity = 1000
        BY <1>3, <1>8 DEF w
      <3> QED
        BY <1>1, <1>2, <3>1
    <2>3. q * f.query_frequency = 1000 * q
      <3>1. q > 0 => f.query_frequency = 1000
        BY <1>3, <1>8 DEF q
      <3> QED
        BY <1>1, <1>2, <3>1
    <2>4. WeightedSum(f, w, q) = 1000 * total
      BY <1>1, <2>1, <2>2, <2>3 DEF WeightedSum
    <2>5. Weighted(f) = 1000 * total
      BY <1>2, <2>4
    <2>6. Weighted(f) \div total = 1000
      BY <1>1, <2>5
    <2>7. Least(1000, Weighted(f) \div total) = 1000
      BY <2>6 DEF Least
    <2> QED
      BY <1>5, <2>7
  <1> QED
    BY <1>6, <1>7, <1>8

\* Every entry of the ranking has the factors of a table, and the score they
\* make.
RanksInv ==
  \A i \in 1 .. Len(ranks) : /\ ranks[i].factors \in FactorsType
                             /\ ranks[i].score = Score(ranks[i].factors)

\* The ranking lists every table's entry, in some order.
LEMMA RankLists ==
  ASSUME tables \in Scans, refs \in Seq(Range(refs)), Rank
  PROVE  /\ tables' = tables
         /\ \A i \in 1 .. Len(ranks') : \E t \in Range(tables) : ranks'[i] = Ranked(t)
  <1> DEFINE S == {Ranked(t) : t \in Range(tables)}
             n == Len(tables)
             f == [i \in 1 .. n |-> Ranked(tables[i])]
  <1>1. tables' = tables /\ \E order \in SetToSeqs(S) : ranks' = order
    BY DEF Rank
  <1>2. ranks' \in [1 .. Cardinality(S) -> S]
    BY <1>1 DEF SetToSeqs
  <1>3. Cardinality(S) \in Nat
    <2>1. tables \in Seq(Range(tables)) /\ n \in Nat
      BY ScansAssumption
    <2>2. Range(tables) = {tables[i] : i \in 1 .. n}
      BY <2>1 DEF Range
    <2>3. f \in Surjection(1 .. n, S)
      BY <2>2 DEF Surjection
    <2>4. IsFiniteSet(1 .. n)
      BY <2>1, FS_Interval
    <2> HIDE DEF f, n, S
    <2>5. IsFiniteSet(S)
      BY <2>3, <2>4, FS_Surjection
    <2> QED
      BY <2>5, FS_CardinalityType
  <1>4. \A x \in S : \E t \in Range(tables) : x = Ranked(t)
    OBVIOUS
  <1> HIDE DEF S
  <1>5. Len(ranks') = Cardinality(S)
    BY <1>2, <1>3
  <1>6. \A i \in 1 .. Len(ranks') : ranks'[i] \in S
    BY <1>2, <1>5
  <1> QED
    BY <1>1, <1>4, <1>6

\* A score depends on nothing but the factors and the tables.
LEMMA ScoreKept ==
  ASSUME tables' = tables
  PROVE  \A f : Score(f)' = Score(f)
  <1>1. Weight' = Weight
    BY DEF Weight
  <1>2. \A f : Weighted(f)' = Weighted(f)
    BY <1>1 DEF Weighted
  <1> QED
    BY <1>1, <1>2 DEF Score

\* Every step keeps the entries: Rank makes them, and no other touches them.
LEMMA AnalyseRanks == GroupsInv /\ RanksInv /\ [Analyse]_analysis => RanksInv'
  <1> SUFFICES ASSUME GroupsInv, RanksInv, [Analyse]_analysis
               PROVE  RanksInv'
    OBVIOUS
  <1>1. tables' = tables
    BY DEF Analyse, analysis, Declared, InferColumn, Inferred, Union, Group, Diagnose, Rank,
           WriteContext, Compare
  <1>2. CASE ranks' = ranks
    BY <1>1, <1>2, ScoreKept DEF RanksInv
  <1>3. CASE Rank
    <2>1. tables \in Scans /\ refs \in Seq(Range(refs))
      BY <1>3 DEF GroupsInv, Rank
    <2>2. ASSUME NEW i \in 1 .. Len(ranks')
          PROVE  ranks'[i].factors \in FactorsType /\ ranks'[i].score = Score(ranks'[i].factors)
      <3>1. PICK t \in Range(tables) : ranks'[i] = Ranked(t)
        BY <1>3, <2>1, RankLists
      <3>2. ranks'[i].factors = Factors(t) /\ ranks'[i].score = Score(Factors(t))
        BY <3>1 DEF Ranked
      <3> QED
        BY <2>1, <3>2, FactorsAreNatural
    <2> QED
      BY <1>1, <2>2, ScoreKept DEF RanksInv
  <1>4. ranks' = ranks \/ Rank
    BY DEF Analyse, analysis, analysed, Declared, InferColumn, Inferred, Union, Group,
           Diagnose, WriteContext, Compare
  <1> QED
    BY <1>2, <1>3, <1>4

\* In the ranking scores are at most 1, follow the factors, and are full where
\* every factor that counts is: for every scan and every rule of the logarithms.
THEOREM MeritAlwaysOrders == Analysing => []MeritOrders
  <1>1. RanksInv => MeritOrders
    <2> SUFFICES ASSUME RanksInv, NEW i \in 1 .. Len(ranks)
                 PROVE  LET f == ranks[i].factors
                        IN  /\ ranks[i].score \in 0 .. 1000
                            /\ \A j \in 1 .. Len(ranks) :
                                 (\A d \in DOMAIN f : f[d] >= ranks[j].factors[d])
                                   => ranks[i].score >= ranks[j].score
                            /\ (\A d \in DOMAIN f : Weight[d] > 0 => f[d] = 1000)
                                 => ranks[i].score = 1000
      BY DEF MeritOrders
    <2>1. \A j \in 1 .. Len(ranks) : /\ ranks[j].factors \in FactorsType
                                     /\ ranks[j].score = Score(ranks[j].factors)
      BY DEF RanksInv
    <2> DEFINE f == ranks[i].factors
    <2>2. /\ f \in FactorsType /\ ranks[i].score = Score(f)
      BY <2>1
    <2> HIDE DEF f
    <2>3. ASSUME NEW j \in 1 .. Len(ranks), \A d \in DOMAIN f : f[d] >= ranks[j].factors[d]
          PROVE  ranks[i].score >= ranks[j].score
      <3>1. ranks[j].factors \in FactorsType /\ ranks[j].score = Score(ranks[j].factors)
        BY <2>1
      <3>2. Score(f) >= Score(ranks[j].factors)
        BY <2>2, <2>3, <3>1, ScoreFollows
      <3> QED
        BY <2>2, <3>1, <3>2
    <2>4. \A g \in FactorsType :
            /\ Score(f) \in 0 .. 1000
            /\ (\A d \in DOMAIN f : Weight[d] > 0 => f[d] = 1000) => Score(f) = 1000
      BY <2>2, ScoreFollows
    <2>5. /\ ranks[i].score \in 0 .. 1000
          /\ (\A d \in DOMAIN f : Weight[d] > 0 => f[d] = 1000) => ranks[i].score = 1000
      BY <2>2, <2>4
    <2>6. \A j \in 1 .. Len(ranks) :
            (\A d \in DOMAIN f : f[d] >= ranks[j].factors[d]) => ranks[i].score >= ranks[j].score
      BY <2>3
    <2> QED
      BY <2>5, <2>6 DEF f
  <1>2. Scanned => RanksInv
    BY DEF Scanned, RanksInv
  <1> QED
    BY <1>1, <1>2, ScannedGroups, AnalyseGroups, AnalyseRanks, PTL DEF Analysing

-----------------------------------------------------------------------------
(* What the context is written from, and that it agrees.                     *)

\* No two tables of the scan have chunks of one file name, or one key.
FilesOwn ==
  \A i, j \in 1 .. Len(tables) :
    FileOf(KeyOf(tables[i])) = FileOf(KeyOf(tables[j])) => i = j

\* A component is a class: it has its node, and is that of each of its nodes.
LEMMA ComponentIsClass ==
  ASSUME NEW n, n = Len(refs), NEW k \in Nodes, NEW x \in Component(k, n)
  PROVE  k \in Component(k, n) /\ x \in Nodes /\ Component(x, n) = Component(k, n)
  <1>1. k \in Component(k, n) /\ x \in Nodes
    BY DEF Component
  <1>2. ASSUME NEW S \in Closed(n), x \in S
        PROVE  k \in S
    <2> SUFFICES ASSUME k \notin S
                 PROVE  FALSE
      OBVIOUS
    <2>1. Nodes \ S \in Closed(n)
      <3>1. ASSUME NEW i \in 1 .. n
            PROVE  refs[i].from \in Nodes \ S <=> refs[i].to \in Nodes \ S
        BY <1>1 DEF Closed, Nodes
      <3> QED
        BY <3>1 DEF Closed
    <2> QED
      BY <1>2, <2>1 DEF Component
  <1>3. \A S \in Closed(n) : k \in S <=> x \in S
    BY <1>2 DEF Component
  <1> QED
    BY <1>1, <1>3 DEF Component

\* The two ends of a relationship are in one component.
LEMMA EndsTogether ==
  ASSUME NEW i \in 1 .. Len(refs)
  PROVE  /\ refs[i].from \in Nodes /\ refs[i].to \in Nodes
         /\ refs[i].to \in Component(refs[i].from, Len(refs))
  <1>1. refs[i].from \in Nodes /\ refs[i].to \in Nodes
    BY DEF Nodes
  <1> QED
    BY <1>1 DEF Component, Closed

\* A table that no relationship names is a component of its own.
LEMMA LonelyComponent ==
  ASSUME refs \in Seq(Range(refs)), NEW k \in Nodes, ~ (Degree(k) > 0)
  PROVE  Component(k, Len(refs)) = {k}
  <1>1. FKCount(k) = 0 /\ Cardinality({i \in 1 .. Len(refs) : refs[i].from = k}) = 0
    <2>1. FKCount(k) \in Nat /\ Degree(k) \in Nat
      BY DegreeIsNatural
    <2>2. IsFiniteSet(1 .. Len(refs))
      <3>1. Len(refs) \in Nat
        OBVIOUS
      <3> QED
        BY <3>1, FS_Interval
    <2>3. Cardinality({i \in 1 .. Len(refs) : refs[i].from = k}) \in Nat
      BY <2>2, FS_Subset, FS_CardinalityType
    <2> QED
      BY <2>1, <2>3 DEF Degree
  <1>2. \A i \in 1 .. Len(refs) : refs[i].to # k /\ refs[i].from # k
    <2>1. IsFiniteSet(1 .. Len(refs))
      <3>1. Len(refs) \in Nat
        OBVIOUS
      <3> QED
        BY <3>1, FS_Interval
    <2>2. \A K \in SUBSET (1 .. Len(refs)) : Cardinality(K) = 0 => K = {}
      BY <2>1, FS_Subset, FS_EmptySet
    <2>3. {i \in 1 .. Len(refs) : refs[i].to = k} = {}
      BY <1>1, <2>2 DEF FKCount
    <2>4. {i \in 1 .. Len(refs) : refs[i].from = k} = {}
      BY <1>1, <2>2
    <2> QED
      BY <2>3, <2>4
  <1>3. {k} \in Closed(Len(refs))
    BY <1>2 DEF Closed
  <1> QED
    BY <1>3 DEF Component

\* The scan's tables are listed, and so finite.
LEMMA KeysFinite ==
  ASSUME tables \in Scans
  PROVE  IsFiniteSet(Keys) /\ Keys = {KeyOf(t) : t \in Range(tables)}
  <1> DEFINE f == [i \in 1 .. Len(tables) |-> KeyOf(tables[i])]
  <1>1. tables \in Seq(Range(tables)) /\ Len(tables) \in Nat
    BY ScansAssumption
  <1>2. IsFiniteSet(1 .. Len(tables))
    BY <1>1, FS_Interval
  <1>3. f \in Surjection(1 .. Len(tables), Keys)
    BY DEF Surjection, Keys
  <1> HIDE DEF f
  <1>4. IsFiniteSet(Keys)
    BY <1>2, <1>3, FS_Surjection
  <1>5. Range(tables) = {tables[i] : i \in 1 .. Len(tables)}
    BY <1>1 DEF Range
  <1>6. Keys = {KeyOf(t) : t \in Range(tables)}
    BY <1>5 DEF Keys
  <1> QED
    BY <1>4, <1>6

\* The groups with more than one table and the isolated tables share out the
\* tables; a table of a group has a relationship, and an isolated one has none
\* with another table of the scan.
LEMMA GroupsShareOut ==
  ASSUME tables \in Scans, refs \in Seq(Range(refs)), groups = ClustersFound,
         \A i \in 1 .. Len(refs) : refs[i].from \in Keys
  PROVE  /\ (UNION Subgraphs) \cup Isolated = Keys /\ (UNION Subgraphs) \cap Isolated = {}
         /\ \A g \in Subgraphs : \A k \in g : Degree(k) > 0
         /\ \A i \in 1 .. Len(refs) : {refs[i].from, refs[i].to} \cap Isolated # {}
              => refs[i].from = refs[i].to \/ refs[i].to \notin Keys
  <1> DEFINE Class(k) == Component(k, Len(refs)) \cap Keys
  <1>1. groups = {Class(k) : k \in Keys} /\ Keys \subseteq Nodes
    BY DEF ClustersFound, Nodes
  <1>2. \A k \in Keys : \A x \in Class(k) : k \in Class(k) /\ x \in Keys /\ Class(x) = Class(k)
    BY <1>1, ComponentIsClass
  <1>3. \A k \in Keys : k \in Class(k)
    BY <1>1 DEF Component
  <1>4. \A k \in Keys : ~ (Degree(k) > 0) => Class(k) = {k}
    BY <1>1, LonelyComponent
  <1>5. \A i \in 1 .. Len(refs) : refs[i].to \in Keys => refs[i].to \in Class(refs[i].from)
    BY EndsTogether
  <1> HIDE DEF Class
  <1>6. \A g \in groups : \A k \in g : k \in Keys /\ g = Class(k)
    BY <1>1, <1>2
  <1>7. ASSUME NEW k \in Keys
        PROVE  /\ Class(k) \in groups /\ k \in Class(k)
               /\ Class(k) = {k} \/ Cardinality(Class(k)) > 1
               /\ Cardinality({k}) = 1
    <2>1. Class(k) \in groups /\ k \in Class(k)
      BY <1>1, <1>3
    <2>2. IsFiniteSet(Class(k)) /\ Cardinality(Class(k)) \in Nat
      <3>1. Class(k) \in SUBSET Keys
        BY <1>2
      <3> QED
        BY <3>1, KeysFinite, FS_Subset, FS_CardinalityType
    <2>3. Cardinality(Class(k)) # 0
      BY <2>1, <2>2, FS_EmptySet
    <2>4. Cardinality({k}) = 1
      BY FS_Singleton
    <2>5. Cardinality(Class(k)) = 1 => Class(k) = {k}
      <3>1. {k} \in SUBSET Class(k)
        BY <2>1
      <3> QED
        BY <2>2, <2>4, <3>1, FS_Subset
    <2> QED
      BY <2>1, <2>2, <2>3, <2>4, <2>5
  <1>8. Subgraphs = {g \in groups : Cardinality(g) > 1} /\ Isolated = {k \in Keys : Class(k) = {k}}
    <2>1. \A k \in Keys : {k} \in groups <=> Class(k) = {k}
      BY <1>6, <1>7
    <2> QED
      BY <2>1 DEF Subgraphs, Isolated
  <1>9. UNION Subgraphs = {k \in Keys : Cardinality(Class(k)) > 1}
    BY <1>6, <1>7, <1>8
  <1>10. (UNION Subgraphs) \cup Isolated = Keys /\ (UNION Subgraphs) \cap Isolated = {}
    <2> DEFINE U == UNION Subgraphs
               Big(k) == Cardinality(Class(k)) > 1
    <2>1. ASSUME NEW k \in Keys
          PROVE  Big(k) <=> ~ (Class(k) = {k})
      <3>1. CASE Class(k) = {k}
        <4>1. Cardinality(Class(k)) = 1
          BY <1>7, <3>1
        <4> QED
          BY <3>1, <4>1
      <3>2. CASE Class(k) # {k}
        BY <1>7, <3>2
      <3> QED
        BY <3>1, <3>2
    <2>2. \A k : k \in U <=> k \in Keys /\ Big(k)
      BY <1>9
    <2>3. \A k : k \in Isolated <=> k \in Keys /\ Class(k) = {k}
      BY <1>8
    <2> HIDE DEF U, Big
    <2>4. U \cup Isolated = Keys
      BY <2>1, <2>2, <2>3
    <2>5. U \cap Isolated = {}
      BY <2>1, <2>2, <2>3
    <2> QED
      BY <2>4, <2>5 DEF U
  <1>11. ASSUME NEW g \in Subgraphs, NEW k \in g
         PROVE  Degree(k) > 0
    <2>1. k \in Keys /\ g = Class(k) /\ Cardinality(g) > 1
      BY <1>6, <1>8
    <2> QED
      BY <1>4, <1>7, <2>1
  <1>12. ASSUME NEW i \in 1 .. Len(refs), {refs[i].from, refs[i].to} \cap Isolated # {},
                refs[i].to \in Keys
         PROVE  refs[i].from = refs[i].to
    <2>1. /\ refs[i].from \in Keys /\ refs[i].to \in Class(refs[i].from)
          /\ refs[i].from \in Class(refs[i].from)
      BY <1>3, <1>5, <1>12
    <2>2. Class(refs[i].to) = Class(refs[i].from)
      BY <1>2, <2>1
    <2>3. Class(refs[i].from) = {refs[i].from} \/ Class(refs[i].to) = {refs[i].to}
      BY <1>8, <1>12
    <2> QED
      BY <2>1, <2>2, <2>3
  <1> QED
    BY <1>10, <1>11, <1>12

\* Every order of a finite set has each of its members once.
LEMMA OrderHasAll ==
  ASSUME NEW S, IsFiniteSet(S), NEW order \in SetToSeqs(S)
  PROVE  /\ order \in Seq(S)
         /\ \A x \in S : \E i \in 1 .. Len(order) : order[i] = x
         /\ \A i, j \in 1 .. Len(order) : order[i] = order[j] => i = j
  <1> DEFINE n == Cardinality(S)
  <1>1. n \in Nat
    BY FS_CardinalityType
  <1>2. order \in [1 .. n -> S] /\ \A i, j \in 1 .. n : i # j => order[i] # order[j]
    BY DEF SetToSeqs
  <1>3. IsFiniteSet(1 .. n) /\ Cardinality(1 .. n) = n
    BY <1>1, FS_Interval
  <1>4. order \in Injection(1 .. n, S)
    BY <1>2 DEF Injection, IsInjective
  <1>5. Cardinality(1 .. n) = Cardinality(S)
    BY <1>3
  <1> HIDE DEF n
  <1>6. order \in Surjection(1 .. n, S)
    BY <1>3, <1>4, <1>5, FS_Injection
  <1>7. order \in Seq(S) /\ Len(order) = n
    BY <1>1, <1>2
  <1> QED
    BY <1>2, <1>6, <1>7 DEF Surjection

\* What falls from each place to the next falls from each to every later one.
LEMMA FallsOn ==
  ASSUME NEW n \in Nat, NEW v \in [1 .. n -> Int], \A i \in 1 .. n - 1 : v[i] >= v[i + 1]
  PROVE  \A i, j \in 1 .. n : i < j => v[i] >= v[j]
  <1> DEFINE T == {d \in Nat : \A i \in 1 .. n : i + d \in 1 .. n => v[i] >= v[i + d]}
  <1>1. 0 \in T
    OBVIOUS
  <1>2. ASSUME NEW d \in Nat, d \in T
        PROVE  d + 1 \in T
    <2>1. ASSUME NEW i \in 1 .. n, i + (d + 1) \in 1 .. n
          PROVE  v[i] >= v[i + (d + 1)]
      <3> DEFINE j == i + d
      <3>1. j \in 1 .. n - 1 /\ i + (d + 1) = j + 1 /\ j \in 1 .. n /\ j + 1 \in 1 .. n
        BY <2>1
      <3>2. v[i] >= v[j]
        BY <1>2, <3>1
      <3> HIDE DEF j
      <3>3. v[j] >= v[j + 1] /\ v[i] \in Int /\ v[j] \in Int /\ v[j + 1] \in Int
        BY <3>1
      <3> QED
        BY <3>1, <3>2, <3>3
    <2> QED
      BY <2>1
  <1> HIDE DEF T
  <1>3. Nat \subseteq T
    BY <1>1, <1>2, NatInd
  <1>4. ASSUME NEW i \in 1 .. n, NEW j \in 1 .. n, i < j
        PROVE  v[i] >= v[j]
    <2>1. j - i \in Nat /\ i + (j - i) = j
      BY <1>4
    <2>2. j - i \in T
      BY <1>3, <2>1
    <2> QED
      BY <2>1, <2>2 DEF T
  <1> QED
    BY <1>4

\* A score is between none and the full one.
LEMMA ScoreInRange ==
  \A f \in FactorsType : Score(f) \in 0 .. 1000
  <1>1. ASSUME NEW f \in FactorsType
        PROVE  Score(f) \in 0 .. 1000
    <2>1. \A g \in FactorsType : Score(f) \in 0 .. 1000
      BY ScoreFollows
    <2> QED
      BY <2>1
  <1> QED
    BY <1>1

\* The ranking has each table once, and the scores fall.
RankedAll ==
  /\ ranks \in Seq(Range(ranks))
  /\ \A i \in 1 .. Len(ranks) : ranks[i].table \in Keys /\ ranks[i].score \in Int
  /\ \A k \in Keys : \E i \in 1 .. Len(ranks) : ranks[i].table = k
  /\ FilesOwn => \A i, j \in 1 .. Len(ranks) : ranks[i].table = ranks[j].table => i = j
  /\ \A i, j \in 1 .. Len(ranks) : i < j => ranks[i].score >= ranks[j].score

\* Rank makes it so.
LEMMA RankRanksAll ==
  ASSUME tables \in Scans, refs \in Seq(Range(refs)), Rank
  PROVE  RankedAll'
  <1> DEFINE S == {Ranked(t) : t \in Range(tables)}
             n == Len(tables)
             f == [i \in 1 .. n |-> Ranked(tables[i])]
  <1>1. tables \in Seq(Range(tables)) /\ n \in Nat /\ Range(tables) = {tables[i] : i \in 1 .. n}
    BY ScansAssumption DEF Range
  <1>2. IsFiniteSet(S)
    <2>1. f \in Surjection(1 .. n, S)
      BY <1>1 DEF Surjection
    <2>2. n \in Nat
      BY <1>1
    <2> HIDE DEF f, n, S
    <2>3. IsFiniteSet(1 .. n)
      BY <2>2, FS_Interval
    <2> QED
      BY <2>1, <2>3, FS_Surjection
  <1>3. /\ ranks' \in SetToSeqs(S) /\ tables' = tables
        /\ \A i \in 1 .. Len(ranks') - 1 : ranks'[i].score >= ranks'[i + 1].score
    BY DEF Rank
  <1>4. \A t \in Range(tables) : /\ Ranked(t).table = KeyOf(t)
                                 /\ Ranked(t).score \in Int
    <2>1. ASSUME NEW t \in Range(tables)
          PROVE  Ranked(t).table = KeyOf(t) /\ Ranked(t).score \in Int
      <3>1. Ranked(t).table = KeyOf(t) /\ Ranked(t).score = Score(Factors(t))
        BY DEF Ranked
      <3>2. Score(Factors(t)) \in 0 .. 1000
        BY FactorsAreNatural, ScoreInRange
      <3>3. \A x \in 0 .. 1000 : x \in Int
        OBVIOUS
      <3>4. Score(Factors(t)) \in Int
        BY <3>2, <3>3, Zenon
      <3> QED
        BY <3>1, <3>4, Zenon
    <2> QED
      BY <2>1
  <1>5. Keys' = Keys /\ FilesOwn' = FilesOwn
    BY <1>3 DEF Keys, KeyOf, FilesOwn, FileOf, PathOf
  <1>6. Keys = {KeyOf(t) : t \in Range(tables)}
    BY KeysFinite
  <1>7. FilesOwn => \A t, u \in Range(tables) : KeyOf(t) = KeyOf(u) => t = u
    BY <1>1 DEF FilesOwn
  <1>8. \A x \in S : \E t \in Range(tables) : x = Ranked(t)
    OBVIOUS
  <1>9. \A t \in Range(tables) : Ranked(t) \in S
    OBVIOUS
  <1> HIDE DEF S, n, f
  <1>10. /\ ranks' \in Seq(S)
         /\ \A x \in S : \E i \in 1 .. Len(ranks') : ranks'[i] = x
         /\ \A i, j \in 1 .. Len(ranks') : ranks'[i] = ranks'[j] => i = j
    BY <1>2, <1>3, OrderHasAll
  <1>11. Len(ranks') \in Nat /\ ranks' \in Seq(Range(ranks'))
         /\ \A i \in 1 .. Len(ranks') : ranks'[i] \in S
    BY <1>10 DEF Range
  <1>12. \A i \in 1 .. Len(ranks') : \E t \in Range(tables) : ranks'[i] = Ranked(t)
    BY <1>8, <1>11
  <1>13. \A i \in 1 .. Len(ranks') : ranks'[i].table \in Keys /\ ranks'[i].score \in Int
    BY <1>4, <1>6, <1>12
  <1>14. \A k \in Keys : \E i \in 1 .. Len(ranks') : ranks'[i].table = k
    <2>1. ASSUME NEW t \in Range(tables)
          PROVE  \E i \in 1 .. Len(ranks') : ranks'[i].table = KeyOf(t)
      BY <1>4, <1>9, <1>10
    <2> QED
      BY <1>6, <2>1
  <1>15. ASSUME FilesOwn, NEW i \in 1 .. Len(ranks'), NEW j \in 1 .. Len(ranks'),
                ranks'[i].table = ranks'[j].table
         PROVE  i = j
    <2>1. PICK t \in Range(tables) : ranks'[i] = Ranked(t)
      BY <1>12
    <2>2. PICK u \in Range(tables) : ranks'[j] = Ranked(u)
      BY <1>12
    <2>3. t = u
      BY <1>4, <1>7, <1>15, <2>1, <2>2
    <2> QED
      BY <1>10, <2>1, <2>2, <2>3
  <1>16. \A i, j \in 1 .. Len(ranks') : i < j => ranks'[i].score >= ranks'[j].score
    <2> DEFINE m == Len(ranks')
               v == [i \in 1 .. m |-> ranks'[i].score]
    <2>1. v \in [1 .. m -> Int] /\ m \in Nat
      BY <1>11, <1>13
    <2>2. \A i \in 1 .. m - 1 : v[i] >= v[i + 1]
      <3>1. \A i \in 1 .. m - 1 : i \in 1 .. m /\ i + 1 \in 1 .. m
        BY <2>1
      <3> QED
        BY <1>3, <3>1
    <2>3. \A i \in 1 .. m : v[i] = ranks'[i].score
      OBVIOUS
    <2> HIDE DEF v
    <2>4. \A i, j \in 1 .. m : i < j => v[i] >= v[j]
      BY <2>1, <2>2, FallsOn
    <2> QED
      BY <2>3, <2>4
  <1> QED
    BY <1>5, <1>11, <1>13, <1>14, <1>15, <1>16 DEF RankedAll

\* The first of a list.
LEMMA FirstOfList ==
  ASSUME NEW S, NEW s \in Seq(S), NEW n \in Nat
  PROVE  /\ FirstOf(s, n) \in Seq(S) /\ Len(FirstOf(s, n)) <= Len(s)
         /\ Len(FirstOf(s, n)) = n \/ Len(FirstOf(s, n)) = Len(s)
         /\ Len(FirstOf(s, n)) <= n
         /\ \A i \in 1 .. Len(FirstOf(s, n)) : FirstOf(s, n)[i] = s[i]
  <1> DEFINE m == Least(n, Len(s))
  <1>1. m \in Nat /\ m <= Len(s) /\ m <= n /\ (m = n \/ m = Len(s))
    BY DEF Least
  <1>2. FirstOf(s, n) = SubSeq(s, 1, m)
    BY DEF FirstOf
  <1> HIDE DEF m
  <1>3. /\ SubSeq(s, 1, m) \in Seq(S) /\ Len(SubSeq(s, 1, m)) = m
        /\ \A i \in 1 .. m : SubSeq(s, 1, m)[i] = s[i]
    BY <1>1
  <1> QED
    BY <1>1, <1>2, <1>3

\* Where keys are own, a key leads back to its table.
LEMMA TableOfKey ==
  ASSUME tables \in Scans, FilesOwn
  PROVE  \A t \in Range(tables) : /\ KeyOf(t) \in Keys /\ TableOf(KeyOf(t)) = t
                                  /\ \A u \in Range(tables) : KeyOf(u) = KeyOf(t) => u = t
  <1>1. Range(tables) = {tables[i] : i \in 1 .. Len(tables)}
    BY ScansAssumption DEF Range
  <1>2. \A i, j \in 1 .. Len(tables) : KeyOf(tables[i]) = KeyOf(tables[j]) => i = j
    BY DEF FilesOwn
  <1>3. ASSUME NEW i \in 1 .. Len(tables)
        PROVE  TableOf(KeyOf(tables[i])) = tables[i]
    <2> DEFINE n == CHOOSE j \in 1 .. Len(tables) : KeyOf(tables[j]) = KeyOf(tables[i])
    <2>1. n \in 1 .. Len(tables) /\ KeyOf(tables[n]) = KeyOf(tables[i])
      OBVIOUS
    <2>2. n = i
      BY <1>2, <2>1
    <2> QED
      BY <2>2 DEF TableOf
  <1>4. \A i \in 1 .. Len(tables) : KeyOf(tables[i]) \in Keys
    BY DEF Keys
  <1> QED
    BY <1>1, <1>2, <1>3, <1>4

\* No table that is left out is larger than one that is listed.
LEMMA LargestListed ==
  ASSUME tables \in Scans, FilesOwn, WriteContext
  PROVE  \A k \in Keys : TableOf(k).rows > 0 /\ k \notin Range(report'[1].largest) =>
           /\ Len(report'[1].largest) = CoreN
           /\ \A m \in Range(report'[1].largest) : TableOf(m).rows >= TableOf(k).rows
  <1> DEFINE S == {t \in Range(tables) : t.rows > 0}
  <1>1. PICK sizes \in SetToSeqs(S) :
          /\ \A i \in 1 .. Len(sizes) - 1 : sizes[i].rows >= sizes[i + 1].rows
          /\ report'[1].largest = [i \in 1 .. Len(Largest(sizes)) |-> KeyOf(sizes[i])]
    <2>1. PICK sizes \in SetToSeqs(S) :
            /\ \A i \in 1 .. Len(sizes) - 1 : sizes[i].rows >= sizes[i + 1].rows
            /\ report' = <<[core |-> FirstOf(TableNames(ranks), CoreN),
                            largest |-> [i \in 1 .. Len(Largest(sizes)) |-> KeyOf(sizes[i])],
                            connected |-> Connected, subgraphs |-> Subgraphs,
                            isolated |-> Isolated, files |-> Files(Chunks)]>>
      BY Zenon DEF WriteContext
    <2>2. report'[1].largest = [i \in 1 .. Len(Largest(sizes)) |-> KeyOf(sizes[i])]
      BY <2>1
    <2> QED
      BY <2>1, <2>2
  <1>2. IsFiniteSet(S)
    <2>1. IsFiniteSet(Range(tables))
      <3>1. tables \in Seq(Range(tables)) /\ Len(tables) \in Nat
        BY ScansAssumption
      <3>2. tables \in Surjection(1 .. Len(tables), Range(tables))
        BY <3>1 DEF Surjection, Range
      <3>3. IsFiniteSet(1 .. Len(tables))
        BY <3>1, FS_Interval
      <3> QED
        BY <3>2, <3>3, FS_Surjection
    <2>2. S \in SUBSET Range(tables)
      OBVIOUS
    <2> QED
      BY <2>1, <2>2, FS_Subset
  <1>3. \A t \in S : t \in Range(tables) /\ t.rows \in Int
    BY ScansAssumption
  <1>4. \A t \in Range(tables) : t.rows > 0 => t \in S
    OBVIOUS
  <1> HIDE DEF S
  <1>5. /\ sizes \in Seq(S) /\ Len(sizes) \in Nat
        /\ \A t \in S : \E i \in 1 .. Len(sizes) : sizes[i] = t
        /\ \A i \in 1 .. Len(sizes) : sizes[i] \in S
    BY <1>2, OrderHasAll
  <1> DEFINE m == Len(Largest(sizes))
             v == [i \in 1 .. Len(sizes) |-> sizes[i].rows]
  <1>6. m \in Nat /\ m <= Len(sizes) /\ (m = CoreN \/ m = Len(sizes))
    <2>1. Largest(sizes) = FirstOf(sizes, CoreN) /\ CoreN \in Nat
      BY SizesAssumption DEF Largest
    <2> QED
      BY <1>5, <2>1, FirstOfList
  <1> HIDE DEF m
  <1>7. \A i, j \in 1 .. Len(sizes) : i < j => sizes[i].rows >= sizes[j].rows
    <2>1. v \in [1 .. Len(sizes) -> Int]
      BY <1>3, <1>5
    <2>2. \A i \in 1 .. Len(sizes) : v[i] = sizes[i].rows
      OBVIOUS
    <2>3. \A i \in 1 .. Len(sizes) - 1 : i \in 1 .. Len(sizes) /\ i + 1 \in 1 .. Len(sizes)
      BY <1>5
    <2> HIDE DEF v
    <2>4. \A i \in 1 .. Len(sizes) - 1 : v[i] >= v[i + 1]
      BY <1>1, <2>2, <2>3
    <2>5. \A i, j \in 1 .. Len(sizes) : i < j => v[i] >= v[j]
      BY <1>5, <2>1, <2>4, FallsOn
    <2> QED
      BY <2>2, <2>5
  <1>8. /\ Len(report'[1].largest) = m
        /\ Range(report'[1].largest) = {KeyOf(sizes[i]) : i \in 1 .. m}
    BY <1>1, <1>6 DEF Range, m
  <1>9. \A i \in 1 .. Len(sizes) : TableOf(KeyOf(sizes[i])) = sizes[i]
    BY <1>3, <1>5, TableOfKey
  <1>10. ASSUME NEW k \in Keys, TableOf(k).rows > 0, k \notin Range(report'[1].largest)
         PROVE  /\ Len(report'[1].largest) = CoreN
                /\ \A x \in Range(report'[1].largest) : TableOf(x).rows >= TableOf(k).rows
    <2>1. PICK t \in Range(tables) : k = KeyOf(t) /\ TableOf(k) = t
      BY KeysFinite, TableOfKey
    <2>2. PICK j \in 1 .. Len(sizes) : sizes[j] = t
      BY <1>4, <1>5, <1>10, <2>1
    <2>3. ~ (j \in 1 .. m)
      BY <1>8, <1>10, <2>1, <2>2
    <2>4. m < j /\ m = CoreN
      BY <1>5, <1>6, <2>3
    <2>5. ASSUME NEW i \in 1 .. m
          PROVE  TableOf(KeyOf(sizes[i])).rows >= TableOf(k).rows
      <3>1. i \in 1 .. Len(sizes) /\ i < j
        BY <1>5, <1>6, <2>4
      <3> QED
        BY <1>7, <1>9, <2>1, <2>2, <3>1
    <2> QED
      BY <1>8, <2>4, <2>5
  <1> QED
    BY <1>10

\* The tables that get a chunk.
ChunkNames == FirstOf(Select(TableNames(ranks), Chosen), TopN)

\* The tables that have a file.
Chunked == {Files(Chunks)[f].table : f \in DOMAIN Files(Chunks)}

\* Where file names are own, the files are the chunks of these tables.
LEMMA FilesOfChunks ==
  ASSUME FilesOwn, ChunkNames \in Seq(Keys)
  PROVE  Chunked = Range(ChunkNames)
  <1> DEFINE n == Len(ChunkNames)
             At(f) == {i \in 1 .. n : FileOf(Chunks[i].table) = f}
  <1>1. /\ n \in Nat /\ Len(Chunks) = n
        /\ \A i \in 1 .. n : Chunks[i].table = ChunkNames[i] /\ ChunkNames[i] \in Keys
    BY DEF Chunks, ChunkNames, Chunk
  <1>2. Range(ChunkNames) = {ChunkNames[i] : i \in 1 .. n}
    BY DEF Range
  <1>3. \A k, l \in Keys : FileOf(k) = FileOf(l) => k = l
    BY DEF FilesOwn, Keys
  <1>4. /\ DOMAIN Files(Chunks) = {FileOf(Chunks[i].table) : i \in 1 .. n}
        /\ \A f \in DOMAIN Files(Chunks) : Files(Chunks)[f] = Chunks[Max(At(f))]
    BY <1>1 DEF Files
  <1>5. ASSUME NEW f, At(f) # {}
        PROVE  Max(At(f)) \in At(f)
    <2>1. At(f) \in SUBSET (0 .. n) /\ At(f) \in SUBSET Nat
      BY <1>1
    <2> HIDE DEF At, n
    <2>2. PICK x \in At(f) : \A y \in At(f) : y <= x
      BY <1>1, <1>5, <2>1, GreatestNat
    <2>3. \A y \in At(f) : x >= y
      BY <2>1, <2>2
    <2> QED
      BY <2>3 DEF Max
  <1>6. ASSUME NEW i \in 1 .. n
        PROVE  /\ FileOf(Chunks[i].table) \in DOMAIN Files(Chunks)
               /\ Files(Chunks)[FileOf(Chunks[i].table)].table = ChunkNames[i]
    <2> DEFINE f == FileOf(Chunks[i].table)
               j == Max(At(f))
    <2>1. f \in DOMAIN Files(Chunks)
      BY <1>4
    <2>2. i \in At(f)
      OBVIOUS
    <2>3. j \in At(f)
      BY <1>5, <2>2
    <2>4. j \in 1 .. n /\ FileOf(ChunkNames[j]) = FileOf(ChunkNames[i])
      BY <1>1, <2>3
    <2> HIDE DEF j
    <2>5. ChunkNames[j] = ChunkNames[i]
      BY <1>1, <1>3, <2>4
    <2> HIDE DEF f
    <2>6. Files(Chunks)[f].table = ChunkNames[i]
      BY <1>1, <1>4, <2>1, <2>4, <2>5 DEF j
    <2> QED
      BY <2>1, <2>6 DEF f
  <1> HIDE DEF n
  <1>7. \A f \in DOMAIN Files(Chunks) : \E i \in 1 .. n : f = FileOf(Chunks[i].table)
    BY <1>4
  <1> QED
    BY <1>2, <1>6, <1>7 DEF Chunked

\* No table that the filter lets pass scores more than one with a chunk and
\* has none.
LEMMA ChunksRanked ==
  ASSUME RankedAll, FilesOwn,
         NEW k \in Keys, Chosen(k), k \notin Chunked, NEW m \in Chunked
  PROVE  (CHOOSE x \in Range(ranks) : x.table = m).score
           >= (CHOOSE x \in Range(ranks) : x.table = k).score
  <1> DEFINE s == TableNames(ranks)
             K == {i \in DOMAIN s : Chosen(s[i])}
  <1>1. /\ s \in Seq(Keys) /\ DOMAIN s = 1 .. Len(ranks) /\ Len(ranks) \in Nat
        /\ \A i \in 1 .. Len(ranks) : s[i] = ranks[i].table
    BY DEF TableNames, RankedAll
  <1>2. Range(ranks) = {ranks[i] : i \in 1 .. Len(ranks)}
    BY DEF RankedAll, Range
  <1>3. ASSUME NEW i \in 1 .. Len(ranks)
        PROVE  (CHOOSE x \in Range(ranks) : x.table = ranks[i].table).score = ranks[i].score
    <2>1. \A j \in 1 .. Len(ranks) : ranks[j].table = ranks[i].table => ranks[j] = ranks[i]
      <3>1. \A a, b \in 1 .. Len(ranks) : ranks[a].table = ranks[b].table => a = b
        BY DEF RankedAll
      <3> QED
        BY <3>1
    <2>2. \A x \in Range(ranks) : x.table = ranks[i].table => x = ranks[i]
      BY <1>2, <2>1
    <2>3. ranks[i] \in Range(ranks)
      BY <1>2
    <2>4. (CHOOSE x \in Range(ranks) : x.table = ranks[i].table) = ranks[i]
      BY <2>2, <2>3
    <2> QED
      BY <2>4
  <1>4. K \in SUBSET DOMAIN s /\ Select(s, Chosen) = Picked(s, K)
    BY DEF Select
  <1>5. \A i \in 1 .. Len(ranks) : Chosen(s[i]) => i \in K
    BY <1>1
  <1> HIDE DEF s, K
  <1>6. Picked(s, K) \in Seq(Keys) /\ \E at : KeptBy(at, s, K)
    BY <1>1, <1>4, PickedInOrder
  <1>7. PICK at : KeptBy(at, s, K)
    BY <1>6
  <1> DEFINE p == Picked(s, K)
             c == FirstOf(p, TopN)
  <1>8. /\ p \in Seq(Keys) /\ DOMAIN p = 1 .. Len(p) /\ Len(p) \in Nat
        /\ at \in [1 .. Len(p) -> 1 .. Len(ranks)]
        /\ \A i, j \in 1 .. Len(p) : i < j => at[i] < at[j]
        /\ \A i \in 1 .. Len(p) : p[i] = s[at[i]]
        /\ \A x \in K : \E i \in 1 .. Len(p) : at[i] = x
    <2>1. /\ at \in [DOMAIN p -> DOMAIN s] /\ DOMAIN at = DOMAIN p
          /\ \A i, j \in DOMAIN at : i < j => at[i] < at[j]
          /\ p = [i \in DOMAIN at |-> s[at[i]]]
          /\ {at[i] : i \in DOMAIN at} = K
      BY <1>7 DEF KeptBy
    <2> HIDE DEF p
    <2>2. p \in Seq(Keys) /\ DOMAIN p = 1 .. Len(p) /\ Len(p) \in Nat
      <3>1. p \in Seq(Keys)
        BY <1>6 DEF p
      <3> QED
        BY <3>1
    <2>3. \A i \in DOMAIN p : p[i] = s[at[i]]
      BY <2>1
    <2>4. \A x \in K : \E i \in DOMAIN p : at[i] = x
      BY <2>1
    <2> QED
      BY <1>1, <2>1, <2>2, <2>3, <2>4
  <1> HIDE DEF p
  <1>9. /\ c \in Seq(Keys) /\ Len(c) \in Nat /\ Len(c) <= Len(p)
        /\ Len(c) = TopN \/ Len(c) = Len(p)
        /\ \A i \in 1 .. Len(c) : c[i] = p[i]
    BY <1>8, SizesAssumption, FirstOfList
  <1>10. ChunkNames = c
    BY <1>4 DEF ChunkNames, s, p
  <1> HIDE DEF c
  <1>11. Chunked = Range(c) /\ Range(c) = {c[i] : i \in 1 .. Len(c)}
    <2>1. ChunkNames \in Seq(Keys)
      BY <1>9, <1>10
    <2>2. Chunked = Range(ChunkNames)
      BY <2>1, FilesOfChunks
    <2>3. Range(c) = {c[i] : i \in DOMAIN c}
      BY DEF Range
    <2>4. DOMAIN c = 1 .. Len(c)
      BY <1>9
    <2> QED
      BY <1>10, <2>2, <2>3, <2>4
  <1>12. PICK i \in 1 .. Len(c) : m = c[i]
    BY <1>11
  <1>13. PICK x \in 1 .. Len(ranks) : ranks[x].table = k
    BY DEF RankedAll
  <1>14. x \in K
    BY <1>1, <1>5, <1>13
  <1>15. PICK j \in 1 .. Len(p) : at[j] = x
    BY <1>8, <1>14
  <1>16. ~ (j \in 1 .. Len(c))
    <2>1. p[j] = k
      BY <1>1, <1>8, <1>13, <1>15
    <2> QED
      BY <1>9, <1>11, <2>1
  <1>17. i < j /\ i \in 1 .. Len(p)
    BY <1>8, <1>9, <1>16
  <1>18. at[i] < x /\ at[i] \in 1 .. Len(ranks) /\ m = ranks[at[i]].table
    BY <1>1, <1>8, <1>9, <1>12, <1>15, <1>17
  <1>19. ranks[at[i]].score >= ranks[x].score
    BY <1>18 DEF RankedAll
  <1> QED
    BY <1>3, <1>13, <1>18, <1>19

\* What is written at the end agrees.
LEMMA ContextAgrees ==
  ASSUME tables \in Scans, refs \in Seq(Range(refs)), groups = ClustersFound,
         \A i \in 1 .. Len(refs) : refs[i].from \in Keys,
         RankedAll, FilesOwn, WriteContext
  PROVE  TopologyAgrees'
  <1> DEFINE r == report'[1]
             S == {t \in Range(tables) : t.rows > 0}
             ScoreOf(k) == (CHOOSE x \in Range(ranks) : x.table = k).score
             chunked == {r.files[f].table : f \in DOMAIN r.files}
  <1>1. /\ UNCHANGED <<tables, refs, ranks>>
        /\ r.subgraphs = Subgraphs /\ r.isolated = Isolated /\ r.files = Files(Chunks)
    <2>1. PICK sizes \in SetToSeqs(S) :
            /\ \A i \in 1 .. Len(sizes) - 1 : sizes[i].rows >= sizes[i + 1].rows
            /\ report' = <<[core |-> FirstOf(TableNames(ranks), CoreN),
                            largest |-> [i \in 1 .. Len(Largest(sizes)) |-> KeyOf(sizes[i])],
                            connected |-> Connected, subgraphs |-> Subgraphs,
                            isolated |-> Isolated, files |-> Files(Chunks)]>>
      BY Zenon DEF WriteContext
    <2>2. UNCHANGED <<tables, refs, ranks>>
      BY DEF WriteContext
    <2> QED
      BY <2>1, <2>2
  <1>2. /\ Keys' = Keys /\ (\A k : TableOf(k)' = TableOf(k)) /\ \A k : Degree(k)' = Degree(k)
    BY <1>1 DEF Keys, KeyOf, TableOf, Degree, FKCount
  <1>3. /\ (UNION r.subgraphs) \cup r.isolated = Keys
        /\ (UNION r.subgraphs) \cap r.isolated = {}
        /\ \A g \in r.subgraphs : \A k \in g : Degree(k) > 0
        /\ \A i \in 1 .. Len(refs) : {refs[i].from, refs[i].to} \cap r.isolated # {}
             => refs[i].from = refs[i].to \/ refs[i].to \notin Keys
    BY <1>1, GroupsShareOut
  <1>4. \A k \in Keys : TableOf(k).rows > 0 /\ k \notin Range(r.largest) =>
          /\ Len(r.largest) = CoreN
          /\ \A m \in Range(r.largest) : TableOf(m).rows >= TableOf(k).rows
    BY LargestListed
  <1>5. ASSUME NEW k \in {x \in Keys : Chosen(x)} \ chunked, NEW m \in chunked
        PROVE  ScoreOf(m) >= ScoreOf(k)
    <2>1. chunked = Chunked
      BY <1>1 DEF Chunked
    <2> HIDE DEF chunked
    <2>2. k \in Keys /\ Chosen(k) /\ k \notin Chunked /\ m \in Chunked
      BY <1>5, <2>1
    <2>3. /\ RankedAll /\ FilesOwn
      OBVIOUS
    <2>4. (CHOOSE x \in Range(ranks) : x.table = m).score
            >= (CHOOSE x \in Range(ranks) : x.table = k).score
      BY <2>2, <2>3, ChunksRanked
    <2> QED
      BY <2>4
  <1> HIDE DEF chunked, ScoreOf
  <1>6. /\ (UNION r.subgraphs) \cup r.isolated = Keys'
        /\ (UNION r.subgraphs) \cap r.isolated = {}
        /\ \A g \in r.subgraphs : \A k \in g : Degree(k)' > 0
        /\ \A i \in 1 .. Len(refs') : {refs'[i].from, refs'[i].to} \cap r.isolated # {}
             => refs'[i].from = refs'[i].to \/ refs'[i].to \notin Keys'
    BY <1>1, <1>2, <1>3
  <1>7. \A k \in Keys' : TableOf(k)'.rows > 0 /\ k \notin Range(r.largest) =>
          /\ Len(r.largest) = CoreN
          /\ \A m \in Range(r.largest) : TableOf(m)'.rows >= TableOf(k)'.rows
    BY <1>2, <1>4
  <1>8. \A k \in {x \in Keys' : Chosen(x)} \ chunked :
          \A m \in chunked :
            (CHOOSE x \in Range(ranks') : x.table = m).score
              >= (CHOOSE x \in Range(ranks') : x.table = k).score
    BY <1>1, <1>2, <1>5 DEF ScoreOf
  <1> QED
    BY <1>6, <1>7, <1>8 DEF TopologyAgrees, chunked, Chosen

\* The tables are a scan until the context is written, every relationship comes
\* from one of them, and groups and ranking stand when the context needs them.
ContextInv ==
  /\ cursor \in Nat \ {0}
  /\ stage \in {"declared", "infer", "union", "diagnose", "rank", "report"}
       => tables \in Scans /\ report = <<>>
  /\ stage = "compare" => report = <<>>
  /\ stage \in {"infer", "union", "diagnose", "rank", "report"}
       => \A i \in 1 .. Len(refs) : refs[i].from \in Keys
  /\ stage \in {"diagnose", "rank", "report"} => groups = ClustersFound
  /\ stage = "report" => RankedAll
  /\ FilesOwn => TopologyAgrees

\* The column that the loop is at is one of a table of the scan.
LEMMA ColumnsListed ==
  ASSUME tables \in Scans
  PROVE  /\ Len(Columns) \in Nat
         /\ \A n \in 1 .. Len(Columns) :
              /\ Columns[n][1] \in 1 .. Len(tables)
              /\ Columns[n][2] \in 1 .. Len(tables[Columns[n][1]].columns)
  <1> DEFINE S == {x \in (1 .. Len(tables)) \X Nat : x[2] \in 1 .. Len(tables[x[1]].columns)}
             row(i) == [c \in 1 .. Len(tables[i].columns) |-> <<i, c>>]
             ss == [i \in 1 .. Len(tables) |-> row(i)]
  <1>1. Len(tables) \in Nat
    BY ScansAssumption
  <1>2. ASSUME NEW i \in 1 .. Len(tables)
        PROVE  row(i) \in Seq(S)
    <2>1. tables[i] \in Range(tables)
      BY <1>1, ScansAssumption DEF Range
    <2>2. Len(tables[i].columns) \in Nat
      BY <2>1, ScansAssumption
    <2>3. row(i) \in [1 .. Len(tables[i].columns) -> S]
      OBVIOUS
    <2> HIDE DEF row, S
    <2> QED
      BY <2>2, <2>3
  <1>3. Columns = FlattenSeq(ss)
    BY DEF Columns
  <1>4. \A x \in S : x[1] \in 1 .. Len(tables) /\ x[2] \in 1 .. Len(tables[x[1]].columns)
    OBVIOUS
  <1> HIDE DEF row, S
  <1>5. ss \in Seq(Seq(S))
    BY <1>1, <1>2
  <1> HIDE DEF ss
  <1>6. Columns \in Seq(S)
    BY <1>3, <1>5, FlattenKeeps
  <1> QED
    BY <1>4, <1>6

\* A relationship that is inferred comes from the table of its column.
LEMMA InferredFrom ==
  ASSUME tables \in Scans, refs \in Seq(Range(refs)), cursor \in Nat \ {0}, InferColumn,
         \A i \in 1 .. Len(refs) : refs[i].from \in Keys
  PROVE  \A i \in 1 .. Len(refs') : refs'[i].from \in Keys
  <1> DEFINE src == tables[Columns[cursor][1]]
  <1>1. Columns[cursor][1] \in 1 .. Len(tables)
    <2>1. cursor <= Len(Columns)
      BY DEF InferColumn
    <2>2. /\ Len(Columns) \in Nat
          /\ \A n \in 1 .. Len(Columns) : Columns[n][1] \in 1 .. Len(tables)
      BY ColumnsListed
    <2> QED
      BY <2>1, <2>2
  <1>2. KeyOf(src) \in Keys
    BY <1>1 DEF Keys
  <1>3. refs' = refs \/ \E x : refs' = Append(refs, x) /\ x.from = KeyOf(src)
    <2>1. \/ refs' = refs
          \/ \E col, to, key, conf :
               refs' = Append(refs, Ref(KeyOf(src), col, to, key, TRUE, conf))
      BY Zenon DEF InferColumn
    <2>2. \A from, col, to, key, conf : Ref(from, col, to, key, TRUE, conf).from = from
      BY DEF Ref
    <2> HIDE DEF src
    <2>3. ASSUME NEW col, NEW to, NEW key, NEW conf,
                 refs' = Append(refs, Ref(KeyOf(src), col, to, key, TRUE, conf))
          PROVE  \E x : refs' = Append(refs, x) /\ x.from = KeyOf(src)
      <3> DEFINE x == Ref(KeyOf(src), col, to, key, TRUE, conf)
      <3>1. refs' = Append(refs, x)
        BY <2>3
      <3>2. x.from = KeyOf(src)
        BY DEF Ref
      <3> HIDE DEF x
      <3> QED
        BY <3>1, <3>2
    <2> QED
      BY <2>1, <2>3
  <1> HIDE DEF src
  <1>4. CASE refs' = refs
    BY <1>4
  <1>5. CASE \E x : refs' = Append(refs, x) /\ x.from = KeyOf(src)
    <2>1. PICK x : refs' = Append(refs, x) /\ x.from = KeyOf(src)
      BY <1>5
    <2>2. \A i \in 1 .. Len(refs') : \/ i \in 1 .. Len(refs) /\ refs'[i] = refs[i]
                                     \/ refs'[i] = x
      BY <2>1
    <2> QED
      BY <1>2, <2>1, <2>2
  <1> QED
    BY <1>3, <1>4, <1>5

\* FilesOwn, the keys and whether the context agrees depend on nothing but the
\* tables, and the context also on what it is written from.
LEMMA ContextKept ==
  ASSUME tables' = tables
  PROVE  /\ Keys' = Keys /\ FilesOwn' = FilesOwn
         /\ UNCHANGED ranks => RankedAll' = RankedAll
         /\ report' = <<>> => TopologyAgrees'
  <1>1. Keys' = Keys /\ FilesOwn' = FilesOwn
    BY DEF Keys, KeyOf, FilesOwn, FileOf, PathOf
  <1>2. ASSUME UNCHANGED ranks
        PROVE  RankedAll' = RankedAll
    BY <1>1, <1>2 DEF RankedAll
  <1>3. report' = <<>> => TopologyAgrees'
    BY DEF TopologyAgrees, Done
  <1> QED
    BY <1>1, <1>2, <1>3

\* A scan starts so.
LEMMA ScannedContext == Scanned => ContextInv
  BY DEF Scanned, ContextInv, TopologyAgrees, Done

\* Every step keeps it: each stage leaves what the next ones rely on.
LEMMA AnalyseContext == GroupsInv /\ ContextInv /\ [Analyse]_analysis => ContextInv'
  <1> SUFFICES ASSUME GroupsInv, ContextInv, [Analyse]_analysis
               PROVE  ContextInv'
    OBVIOUS
  <1>1. tables' = tables
    BY DEF Analyse, analysis, Declared, InferColumn, Inferred, Union, Group, Diagnose, Rank,
           WriteContext, Compare
  <1>2. /\ Keys' = Keys /\ FilesOwn' = FilesOwn
        /\ UNCHANGED ranks => RankedAll' = RankedAll
        /\ report' = <<>> => TopologyAgrees'
    BY <1>1, ContextKept
  <1>3. UNCHANGED refs => ClustersFound' = ClustersFound
    BY <1>1, ComponentKept
  <1>4. refs \in Seq(Range(refs)) /\ cursor \in Nat \ {0} /\ cursor + 1 \in Nat \ {0}
    BY DEF GroupsInv, ContextInv
  <1>5. CASE UNCHANGED analysis
    <2>1. UNCHANGED <<tables, stage, cursor, refs, groups, ranks, report>>
      BY <1>5 DEF analysis, analysed
    <2>2. TopologyAgrees' = TopologyAgrees
      BY <2>1 DEF TopologyAgrees, Done, Keys, KeyOf, TableOf, Degree, FKCount, Chosen
    <2> QED
      BY <1>2, <1>3, <2>1, <2>2 DEF ContextInv
  <1>6. CASE Declared
    <2>1. stage = "declared" /\ stage' = "infer" /\ UNCHANGED <<cursor, report>>
      BY <1>6 DEF Declared
    <2>2. tables \in Scans /\ report' = <<>>
      BY <2>1 DEF ContextInv
    <2>3. \A i \in 1 .. Len(refs') : refs'[i].from \in Keys'
      BY <1>2, <1>6, <2>2, DeclaredList
    <2> QED
      BY <1>1, <1>2, <1>4, <2>1, <2>2, <2>3 DEF ContextInv
  <1>7. CASE InferColumn
    <2>1. stage = "infer" /\ stage' = "infer" /\ cursor' = cursor + 1 /\ UNCHANGED report
      BY <1>7 DEF InferColumn
    <2>2. /\ tables \in Scans /\ report' = <<>>
          /\ \A i \in 1 .. Len(refs) : refs[i].from \in Keys
      BY <2>1 DEF ContextInv
    <2>3. \A i \in 1 .. Len(refs') : refs'[i].from \in Keys'
      BY <1>2, <1>4, <1>7, <2>2, InferredFrom
    <2> QED
      BY <1>1, <1>2, <1>4, <2>1, <2>2, <2>3 DEF ContextInv
  <1>8. CASE Inferred \/ Union
    <2>1. /\ stage \in {"infer", "union"} /\ stage' = "union" /\ UNCHANGED <<refs, report>>
          /\ cursor' = 1 \/ cursor' = cursor + 1
      BY <1>8 DEF Inferred, Union
    <2> QED
      BY <1>1, <1>2, <1>4, <2>1 DEF ContextInv
  <1>9. CASE Group
    <2>1. stage = "union" /\ stage' = "diagnose" /\ cursor' = 1 /\ UNCHANGED <<refs, report>>
      BY <1>9 DEF Group
    <2>2. groups' = ClustersFound
      BY <1>4, <1>9, <2>1, GroupFinds DEF GroupsInv
    <2> QED
      BY <1>1, <1>2, <1>3, <2>1, <2>2 DEF ContextInv
  <1>10. CASE Diagnose
    <2>1. /\ stage = "diagnose" /\ stage' = "rank"
          /\ UNCHANGED <<refs, report, groups, ranks, cursor>>
      BY <1>10 DEF Diagnose
    <2> QED
      BY <1>1, <1>2, <1>3, <1>4, <2>1 DEF ContextInv
  <1>11. CASE Rank
    <2>1. /\ stage = "rank" /\ stage' = "report"
          /\ UNCHANGED <<refs, report, groups, cursor>>
      BY <1>11 DEF Rank
    <2>2. tables \in Scans
      BY <2>1 DEF ContextInv
    <2>3. RankedAll'
      BY <1>4, <1>11, <2>2, RankRanksAll
    <2> QED
      BY <1>1, <1>2, <1>3, <1>4, <2>1, <2>3 DEF ContextInv
  <1>12. CASE WriteContext
    <2>1. stage = "report" /\ stage' = "done" /\ UNCHANGED cursor
      BY <1>12 DEF WriteContext
    <2>2. /\ tables \in Scans /\ groups = ClustersFound /\ RankedAll
          /\ \A i \in 1 .. Len(refs) : refs[i].from \in Keys
      BY <2>1 DEF ContextInv
    <2>3. FilesOwn => TopologyAgrees'
      BY <1>4, <1>12, <2>2, ContextAgrees
    <2> QED
      BY <1>2, <1>4, <2>1, <2>3 DEF ContextInv
  <1>13. CASE Compare
    <2>1. stage = "compare" /\ stage' = "done" /\ UNCHANGED <<report, cursor>>
      BY <1>13 DEF Compare, analysed
    <2> QED
      BY <1>1, <1>2, <1>4, <2>1 DEF ContextInv
  <1> QED
    BY <1>5, <1>6, <1>7, <1>8, <1>9, <1>10, <1>11, <1>12, <1>13 DEF Analyse

\* The parts of the context agree, for every scan whose tables have chunk files
\* of their own: a chunk that replaces another one's file leaves its table out,
\* whatever it scores (WriteContext).
THEOREM TopologyAlwaysAgrees == Analysing => [](FilesOwn => TopologyAgrees)
  <1>1. ContextInv => (FilesOwn => TopologyAgrees)
    BY DEF ContextInv
  <1> QED
    BY <1>1, ScannedGroups, AnalyseGroups, ScannedContext, AnalyseContext, PTL DEF Analysing

-----------------------------------------------------------------------------
(* The relationships.                                                        *)

\* A sequence made of others has the elements of each.
LEMMA FlattenHasAll ==
  ASSUME NEW S, NEW ss \in Seq(Seq(S)), NEW i \in 1 .. Len(ss), NEW c \in 1 .. Len(ss[i])
  PROVE  \E n \in 1 .. Len(FlattenSeq(ss)) : FlattenSeq(ss)[n] = ss[i][c]
  <1> DEFINE N == Len(ss)
             f == CHOOSE f : Flattens(ss, f, N)
             Has(s, n) == \A a \in 1 .. n : \A b \in 1 .. Len(ss[a]) :
                            \E m \in 1 .. Len(s) : s[m] = ss[a][b]
  <1>1. N \in Nat /\ N # 0 /\ \A a \in 1 .. N : ss[a] \in Seq(S)
    OBVIOUS
  <1>2. Flattens(ss, f, N)
    BY <1>1, FlattensExist
  <1>3. FlattenSeq(ss) = f[N]
    BY <1>1 DEF FlattenSeq, Flattens
  <1> HIDE DEF f
  <1>4. f = [a \in 1 .. N |-> IF a = 1 THEN ss[a] ELSE f[a - 1] \o ss[a]]
    BY <1>2 DEF Flattens
  <1>5. \A a \in 1 .. N : f[a] = IF a = 1 THEN ss[a] ELSE f[a - 1] \o ss[a]
    BY <1>4
  <1> DEFINE T == {n \in Nat : n + 1 <= N => f[n + 1] \in Seq(S) /\ Has(f[n + 1], n + 1)}
  <1> HIDE DEF N
  <1>6. 0 \in T
    <2>1. 1 \in 1 .. N /\ f[1] = ss[1] /\ ss[1] \in Seq(S)
      BY <1>1, <1>5
    <2>2. Has(f[1], 1)
      <3>1. \A a \in 1 .. 1 : a = 1
        OBVIOUS
      <3> QED
        BY <2>1, <3>1
    <2> HIDE DEF Has
    <2> QED
      BY <2>1, <2>2
  <1>7. ASSUME NEW n \in Nat, n \in T
        PROVE  n + 1 \in T
    <2> SUFFICES ASSUME n + 2 <= N
                 PROVE  f[n + 2] \in Seq(S) /\ Has(f[n + 2], n + 2)
      <3>1. n + 1 + 1 = n + 2
        OBVIOUS
      <3> HIDE DEF Has
      <3> QED
        BY <3>1
    <2>1. f[n + 1] \in Seq(S) /\ Has(f[n + 1], n + 1) /\ ss[n + 2] \in Seq(S)
      <3>1. n + 1 <= N
        BY <1>1
      <3>2. n + 2 \in 1 .. N
        BY <1>1
      <3> HIDE DEF Has
      <3> QED
        BY <1>1, <1>7, <3>1, <3>2
    <2>2. PICK j \in 1 .. N : j = n + 2 /\ j # 1 /\ j - 1 = n + 1
      BY <1>1
    <2> DEFINE s == f[n + 1]
               t == ss[j]
    <2>3. f[j] = s \o t /\ s \in Seq(S) /\ t \in Seq(S)
      BY <1>1, <1>5, <2>1, <2>2
    <2>4. ASSUME NEW a \in 1 .. n + 2, NEW b \in 1 .. Len(ss[a])
          PROVE  \E m \in 1 .. Len(f[j]) : f[j][m] = ss[a][b]
      <3> HIDE DEF s, t
      <3>1. CASE a = j
        <4>1. b \in 1 .. Len(t) /\ t[b] = ss[a][b]
          BY <2>4, <3>1 DEF t
        <4>2. Len(s) + b \in 1 .. Len(s \o t) /\ (s \o t)[Len(s) + b] = t[b]
          BY <2>3, <4>1
        <4> QED
          BY <2>3, <4>1, <4>2
      <3>2. CASE a # j
        <4>1. a \in 1 .. n + 1
          BY <2>2, <3>2
        <4>2. PICK m \in 1 .. Len(s) : s[m] = ss[a][b]
          BY <2>1, <4>1 DEF s
        <4>3. m \in 1 .. Len(s \o t) /\ (s \o t)[m] = s[m]
          BY <2>3, <4>2
        <4> QED
          BY <2>3, <4>2, <4>3
      <3> QED
        BY <3>1, <3>2
    <2>5. Has(f[j], n + 2)
      BY <2>4
    <2>6. f[j] \in Seq(S)
      BY <2>3
    <2> HIDE DEF Has, s, t
    <2> QED
      BY <2>2, <2>5, <2>6
  <1> HIDE DEF T
  <1>8. Nat \subseteq T
    BY <1>6, <1>7, NatInd
  <1>9. N - 1 \in T /\ N - 1 + 1 = N
    BY <1>1, <1>8
  <1>10. Has(f[N], N)
    <2> HIDE DEF Has
    <2> QED
      BY <1>1, <1>9 DEF T
  <1> QED
    BY <1>3, <1>10 DEF N

\* Every column of a scan is one that the loop comes to.
LEMMA ColumnsComplete ==
  ASSUME tables \in Scans, NEW t \in Range(tables), NEW c \in Range(t.columns)
  PROVE  \E n \in 1 .. Len(Columns) :
           tables[Columns[n][1]] = t /\ t.columns[Columns[n][2]] = c
  <1> DEFINE S == (1 .. Len(tables)) \X Nat
             row(i) == [b \in 1 .. Len(tables[i].columns) |-> <<i, b>>]
             ss == [i \in 1 .. Len(tables) |-> row(i)]
  <1>1. Len(tables) \in Nat /\ Range(tables) = {tables[i] : i \in 1 .. Len(tables)}
    BY ScansAssumption DEF Range
  <1>2. PICK i \in 1 .. Len(tables) : t = tables[i]
    BY <1>1
  <1>3. t.columns \in Seq(Range(t.columns))
    BY ScansAssumption
  <1>4. PICK b \in 1 .. Len(t.columns) : c = t.columns[b]
    BY <1>3 DEF Range
  <1>5. ASSUME NEW a \in 1 .. Len(tables)
        PROVE  row(a) \in Seq(S)
    <2>1. tables[a] \in Range(tables)
      BY <1>1
    <2>2. Len(tables[a].columns) \in Nat
      BY <2>1, ScansAssumption
    <2>3. row(a) \in [1 .. Len(tables[a].columns) -> S]
      OBVIOUS
    <2> HIDE DEF row, S
    <2> QED
      BY <2>2, <2>3
  <1>6. Columns = FlattenSeq(ss)
    BY DEF Columns
  <1>7. row(i) \in Seq(S) /\ Len(row(i)) = Len(t.columns) /\ row(i)[b] = <<i, b>>
    <2>1. Len(t.columns) \in Nat
      BY <1>3
    <2> QED
      BY <1>2, <1>4, <1>5, <2>1
  <1> HIDE DEF row, S
  <1>8. ss \in Seq(Seq(S)) /\ Len(ss) = Len(tables) /\ ss[i] = row(i)
    BY <1>1, <1>2, <1>5
  <1> HIDE DEF ss
  <1>9. \E n \in 1 .. Len(FlattenSeq(ss)) : FlattenSeq(ss)[n] = ss[i][b]
    <2>1. i \in 1 .. Len(ss) /\ b \in 1 .. Len(ss[i])
      BY <1>2, <1>4, <1>7, <1>8
    <2> QED
      BY <1>8, <2>1, FlattenHasAll
  <1>10. PICK n \in 1 .. Len(Columns) : Columns[n] = <<i, b>>
    BY <1>6, <1>7, <1>8, <1>9
  <1> QED
    BY <1>2, <1>4, <1>10

\* The names of a table's columns, and those of its keys' columns as one.
ColNames(t) == {c.name : c \in Range(t.columns)} \cup {ColumnList(f.columns) : f \in Range(t.fks)}

\* Tables are told apart by their lower-case names, columns of one table by
\* their names, and columns of all tables by the key that inferRefs keeps.
ColumnsOwn ==
  /\ \A t, u \in Range(tables) :
       t.inst = u.inst /\ t.db = u.db /\ Fold(t.name) = Fold(u.name) => t = u
  /\ \A t \in Range(tables) : \A c, d \in Range(t.columns) : c.name = d.name => c = d
  /\ \A t, u \in Range(tables) : \A a \in ColNames(t), b \in ColNames(u) :
       SeenKey(KeyOf(t), a) = SeenKey(KeyOf(u), b) => t = u /\ a = b

\* A table has this very name and a column that a relationship may end at.
Keyed(stem) == \E u \in Range(tables) : Fold(u.name) = stem /\ KeyColumn(KeyOf(u)) # <<>>

RefsTold ==
  \A i \in 1 .. Len(refs) :
    \E t \in Range(tables) : refs[i].from = KeyOf(t) /\ refs[i].col \in ColNames(t)

SeenTold == seen = {SeenKey(refs[i].from, refs[i].col) : i \in 1 .. Len(refs)}

\* A relationship that was inferred is the only one of a column that is no key
\* of its own, and ends where its name says.
InferredRight ==
  \A i \in 1 .. Len(refs) : refs[i].inferred =>
    /\ refs[i].to \in Keys /\ refs[i].key \in FoldedNames(TableOf(refs[i].to).columns)
    /\ RefsOf(refs[i].from, refs[i].col) = {i}
    /\ \E t \in Range(tables) : \E c \in Range(t.columns) :
         /\ refs[i].from = KeyOf(t) /\ refs[i].col = c.name /\ ~ IsPrimary(c)
         /\ Keyed(Stem(Fold(c.name))) => Fold(refs[i].to[3]) = Stem(Fold(c.name))

\* Of the first n columns, those named after a table have a relationship.
LinkedUpTo(n) ==
  \A m \in 1 .. n :
    LET t == tables[Columns[m][1]]
        c == t.columns[Columns[m][2]]
    IN  ~ IsPrimary(c) /\ Stem(Fold(c.name)) # <<>> /\ Keyed(Stem(Fold(c.name)))
          => RefsOf(KeyOf(t), c.name) # {}

\* What was said of the columns is what the property says of them.
LEMMA LinksAreRight ==
  ASSUME tables \in Scans, ColumnsOwn, InferredRight, LinkedUpTo(Len(Columns))
  PROVE  LinksRight
  <1>1. \A t, u \in Range(tables) : KeyOf(t) = KeyOf(u) => t = u
    BY DEF ColumnsOwn, KeyOf
  <1>2. \A i \in 1 .. Len(refs) : refs[i].inferred =>
          /\ refs[i].to \in Keys
          /\ refs[i].key \in FoldedNames(TableOf(refs[i].to).columns)
          /\ RefsOf(refs[i].from, refs[i].col) = {i}
    BY DEF InferredRight
  <1>3. ASSUME NEW t \in Range(tables), NEW c \in Range(t.columns)
        PROVE  /\ \A i \in RefsOf(KeyOf(t), c.name) : refs[i].inferred =>
                    /\ ~ IsPrimary(c)
                    /\ Keyed(Stem(Fold(c.name))) => Fold(refs[i].to[3]) = Stem(Fold(c.name))
               /\ ~ IsPrimary(c) /\ Stem(Fold(c.name)) # <<>> /\ Keyed(Stem(Fold(c.name)))
                    => RefsOf(KeyOf(t), c.name) # {}
    <2>1. ASSUME NEW i \in RefsOf(KeyOf(t), c.name), refs[i].inferred
          PROVE  /\ ~ IsPrimary(c)
                 /\ Keyed(Stem(Fold(c.name))) => Fold(refs[i].to[3]) = Stem(Fold(c.name))
      <3>1. i \in 1 .. Len(refs) /\ refs[i].from = KeyOf(t) /\ refs[i].col = c.name
        BY DEF RefsOf
      <3>2. PICK u \in Range(tables) : \E d \in Range(u.columns) :
              /\ refs[i].from = KeyOf(u) /\ refs[i].col = d.name /\ ~ IsPrimary(d)
              /\ Keyed(Stem(Fold(d.name))) => Fold(refs[i].to[3]) = Stem(Fold(d.name))
        BY <2>1, <3>1 DEF InferredRight
      <3>3. u = t
        BY <1>1, <3>1, <3>2
      <3>4. PICK d \in Range(t.columns) :
              /\ refs[i].col = d.name /\ ~ IsPrimary(d)
              /\ Keyed(Stem(Fold(d.name))) => Fold(refs[i].to[3]) = Stem(Fold(d.name))
        BY <3>2, <3>3
      <3>5. d = c
        BY <3>1, <3>4 DEF ColumnsOwn
      <3> QED
        BY <3>4, <3>5
    <2>2. PICK n \in 1 .. Len(Columns) :
            tables[Columns[n][1]] = t /\ t.columns[Columns[n][2]] = c
      BY ColumnsComplete
    <2>3. ~ IsPrimary(c) /\ Stem(Fold(c.name)) # <<>> /\ Keyed(Stem(Fold(c.name)))
            => RefsOf(KeyOf(t), c.name) # {}
      BY <2>2 DEF LinkedUpTo
    <2> QED
      BY <2>1, <2>3
  <1> QED
    BY <1>2, <1>3 DEF LinksRight, Keyed

\* Where tables are told apart, the column that KeyColumn finds is one of the
\* table's.
LEMMA KeyColumnOwn ==
  ASSUME tables \in Scans, ColumnsOwn, NEW u \in Range(tables), KeyColumn(KeyOf(u)) # <<>>
  PROVE  KeyOf(u) \in Keys /\ TableOf(KeyOf(u)) = u
         /\ KeyColumn(KeyOf(u)) \in FoldedNames(u.columns)
  <1> DEFINE k == KeyOf(u)
             same == {i \in 1 .. Len(tables) : /\ KeyOf(tables[i])[1] = k[1]
                                               /\ KeyOf(tables[i])[2] = k[2]
                                               /\ Fold(tables[i].name) = Fold(k[3])}
             Primary(i) == {c \in 1 .. Len(tables[i].columns) : IsPrimary(tables[i].columns[c])}
             with == {i \in same : Primary(i) # {}}
  <1>1. /\ Len(tables) \in Nat /\ Range(tables) = {tables[i] : i \in 1 .. Len(tables)}
        /\ Len(u.columns) \in Nat
    <2>1. u.columns \in Seq(Range(u.columns))
      BY ScansAssumption
    <2>2. Len(u.columns) \in Nat
      BY <2>1
    <2> QED
      BY <2>2, ScansAssumption DEF Range
  <1>2. KeyOf(u) \in Keys
    BY <1>1 DEF Keys
  <1>3. TableOf(KeyOf(u)) = u
    <2> DEFINE n == CHOOSE i \in 1 .. Len(tables) : KeyOf(tables[i]) = KeyOf(u)
    <2>1. \E i \in 1 .. Len(tables) : KeyOf(tables[i]) = KeyOf(u)
      BY <1>1
    <2>2. n \in 1 .. Len(tables) /\ KeyOf(tables[n]) = KeyOf(u)
      BY <2>1
    <2>3. tables[n] \in Range(tables)
      BY <1>1, <2>2
    <2> HIDE DEF n
    <2>4. tables[n] = u
      BY <2>2, <2>3 DEF ColumnsOwn, KeyOf
    <2> QED
      BY <2>4 DEF TableOf, n
  <1>4. \A i \in same : tables[i] = u
    <2>1. \A i \in same : tables[i] \in Range(tables)
      BY <1>1
    <2>2. \A i \in same : /\ tables[i].inst = u.inst /\ tables[i].db = u.db
                          /\ Fold(tables[i].name) = Fold(u.name)
      BY DEF KeyOf
    <2> QED
      BY <2>1, <2>2 DEF ColumnsOwn
  <1>5. KeyColumn(k) = IF with # {}
                       THEN Fold(tables[Max(with)].columns[Min(Primary(Max(with)))].name)
                       ELSE IF \E i \in same : <<"id">> \in FoldedNames(tables[i].columns)
                            THEN <<"id">> ELSE <<>>
    BY DEF KeyColumn
  <1>6. CASE with # {}
    <2> DEFINE m == Max(with)
    <2>1. m \in with
      <3>1. with \in SUBSET (0 .. Len(tables))
        OBVIOUS
      <3> HIDE DEF with
      <3>2. PICK x \in with : \A y \in with : y <= x
        BY <1>1, <1>6, <3>1, GreatestNat
      <3>3. \A y \in with : x >= y
        BY <1>1, <3>1, <3>2
      <3> QED
        BY <3>3 DEF Max
    <2>2. m \in same /\ Primary(m) # {} /\ tables[m] = u
      BY <1>4, <2>1
    <2> DEFINE b == Min(Primary(m))
    <2>3. b \in 1 .. Len(u.columns)
      <3>1. Primary(m) \in SUBSET (1 .. Len(u.columns))
        BY <2>2
      <3> HIDE DEF Primary, m
      <3>2. Primary(m) \in SUBSET Nat
        BY <1>1, <3>1
      <3>3. \E x \in Primary(m) : \A y \in Primary(m) : x <= y
        BY <2>2, <3>2, LeastNat
      <3>4. Min(Primary(m)) \in Primary(m)
        BY <3>3 DEF Min
      <3> QED
        BY <3>1, <3>4
    <2>4. KeyColumn(k) = Fold(u.columns[b].name)
      <3> HIDE DEF Primary, same
      <3> QED
        BY <1>5, <1>6, <2>2
    <2> HIDE DEF b
    <2>5. KeyColumn(k) \in FoldedNames(u.columns)
      BY <2>3, <2>4 DEF FoldedNames
    <2> QED
      BY <1>2, <1>3, <2>5
  <1>7. CASE with = {}
    <2> HIDE DEF with, same
    <2>1. \E i \in same : <<"id">> \in FoldedNames(tables[i].columns)
      BY <1>5, <1>7
    <2>2. KeyColumn(k) = <<"id">>
      BY <1>5, <1>7, <2>1
    <2>3. <<"id">> \in FoldedNames(u.columns)
      BY <1>4, <2>1
    <2> QED
      BY <1>2, <1>3, <2>2, <2>3
  <1> QED
    BY <1>6, <1>7

\* The candidates are tables; if one has this very name, each has it.
LEMMA CandidatesNamed ==
  ASSUME tables \in Scans, NEW stem
  PROVE  /\ Candidates(stem) \in SUBSET (1 .. Len(tables))
         /\ NamedThus(stem) # {} => Candidates(stem) = NamedThus(stem)
  <1> DEFINE I == {i \in 1 .. Len(Forms(stem)) : NamedThus(Forms(stem)[i]) # {}}
             form == SelectInSeq(Forms(stem), LAMBDA n : NamedThus(n) # {})
  <1>1. Forms(stem)[1] = stem /\ Len(Forms(stem)) = 3
    BY DEF Forms
  <1>2. form = IF I # {} THEN Min(I) ELSE 0
    BY DEF SelectInSeq
  <1>3. ASSUME NamedThus(stem) # {}
        PROVE  form = 1
    <2>1. 1 \in I /\ \A i \in I : 1 <= i
      BY <1>1, <1>3
    <2>2. Min(I) = 1
      <3> HIDE DEF I
      <3>1. Min(I) \in I /\ (\A y \in I : Min(I) <= y)
        BY <2>1 DEF Min
      <3>2. Min(I) <= 1 /\ 1 <= Min(I)
        BY <2>1, <3>1
      <3>3. \A i \in I : i \in Int
        BY DEF I
      <3>4. Min(I) \in Int
        BY <3>1, <3>3
      <3> QED
        BY <3>2, <3>4
    <2> HIDE DEF I
    <2> QED
      BY <1>2, <2>1, <2>2
  <1>4. Candidates(stem) = IF form = 0 THEN {} ELSE NamedThus(Forms(stem)[form])
    BY DEF Candidates
  <1>5. \A n : NamedThus(n) \in SUBSET (1 .. Len(tables))
    BY DEF NamedThus
  <1> HIDE DEF form
  <1>6. NamedThus(stem) # {} => Candidates(stem) = NamedThus(stem)
    BY <1>1, <1>3, <1>4
  <1> QED
    BY <1>4, <1>5, <1>6

\* The column that the loop is at, its table, and what its name says.
AtTable == tables[Columns[cursor][1]]
AtColumn == AtTable.columns[Columns[cursor][2]]
AtStem == Stem(Fold(AtColumn.name))
AtKeyed == {i \in Candidates(AtStem) : KeyColumn(KeyOf(tables[i])) # <<>>}
AtTarget == KeyOf(tables[Min(AtKeyed)])
AtRef == Ref(KeyOf(AtTable), AtColumn.name, AtTarget, KeyColumn(AtTarget), TRUE,
             Confidence(KeyOf(AtTable), AtTarget))

\* What the loop does there.
LEMMA InferCases ==
  ASSUME InferColumn
  PROVE  \/ /\ refs' = refs /\ seen' = seen
            /\ \/ IsPrimary(AtColumn) \/ AtStem = <<>> \/ AtKeyed = {}
               \/ SeenKey(KeyOf(AtTable), AtColumn.name) \in seen
         \/ /\ refs' = Append(refs, AtRef)
            /\ seen' = seen \cup {SeenKey(KeyOf(AtTable), AtColumn.name)}
            /\ ~ IsPrimary(AtColumn) /\ AtStem # <<>> /\ AtKeyed # {}
            /\ SeenKey(KeyOf(AtTable), AtColumn.name) \notin seen
  <1>1. CASE \/ IsPrimary(AtColumn) \/ AtStem = <<>> \/ AtKeyed = {}
             \/ SeenKey(KeyOf(AtTable), AtColumn.name) \in seen
    <2>1. refs' = refs /\ seen' = seen
      BY <1>1, Zenon DEF InferColumn, AtTable, AtColumn, AtStem, AtKeyed
    <2> QED
      BY <1>1, <2>1
  <1>2. CASE ~ \/ IsPrimary(AtColumn) \/ AtStem = <<>> \/ AtKeyed = {}
               \/ SeenKey(KeyOf(AtTable), AtColumn.name) \in seen
    <2>1. /\ refs' = Append(refs, AtRef)
          /\ seen' = seen \cup {SeenKey(KeyOf(AtTable), AtColumn.name)}
      BY <1>2, Zenon DEF InferColumn, AtTable, AtColumn, AtStem, AtKeyed, AtTarget, AtRef
    <2> QED
      BY <1>2, <2>1
  <1> QED
    BY <1>1, <1>2

\* It is at a column of a table, and what it finds is a table.
LEMMA AtOwn ==
  ASSUME tables \in Scans, cursor \in Nat \ {0}, cursor <= Len(Columns)
  PROVE  /\ AtTable \in Range(tables) /\ AtColumn \in Range(AtTable.columns)
         /\ AtKeyed # {} => /\ Min(AtKeyed) \in AtKeyed
                            /\ tables[Min(AtKeyed)] \in Range(tables)
                            /\ AtTarget = KeyOf(tables[Min(AtKeyed)])
                            /\ KeyColumn(AtTarget) # <<>>
         /\ Keyed(AtStem) => /\ AtKeyed # {}
                             /\ Fold(tables[Min(AtKeyed)].name) = AtStem
  <1>1. /\ Len(tables) \in Nat /\ Range(tables) = {tables[i] : i \in 1 .. Len(tables)}
    BY ScansAssumption DEF Range
  <1>2. AtTable \in Range(tables) /\ AtColumn \in Range(AtTable.columns)
    <2>1. /\ Len(Columns) \in Nat
          /\ \A n \in 1 .. Len(Columns) :
               /\ Columns[n][1] \in 1 .. Len(tables)
               /\ Columns[n][2] \in 1 .. Len(tables[Columns[n][1]].columns)
      BY ColumnsListed
    <2>2. cursor \in 1 .. Len(Columns)
      BY <2>1
    <2>3. AtTable \in Range(tables)
      BY <1>1, <2>1, <2>2 DEF AtTable
    <2>4. Columns[cursor][2] \in 1 .. Len(AtTable.columns)
      BY <2>1, <2>2 DEF AtTable
    <2>5. AtTable.columns \in Seq(Range(AtTable.columns))
      BY <2>3, ScansAssumption
    <2> QED
      BY <2>3, <2>4, <2>5 DEF AtColumn
  <1>3. AtKeyed \in SUBSET (1 .. Len(tables))
    BY CandidatesNamed DEF AtKeyed
  <1>4. ASSUME AtKeyed # {}
        PROVE  /\ Min(AtKeyed) \in AtKeyed
               /\ tables[Min(AtKeyed)] \in Range(tables)
               /\ AtTarget = KeyOf(tables[Min(AtKeyed)])
               /\ KeyColumn(AtTarget) # <<>>
    <2>1. AtKeyed \in SUBSET Nat
      BY <1>1, <1>3
    <2>2. \E x \in AtKeyed : \A y \in AtKeyed : x <= y
      BY <1>4, <2>1, LeastNat
    <2>3. Min(AtKeyed) \in AtKeyed
      BY <2>2 DEF Min
    <2>4. KeyColumn(KeyOf(tables[Min(AtKeyed)])) # <<>>
      BY <2>3 DEF AtKeyed
    <2> QED
      BY <1>1, <1>3, <2>3, <2>4 DEF AtTarget
  <1>5. ASSUME Keyed(AtStem)
        PROVE  AtKeyed # {} /\ Fold(tables[Min(AtKeyed)].name) = AtStem
    <2>1. PICK u \in Range(tables) : Fold(u.name) = AtStem /\ KeyColumn(KeyOf(u)) # <<>>
      BY <1>5 DEF Keyed
    <2>2. PICK i \in 1 .. Len(tables) : u = tables[i]
      BY <1>1
    <2>3. i \in NamedThus(AtStem)
      BY <2>1, <2>2 DEF NamedThus
    <2>4. Candidates(AtStem) = NamedThus(AtStem)
      BY <2>3, CandidatesNamed
    <2>5. i \in AtKeyed
      BY <2>1, <2>2, <2>3, <2>4 DEF AtKeyed
    <2>6. Min(AtKeyed) \in NamedThus(AtStem)
      BY <1>4, <2>4, <2>5 DEF AtKeyed
    <2> QED
      BY <2>5, <2>6 DEF NamedThus
  <1> QED
    BY <1>2, <1>4, <1>5

\* The relationships come from columns, and seen tells which, after each step.
LEMMA InferTold ==
  ASSUME tables \in Scans, refs \in Seq(Range(refs)), cursor \in Nat \ {0}, InferColumn,
         RefsTold, SeenTold
  PROVE  RefsTold' /\ SeenTold'
  <1>1. /\ tables' = tables /\ cursor <= Len(Columns)
    BY DEF InferColumn
  <1>2. \A t : ColNames(t)' = ColNames(t)
    OBVIOUS
  <1>3. CASE refs' = refs /\ seen' = seen
    BY <1>1, <1>3 DEF RefsTold, SeenTold, KeyOf, SeenKey, ColNames
  <1>4. CASE /\ refs' = Append(refs, AtRef)
             /\ seen' = seen \cup {SeenKey(KeyOf(AtTable), AtColumn.name)}
    <2>1. AtTable \in Range(tables) /\ AtColumn.name \in ColNames(AtTable)
      BY <1>1, AtOwn DEF ColNames
    <2>2. AtRef.from = KeyOf(AtTable) /\ AtRef.col = AtColumn.name
      BY DEF AtRef, Ref
    <2>3. /\ Len(refs') = Len(refs) + 1 /\ refs'[Len(refs) + 1] = AtRef
          /\ \A i \in 1 .. Len(refs) : refs'[i] = refs[i]
          /\ Len(refs) \in Nat
      BY <1>4
    <2>4. ASSUME NEW i \in 1 .. Len(refs')
          PROVE  \E t \in Range(tables) : refs'[i].from = KeyOf(t) /\ refs'[i].col \in ColNames(t)
      <3>1. CASE i \in 1 .. Len(refs)
        BY <2>3, <3>1 DEF RefsTold
      <3>2. CASE i = Len(refs) + 1
        BY <2>1, <2>2, <2>3, <3>2
      <3> QED
        BY <2>3, <3>1, <3>2
    <2>5. RefsTold'
      BY <1>1, <2>4 DEF RefsTold, KeyOf, ColNames
    <2>6. seen' = {SeenKey(refs'[i].from, refs'[i].col) : i \in 1 .. Len(refs')}
      <3>1. \A x : x \in seen <=> \E i \in 1 .. Len(refs) : x = SeenKey(refs[i].from, refs[i].col)
        BY DEF SeenTold
      <3>2. 1 .. Len(refs') = (1 .. Len(refs)) \cup {Len(refs) + 1}
        BY <2>3
      <3>3. \A x : x \in seen' <=> \E i \in 1 .. Len(refs') :
                                     x = SeenKey(refs'[i].from, refs'[i].col)
        BY <1>4, <2>2, <2>3, <3>1, <3>2
      <3> QED
        BY <3>3
    <2> QED
      BY <2>5, <2>6 DEF SeenTold, SeenKey
  <1> QED
    BY <1>3, <1>4, InferCases

\* The relationships that the servers declare come from columns and keys of
\* their tables, and none of them is inferred.
LEMMA DeclaredTold ==
  ASSUME tables \in Scans, Declared
  PROVE  /\ RefsTold' /\ SeenTold'
         /\ \A i \in 1 .. Len(refs') : ~ refs'[i].inferred
  <1> DEFINE Good(x) == /\ ~ x.inferred
                        /\ \E t \in Range(tables) : x.from = KeyOf(t) /\ x.col \in ColNames(t)
             S == {x \in UNION {Range(DeclaredOf(tables[i])) : i \in 1 .. Len(tables)} : Good(x)}
             ss == [i \in 1 .. Len(tables) |-> DeclaredOf(tables[i])]
  <1>1. Len(tables) \in Nat
    BY ScansAssumption
  <1>2. ASSUME NEW i \in 1 .. Len(tables)
        PROVE  DeclaredOf(tables[i]) \in Seq(S)
    <2>1. tables[i] \in Range(tables)
      BY <1>1, ScansAssumption DEF Range
    <2>2. tables[i].fks \in Seq(Range(tables[i].fks)) /\ Len(tables[i].fks) \in Nat
      <3>1. tables[i].fks \in Seq(Range(tables[i].fks))
        BY <2>1, ScansAssumption
      <3> QED
        BY <3>1
    <2> DEFINE d == DeclaredOf(tables[i])
    <2>3. DOMAIN d = 1 .. Len(tables[i].fks) /\ d = [n \in 1 .. Len(tables[i].fks) |-> d[n]]
      BY DEF DeclaredOf
    <2>4. ASSUME NEW n \in DOMAIN d
          PROVE  Good(d[n])
      <3>1. /\ d[n].from = KeyOf(tables[i]) /\ d[n].inferred = FALSE
            /\ d[n].col = ColumnList(tables[i].fks[n].columns)
        BY <2>3 DEF DeclaredOf, Ref
      <3>2. tables[i].fks[n] \in Range(tables[i].fks)
        BY <2>2, <2>3
      <3>3. d[n].col \in ColNames(tables[i])
        BY <3>1, <3>2 DEF ColNames
      <3> QED
        BY <2>1, <3>1, <3>3
    <2>5. \A n \in DOMAIN d : d[n] \in S
      <3> HIDE DEF Good
      <3> QED
        BY <2>4 DEF Range
    <2> HIDE DEF d, S
    <2>6. d \in [1 .. Len(tables[i].fks) -> S]
      BY <2>3, <2>5
    <2>7. d \in Seq(S)
      BY <2>2, <2>6
    <2> QED
      BY <2>7 DEF d
  <1>3. \A x \in S : Good(x)
    <2> HIDE DEF Good
    <2> QED
      OBVIOUS
  <1> HIDE DEF S
  <1>4. ss \in Seq(Seq(S))
    BY <1>1, <1>2
  <1>5. refs' = FlattenSeq(ss)
    BY DEF Declared
  <1> HIDE DEF ss
  <1>6. refs' \in Seq(S)
    BY <1>4, <1>5, FlattenKeeps
  <1>7. \A i \in 1 .. Len(refs') : Good(refs'[i])
    <2> HIDE DEF Good
    <2> QED
      BY <1>3, <1>6
  <1>8. tables' = tables
    BY DEF Declared
  <1>9. SeenTold'
    BY DEF Declared, SeenTold, SeenKey
  <1>10. \A i \in 1 .. Len(refs') :
           \E t \in Range(tables) : refs'[i].from = KeyOf(t) /\ refs'[i].col \in ColNames(t)
    BY <1>7
  <1>11. RefsTold'
    BY <1>8, <1>10 DEF RefsTold, KeyOf, ColNames
  <1> QED
    BY <1>7, <1>9, <1>11

\* Whether a column has a relationship can be read off what was seen.
LEMMA SeenMeans ==
  ASSUME ColumnsOwn, RefsTold, SeenTold, NEW t \in Range(tables), NEW a \in ColNames(t)
  PROVE  SeenKey(KeyOf(t), a) \in seen <=> RefsOf(KeyOf(t), a) # {}
  <1>1. SeenKey(KeyOf(t), a) \in seen
          <=> \E i \in 1 .. Len(refs) : SeenKey(refs[i].from, refs[i].col) = SeenKey(KeyOf(t), a)
    BY DEF SeenTold
  <1>2. ASSUME NEW i \in 1 .. Len(refs),
               SeenKey(refs[i].from, refs[i].col) = SeenKey(KeyOf(t), a)
        PROVE  i \in RefsOf(KeyOf(t), a)
    <2>1. PICK u \in Range(tables) : refs[i].from = KeyOf(u) /\ refs[i].col \in ColNames(u)
      BY DEF RefsTold
    <2>2. u = t /\ refs[i].col = a
      BY <1>2, <2>1 DEF ColumnsOwn
    <2> QED
      BY <2>1, <2>2 DEF RefsOf
  <1>3. \A i \in RefsOf(KeyOf(t), a) :
          i \in 1 .. Len(refs) /\ SeenKey(refs[i].from, refs[i].col) = SeenKey(KeyOf(t), a)
    BY DEF RefsOf
  <1> QED
    BY <1>1, <1>2, <1>3

\* What a relationship is judged by depends on nothing but the tables.
LEMMA JudgedByTables ==
  ASSUME tables' = tables
  PROVE  /\ Columns' = Columns /\ Keys' = Keys /\ ColumnsOwn' = ColumnsOwn
         /\ \A k : TableOf(k)' = TableOf(k)
         /\ \A s : Keyed(s)' = Keyed(s)
         /\ UNCHANGED refs => RefsTold' = RefsTold /\ InferredRight' = InferredRight
                              /\ \A n : LinkedUpTo(n)' = LinkedUpTo(n)
         /\ UNCHANGED <<refs, seen>> => SeenTold' = SeenTold
  <1>1. /\ Columns' = Columns /\ Keys' = Keys
        /\ \A k : TableOf(k)' = TableOf(k)
        /\ \A s : Keyed(s)' = Keyed(s)
    BY DEF Columns, Keys, KeyOf, TableOf, Keyed, KeyColumn
  <1>2. ColumnsOwn' = ColumnsOwn
    BY DEF ColumnsOwn, KeyOf, SeenKey, ColNames
  <1>3. ASSUME UNCHANGED refs
        PROVE  RefsTold' = RefsTold /\ InferredRight' = InferredRight
               /\ \A n : LinkedUpTo(n)' = LinkedUpTo(n)
    <2>1. RefsTold' = RefsTold
      BY <1>3 DEF RefsTold, KeyOf, ColNames
    <2>2. \A k, a : RefsOf(k, a)' = RefsOf(k, a)
      BY <1>3 DEF RefsOf
    <2>3. InferredRight' = InferredRight
      BY <1>1, <1>3 DEF InferredRight, KeyOf, RefsOf
    <2>4. \A n : LinkedUpTo(n)' = LinkedUpTo(n)
      BY <1>1, <2>2 DEF LinkedUpTo, KeyOf
    <2> QED
      BY <2>1, <2>3, <2>4
  <1>4. UNCHANGED <<refs, seen>> => SeenTold' = SeenTold
    BY DEF SeenTold, SeenKey
  <1> QED
    BY <1>1, <1>2, <1>3, <1>4

\* The relationships of a column after a step.
LaterOf(k, a) == {i \in 1 .. Len(refs') : refs'[i].from = k /\ refs'[i].col = a}

\* So after a step they are right when they are by the tables there were.
LEMMA RightLater ==
  ASSUME tables' = tables,
         \A i \in 1 .. Len(refs') : refs'[i].inferred =>
           /\ refs'[i].to \in Keys
           /\ refs'[i].key \in FoldedNames(TableOf(refs'[i].to).columns)
           /\ LaterOf(refs'[i].from, refs'[i].col) = {i}
           /\ \E t \in Range(tables) : \E c \in Range(t.columns) :
                /\ refs'[i].from = KeyOf(t) /\ refs'[i].col = c.name /\ ~ IsPrimary(c)
                /\ Keyed(Stem(Fold(c.name))) => Fold(refs'[i].to[3]) = Stem(Fold(c.name))
  PROVE  InferredRight'
  <1>1. Keys' = Keys /\ (\A k : TableOf(k)' = TableOf(k)) /\ (\A s : Keyed(s)' = Keyed(s))
    BY JudgedByTables
  <1> QED
    BY <1>1 DEF InferredRight, KeyOf, RefsOf, LaterOf

\* The loop links the column it is at, and no other one differently.
LEMMA InferLinks ==
  ASSUME tables \in Scans, refs \in Seq(Range(refs)), cursor \in Nat \ {0}, InferColumn,
         ColumnsOwn, RefsTold, SeenTold, InferredRight, LinkedUpTo(cursor - 1)
  PROVE  InferredRight' /\ LinkedUpTo(cursor - 1)'
  <1> DEFINE from == KeyOf(AtTable)
             col == AtColumn.name
             n == Len(refs) + 1
  <1>1. /\ tables' = tables /\ cursor <= Len(Columns) /\ cursor' = cursor + 1
        /\ cursor' - 1 = cursor
    <2>1. tables' = tables /\ cursor <= Len(Columns) /\ cursor' = cursor + 1
      BY DEF InferColumn
    <2> QED
      BY <2>1
  <1>2. /\ Columns' = Columns /\ Keys' = Keys
        /\ \A k : TableOf(k)' = TableOf(k)
        /\ \A s : Keyed(s)' = Keyed(s)
        /\ UNCHANGED refs => InferredRight' = InferredRight
    BY <1>1, JudgedByTables
  <1>3. /\ AtTable \in Range(tables) /\ AtColumn \in Range(AtTable.columns)
        /\ AtKeyed # {} => /\ tables[Min(AtKeyed)] \in Range(tables)
                           /\ AtTarget = KeyOf(tables[Min(AtKeyed)])
                           /\ KeyColumn(AtTarget) # <<>>
        /\ Keyed(AtStem) => /\ AtKeyed # {}
                            /\ Fold(tables[Min(AtKeyed)].name) = AtStem
    BY <1>1, AtOwn
  <1>4. SeenKey(from, col) \in seen <=> RefsOf(from, col) # {}
    <2>1. col \in ColNames(AtTable)
      BY <1>3 DEF ColNames
    <2> QED
      BY <1>3, <2>1, SeenMeans
  <1>5. ASSUME \A k, a : RefsOf(k, a) # {} => LaterOf(k, a) # {},
               \/ IsPrimary(AtColumn) \/ AtStem = <<>> \/ AtKeyed = {}
               \/ LaterOf(from, col) # {}
        PROVE  LinkedUpTo(cursor - 1)'
    <2>1. ASSUME NEW m \in 1 .. cursor
          PROVE  LET t == tables[Columns[m][1]]
                     c == t.columns[Columns[m][2]]
                 IN  ~ IsPrimary(c) /\ Stem(Fold(c.name)) # <<>> /\ Keyed(Stem(Fold(c.name)))
                       => LaterOf(KeyOf(t), c.name) # {}
      <3>1. CASE m \in 1 .. cursor - 1
        BY <1>5, <3>1 DEF LinkedUpTo
      <3>2. CASE m = cursor
        BY <1>3, <1>5, <3>2 DEF AtTable, AtColumn, AtStem
      <3>3. m \in 1 .. cursor - 1 \/ m = cursor
        OBVIOUS
      <3> QED
        BY <3>1, <3>2, <3>3, Zenon
    <2> QED
      BY <1>1, <1>2, <2>1 DEF LinkedUpTo, KeyOf, RefsOf, LaterOf
  <1>6. CASE /\ refs' = refs
             /\ \/ IsPrimary(AtColumn) \/ AtStem = <<>> \/ AtKeyed = {}
                \/ SeenKey(from, col) \in seen
    <2>1. \A k, a : LaterOf(k, a) = RefsOf(k, a)
      BY <1>6 DEF RefsOf, LaterOf
    <2>2. /\ \A k, a : RefsOf(k, a) # {} => LaterOf(k, a) # {}
          /\ \/ IsPrimary(AtColumn) \/ AtStem = <<>> \/ AtKeyed = {}
             \/ LaterOf(from, col) # {}
      <3> HIDE DEF from, col
      <3> QED
        BY <1>4, <1>6, <2>1
    <2> QED
      BY <1>2, <1>5, <1>6, <2>2
  <1>7. CASE /\ refs' = Append(refs, AtRef)
             /\ ~ IsPrimary(AtColumn) /\ AtStem # <<>> /\ AtKeyed # {}
             /\ SeenKey(from, col) \notin seen
    <2>1. /\ Len(refs') = n /\ refs'[n] = AtRef /\ n \in Nat
          /\ \A i \in 1 .. Len(refs) : refs'[i] = refs[i]
          /\ 1 .. n = (1 .. Len(refs)) \cup {n} /\ n \notin 1 .. Len(refs)
      BY <1>7
    <2>2. /\ AtRef.from = from /\ AtRef.col = col /\ AtRef.to = AtTarget
          /\ AtRef.key = KeyColumn(AtTarget) /\ AtRef.inferred
      BY DEF AtRef, Ref
    <2> HIDE DEF n
    <2>3. \A k, a : LaterOf(k, a) = RefsOf(k, a) \cup (IF k = from /\ a = col THEN {n} ELSE {})
      <3>1. \A k, a : LaterOf(k, a) = {i \in 1 .. n : refs'[i].from = k /\ refs'[i].col = a}
        BY <2>1 DEF LaterOf
      <3>2. \A k, a : RefsOf(k, a) = {i \in 1 .. Len(refs) : refs'[i].from = k /\ refs'[i].col = a}
        BY <2>1 DEF RefsOf
      <3>3. refs'[n].from = from /\ refs'[n].col = col
        BY <2>1, <2>2
      <3> HIDE DEF from, col
      <3> QED
        BY <2>1, <3>1, <3>2, <3>3
    <2>4. RefsOf(from, col) = {} /\ LaterOf(from, col) = {n}
      <3>1. RefsOf(from, col) = {}
        BY <1>4, <1>7
      <3> HIDE DEF from, col
      <3>2. LaterOf(from, col) = RefsOf(from, col) \cup {n}
        BY <2>3
      <3> QED
        BY <3>1, <3>2
    <2>5. LinkedUpTo(cursor - 1)'
      <3>1. \A k, a : RefsOf(k, a) # {} => LaterOf(k, a) # {}
        <4> HIDE DEF from, col
        <4> QED
          BY <2>3
      <3> QED
        BY <1>5, <2>4, <3>1
    <2>6. ASSUME NEW i \in 1 .. n, refs'[i].inferred
          PROVE  /\ refs'[i].to \in Keys
                 /\ refs'[i].key \in FoldedNames(TableOf(refs'[i].to).columns)
                 /\ LaterOf(refs'[i].from, refs'[i].col) = {i}
                 /\ \E t \in Range(tables) : \E c \in Range(t.columns) :
                      /\ refs'[i].from = KeyOf(t) /\ refs'[i].col = c.name /\ ~ IsPrimary(c)
                      /\ Keyed(Stem(Fold(c.name))) => Fold(refs'[i].to[3]) = Stem(Fold(c.name))
      <3>1. CASE i \in 1 .. Len(refs)
        <4>1. /\ refs'[i] = refs[i] /\ refs[i].inferred
              /\ RefsOf(refs[i].from, refs[i].col) = {i}
          BY <2>1, <2>6, <3>1 DEF InferredRight
        <4>2. ~ (refs[i].from = from /\ refs[i].col = col)
          BY <2>4, <4>1
        <4>3. LaterOf(refs[i].from, refs[i].col) = {i}
          <5>1. refs'[i].from = refs[i].from /\ refs'[i].col = refs[i].col
            BY <4>1
          <5>2. \A k, a : ~ (k = from /\ a = col) => LaterOf(k, a) = RefsOf(k, a)
            <6> HIDE DEF from, col
            <6> QED
              BY <2>3
          <5> HIDE DEF from, col
          <5> QED
            BY <4>1, <4>2, <5>1, <5>2
        <4> QED
          BY <3>1, <4>1, <4>3 DEF InferredRight
      <3>2. CASE i = n
        <4>1. PICK u \in Range(tables) : AtTarget = KeyOf(u) /\ u = tables[Min(AtKeyed)]
          BY <1>3, <1>7
        <4>2. /\ KeyOf(u) \in Keys /\ TableOf(KeyOf(u)) = u
              /\ KeyColumn(KeyOf(u)) \in FoldedNames(u.columns)
          BY <1>3, <1>7, <4>1, KeyColumnOwn
        <4>3. Keyed(AtStem) => Fold(AtTarget[3]) = AtStem
          BY <1>3, <4>1 DEF KeyOf
        <4>4. refs'[i] = AtRef
          BY <2>1, <3>2
        <4>5. /\ refs'[i].to \in Keys
              /\ refs'[i].key \in FoldedNames(TableOf(refs'[i].to).columns)
          BY <2>2, <4>1, <4>2, <4>4
        <4>6. LaterOf(refs'[i].from, refs'[i].col) = {i}
          BY <2>2, <2>4, <3>2, <4>4
        <4>7. \E t \in Range(tables) : \E c \in Range(t.columns) :
                /\ refs'[i].from = KeyOf(t) /\ refs'[i].col = c.name /\ ~ IsPrimary(c)
                /\ Keyed(Stem(Fold(c.name))) => Fold(refs'[i].to[3]) = Stem(Fold(c.name))
          BY <1>3, <1>7, <2>2, <4>3, <4>4 DEF AtStem
        <4> QED
          BY <4>5, <4>6, <4>7
      <3> QED
        BY <2>1, <3>1, <3>2
    <2>7. InferredRight'
      <3>1. \A i \in 1 .. Len(refs') : refs'[i].inferred =>
              /\ refs'[i].to \in Keys
              /\ refs'[i].key \in FoldedNames(TableOf(refs'[i].to).columns)
              /\ LaterOf(refs'[i].from, refs'[i].col) = {i}
              /\ \E t \in Range(tables) : \E c \in Range(t.columns) :
                   /\ refs'[i].from = KeyOf(t) /\ refs'[i].col = c.name /\ ~ IsPrimary(c)
                   /\ Keyed(Stem(Fold(c.name))) => Fold(refs'[i].to[3]) = Stem(Fold(c.name))
        <4> HIDE DEF from, col
        <4> QED
          BY <2>1, <2>6, Zenon
      <3> QED
        BY <1>1, <3>1, RightLater
    <2> QED
      BY <2>5, <2>7
  <1> QED
    BY <1>6, <1>7, InferCases

\* The loop has linked the columns it has passed, and what it has linked in the
\* end stays so.
LinkInv ==
  /\ stage = "declared" => cursor = 1
  /\ stage = "infer" =>
       /\ RefsTold /\ SeenTold /\ cursor - 1 <= Len(Columns)
       /\ ColumnsOwn => InferredRight /\ LinkedUpTo(cursor - 1)
  /\ stage \in {"union", "diagnose", "rank", "report"} \/ Done =>
       /\ tables \in Scans
       /\ ColumnsOwn => InferredRight /\ LinkedUpTo(Len(Columns))

\* A scan starts so.
LEMMA ScannedLinks == Scanned => LinkInv
  BY DEF Scanned, LinkInv, Done

\* Every step keeps it: the relationships are found once, from the tables.
LEMMA AnalyseLinks == GroupsInv /\ ContextInv /\ LinkInv /\ [Analyse]_analysis => LinkInv'
  <1> SUFFICES ASSUME GroupsInv, ContextInv, LinkInv, [Analyse]_analysis
               PROVE  LinkInv'
    OBVIOUS
  <1>1. tables' = tables
    BY DEF Analyse, analysis, Declared, InferColumn, Inferred, Union, Group, Diagnose, Rank,
           WriteContext, Compare
  <1>2. /\ Columns' = Columns /\ ColumnsOwn' = ColumnsOwn
        /\ UNCHANGED refs => RefsTold' = RefsTold /\ InferredRight' = InferredRight
                             /\ \A n : LinkedUpTo(n)' = LinkedUpTo(n)
        /\ UNCHANGED <<refs, seen>> => SeenTold' = SeenTold
    BY <1>1, JudgedByTables
  <1>3. refs \in Seq(Range(refs)) /\ cursor \in Nat \ {0}
    BY DEF GroupsInv, ContextInv
  <1>4. CASE UNCHANGED analysis
    <2>1. UNCHANGED <<refs, seen, report, stage, cursor>>
      BY <1>4 DEF analysis, analysed
    <2> QED
      BY <1>1, <1>2, <2>1 DEF LinkInv, Done
  <1>5. CASE Union \/ Group \/ Diagnose \/ Rank \/ WriteContext
    <2>1. /\ UNCHANGED refs
          /\ stage \in {"union", "diagnose", "rank", "report"}
          /\ stage' \in {"union", "diagnose", "rank", "report", "done"}
      BY <1>5 DEF Union, Group, Diagnose, Rank, WriteContext
    <2> QED
      BY <1>1, <1>2, <2>1 DEF LinkInv, Done
  <1>6. CASE Declared
    <2>1. /\ stage = "declared" /\ stage' = "infer" /\ UNCHANGED cursor /\ cursor = 1
      BY <1>6 DEF Declared, LinkInv
    <2>2. tables \in Scans
      BY <2>1 DEF ContextInv
    <2>3. RefsTold' /\ SeenTold' /\ \A i \in 1 .. Len(refs') : ~ refs'[i].inferred
      BY <1>6, <2>2, DeclaredTold
    <2>4. InferredRight'
      BY <2>3 DEF InferredRight
    <2>5. Len(Columns) \in Nat
      BY <2>2, ColumnsListed
    <2>6. \A m \in 1 .. cursor' - 1 : FALSE
      BY <2>1
    <2>7. LinkedUpTo(cursor - 1)'
      BY <2>6 DEF LinkedUpTo
    <2>8. cursor' - 1 <= Len(Columns)'
      BY <1>2, <2>1, <2>5
    <2> QED
      BY <2>1, <2>3, <2>4, <2>7, <2>8 DEF LinkInv, Done
  <1>7. CASE InferColumn
    <2>1. stage = "infer" /\ stage' = "infer" /\ cursor' = cursor + 1 /\ cursor <= Len(Columns)
      BY <1>7 DEF InferColumn
    <2>2. /\ tables \in Scans /\ RefsTold /\ SeenTold
          /\ ColumnsOwn => InferredRight /\ LinkedUpTo(cursor - 1)
      BY <2>1 DEF ContextInv, LinkInv
    <2>3. RefsTold' /\ SeenTold'
      BY <1>3, <1>7, <2>2, InferTold
    <2>4. ColumnsOwn => InferredRight' /\ LinkedUpTo(cursor - 1)'
      BY <1>3, <1>7, <2>2, InferLinks
    <2>5. cursor' - 1 <= Len(Columns)'
      <3>1. cursor' - 1 = cursor
        BY <1>3, <2>1
      <3> QED
        BY <1>2, <2>1, <3>1
    <2> QED
      BY <1>2, <2>1, <2>3, <2>4, <2>5 DEF LinkInv, Done
  <1>8. CASE Inferred
    <2>1. /\ stage = "infer" /\ stage' = "union" /\ cursor > Len(Columns) /\ UNCHANGED refs
      BY <1>8 DEF Inferred
    <2>2. /\ tables \in Scans /\ cursor - 1 <= Len(Columns)
          /\ ColumnsOwn => InferredRight /\ LinkedUpTo(cursor - 1)
      BY <2>1 DEF ContextInv, LinkInv
    <2>3. cursor - 1 = Len(Columns)
      <3>1. Len(Columns) \in Nat
        BY <2>2, ColumnsListed
      <3> QED
        BY <1>3, <2>1, <2>2, <3>1
    <2>4. ColumnsOwn => InferredRight' /\ LinkedUpTo(Len(Columns))'
      BY <1>2, <2>1, <2>2, <2>3
    <2> QED
      BY <1>1, <1>2, <2>1, <2>2, <2>4 DEF LinkInv, Done
  <1>9. CASE Compare
    <2>1. stage = "compare" /\ stage' = "done" /\ UNCHANGED report
      BY <1>9 DEF Compare, analysed
    <2>2. report' = <<>>
      BY <2>1 DEF ContextInv
    <2> QED
      BY <2>1, <2>2 DEF LinkInv, Done
  <1> QED
    BY <1>4, <1>5, <1>6, <1>7, <1>8, <1>9 DEF Analyse

\* The relationships are right, for every scan whose tables and columns are told
\* apart by their lower-case names and by the key that inferRefs keeps of them
\* (inferRefs).
THEOREM LinksAlwaysRight == Analysing => [](ColumnsOwn => LinksRight)
  <1>1. LinkInv => (ColumnsOwn => LinksRight)
    <2> SUFFICES ASSUME LinkInv, ColumnsOwn
                 PROVE  LinksRight
      OBVIOUS
    <2>1. CASE stage \in {"union", "diagnose", "rank", "report"} \/ Done
      BY <2>1, LinksAreRight DEF LinkInv
    <2>2. CASE ~ (stage \in {"union", "diagnose", "rank", "report"} \/ Done)
      BY <2>2 DEF LinksRight
    <2> QED
      BY <2>1, <2>2
  <1> QED
    BY <1>1, ScannedGroups, AnalyseGroups, ScannedContext, AnalyseContext, ScannedLinks,
       AnalyseLinks, PTL DEF Analysing

-----------------------------------------------------------------------------
(* The comparison of two scans.                                             *)

\* A piece of a sequence, apart at one of its elements.
LEMMA ApartAt ==
  ASSUME NEW S, NEW s \in Seq(S), NEW lo \in Nat \ {0}, NEW hi \in Nat, hi <= Len(s),
         NEW i \in lo .. hi
  PROVE  SubSeq(s, lo, hi) = SubSeq(s, lo, i - 1) \o <<s[i]>> \o SubSeq(s, i + 1, hi)
  <1> DEFINE a == SubSeq(s, lo, i - 1)
             b == SubSeq(s, i + 1, hi)
             w == SubSeq(s, lo, hi)
  <1>1. /\ a \in Seq(S) /\ Len(a) = i - lo /\ \A n \in 1 .. i - lo : a[n] = s[lo + n - 1]
    <2>1. i - 1 \in Int /\ (lo <= i - 1 => lo \in 1 .. Len(s) /\ i - 1 \in 1 .. Len(s))
      OBVIOUS
    <2> QED
      BY <2>1, SubSeqProperties
  <1>2. /\ b \in Seq(S) /\ Len(b) = hi - i /\ \A n \in 1 .. hi - i : b[n] = s[i + n]
    OBVIOUS
  <1>3. /\ w \in Seq(S) /\ Len(w) = hi - lo + 1
        /\ \A n \in 1 .. hi - lo + 1 : w[n] = s[lo + n - 1]
    OBVIOUS
  <1> HIDE DEF a, b, w
  <1> DEFINE v == a \o <<s[i]>> \o b
  <1>4. s[i] \in S
    OBVIOUS
  <1>5. v \in Seq(S) /\ Len(v) = hi - lo + 1
    BY <1>1, <1>2, <1>4
  <1>6. ASSUME NEW n \in 1 .. hi - lo + 1
        PROVE  v[n] = w[n]
    <2> DEFINE e == <<s[i]>>
               d == a \o e
    <2>1. e \in Seq(S) /\ Len(e) = 1 /\ e[1] = s[i]
      BY <1>4
    <2>2. v = d \o b
      OBVIOUS
    <2> HIDE DEF e, v
    <2>3. /\ d \in Seq(S) /\ Len(d) = i - lo + 1
          /\ \A m \in 1 .. i - lo + 1 : d[m] = IF m <= i - lo THEN a[m] ELSE e[m - (i - lo)]
      <3>1. /\ d \in Seq(S) /\ Len(d) = Len(a) + Len(e)
            /\ \A m \in 1 .. Len(a) + Len(e) : d[m] = IF m <= Len(a) THEN a[m] ELSE e[m - Len(a)]
        <4> HIDE DEF d
        <4>1. a \in Seq(S) /\ e \in Seq(S)
          BY <1>1, <2>1
        <4> QED
          BY <4>1, ConcatProperties DEF d
      <3> HIDE DEF d
      <3>2. Len(a) = i - lo /\ Len(e) = 1
        BY <1>1, <2>1
      <3> QED
        BY <3>1, <3>2
    <2> HIDE DEF d
    <2>4. v[n] = IF n <= i - lo + 1 THEN d[n] ELSE b[n - (i - lo + 1)]
      <3>1. n \in 1 .. Len(d) + Len(b)
        BY <1>2, <2>3
      <3> QED
        BY <1>2, <2>2, <2>3, <3>1, ConcatProperties
    <2>5. CASE n <= i - lo
      BY <1>1, <1>3, <2>3, <2>4, <2>5
    <2>6. CASE n = i - lo + 1
      BY <1>3, <2>1, <2>3, <2>4, <2>6
    <2>7. CASE n > i - lo + 1
      <3> DEFINE m == n - (i - lo + 1)
      <3>1. m \in 1 .. hi - i /\ i + m = lo + n - 1
        BY <2>7
      <3>2. v[n] = b[m]
        BY <2>4, <2>7
      <3> HIDE DEF m
      <3>3. b[m] = s[i + m]
        BY <1>2, <3>1
      <3> QED
        BY <1>3, <3>1, <3>2, <3>3
    <2> QED
      BY <2>5, <2>6, <2>7
  <1> HIDE DEF v
  <1>7. v = w
    BY <1>3, <1>5, <1>6
  <1> QED
    BY <1>7 DEF v, w, a, b

\* The last element of a part stays where it is when more is put behind.
LEMMA LastStays ==
  ASSUME NEW S, NEW a \in Seq(S), NEW b \in Seq(S)
  PROVE  /\ a \o b \in Seq(S) /\ Len(a \o b) = Len(a) + Len(b)
         /\ \A i \in 1 .. Len(a) : (a \o b)[i] = a[i]
         /\ b # <<>> => (a \o b)[Len(a) + 1] = b[1]
  <1> DEFINE c == a \o b
  <1>1. /\ c \in Seq(S) /\ Len(c) = Len(a) + Len(b)
        /\ \A i \in 1 .. Len(a) + Len(b) : c[i] = IF i <= Len(a) THEN a[i] ELSE b[i - Len(a)]
    BY ConcatProperties
  <1>2. b # <<>> => Len(b) \in Nat \ {0} /\ Len(a) + 1 - Len(a) = 1
    OBVIOUS
  <1> HIDE DEF c
  <1>3. \A i \in 1 .. Len(a) : c[i] = a[i]
    BY <1>1
  <1>4. b # <<>> => c[Len(a) + 1] = b[1]
    BY <1>1, <1>2
  <1> QED
    BY <1>1, <1>3, <1>4 DEF c

\* A path with two slashes is its parts with a slash between them.
LEMMA CutJoins ==
  ASSUME NEW S, NEW s \in Seq(S), NEW i \in 1 .. Len(s), NEW j \in 1 .. Len(s),
         i < j, s[i] = "/", s[j] = "/"
  PROVE  s = Cut(s)[1] \o <<"/">> \o (Cut(s)[2] \o <<"/">> \o Cut(s)[3])
  <1> DEFINE I == {n \in 1 .. Len(s) : s[n] = "/"}
             first == CHOOSE n \in 1 .. Len(s) : /\ s[n] = "/"
                                                /\ \A m \in 1 .. n - 1 : s[m] # "/"
             next == CHOOSE n \in first + 1 .. Len(s) :
                       /\ s[n] = "/" /\ \A m \in first + 1 .. n - 1 : s[m] # "/"
  <1>1. Len(s) \in Nat
    OBVIOUS
  <1>2. /\ first \in 1 .. Len(s) /\ s[first] = "/" /\ first <= i
    <2>1. i \in I /\ I \in SUBSET Nat
      OBVIOUS
    <2> HIDE DEF I
    <2>2. PICK x \in I : \A y \in I : x <= y
      BY <2>1, LeastNat
    <2>3. x \in 1 .. Len(s) /\ s[x] = "/"
      BY <2>2 DEF I
    <2>4. ASSUME NEW m \in 1 .. x - 1
          PROVE  s[m] # "/"
      <3>1. m \in 1 .. Len(s) /\ ~ (x <= m)
        BY <2>3
      <3> QED
        BY <2>2, <3>1 DEF I
    <2>5. /\ first \in 1 .. Len(s) /\ s[first] = "/"
          /\ \A m \in 1 .. first - 1 : s[m] # "/"
      BY <2>3, <2>4
    <2> HIDE DEF first
    <2> QED
      BY <2>5
  <1> HIDE DEF first
  <1>3. next \in first + 1 .. Len(s) /\ s[next] = "/"
    <2> DEFINE J == {n \in first + 1 .. Len(s) : s[n] = "/"}
    <2>1. j \in J /\ J \in SUBSET Nat
      BY <1>2
    <2> HIDE DEF J
    <2>2. PICK x \in J : \A y \in J : x <= y
      BY <2>1, LeastNat
    <2>3. x \in first + 1 .. Len(s) /\ s[x] = "/"
      BY <2>2 DEF J
    <2>4. ASSUME NEW m \in first + 1 .. x - 1
          PROVE  s[m] # "/"
      <3>1. m \in first + 1 .. Len(s) /\ ~ (x <= m)
        BY <1>1, <1>2, <2>3
      <3> QED
        BY <2>2, <3>1 DEF J
    <2>5. \E n \in first + 1 .. Len(s) :
            s[n] = "/" /\ \A m \in first + 1 .. n - 1 : s[m] # "/"
      BY <2>3, <2>4
    <2> QED
      BY <2>5
  <1>4. Cut(s) = <<SubSeq(s, 1, first - 1), SubSeq(s, first + 1, next - 1),
                   SubSeq(s, next + 1, Len(s))>>
    BY Zenon DEF Cut, first, next
  <1> HIDE DEF next
  <1>5. SubSeq(s, 1, Len(s)) = SubSeq(s, 1, first - 1) \o <<"/">> \o SubSeq(s, first + 1, Len(s))
    <2>1. 1 \in Nat \ {0} /\ Len(s) \in Nat /\ Len(s) <= Len(s) /\ first \in 1 .. Len(s)
      BY <1>1, <1>2
    <2> QED
      BY <1>2, <2>1, ApartAt
  <1>6. SubSeq(s, first + 1, Len(s))
          = SubSeq(s, first + 1, next - 1) \o <<"/">> \o SubSeq(s, next + 1, Len(s))
    <2>1. first + 1 \in Nat \ {0} /\ Len(s) \in Nat /\ Len(s) <= Len(s)
      BY <1>1, <1>2
    <2> DEFINE lo == first + 1
    <2> HIDE DEF lo
    <2>2. lo \in Nat \ {0} /\ next \in lo .. Len(s)
      BY <1>3, <2>1 DEF lo
    <2>3. SubSeq(s, lo, Len(s)) = SubSeq(s, lo, next - 1) \o <<s[next]>> \o SubSeq(s, next + 1, Len(s))
      BY <2>1, <2>2, ApartAt
    <2> QED
      BY <1>3, <2>3 DEF lo
  <1>7. SubSeq(s, 1, Len(s)) = s
    OBVIOUS
  <1> DEFINE a == SubSeq(s, 1, first - 1)
             b == SubSeq(s, first + 1, next - 1)
             c == SubSeq(s, next + 1, Len(s))
  <1>8. Cut(s) = <<a, b, c>> /\ s = a \o <<"/">> \o (b \o <<"/">> \o c)
    BY <1>4, <1>5, <1>6, <1>7, Zenon
  <1> HIDE DEF a, b, c
  <1>9. Cut(s)[1] = a /\ Cut(s)[2] = b /\ Cut(s)[3] = c
    BY <1>8
  <1> QED
    BY <1>8, <1>9, Zenon

\* The names of a table as lists of parts.
InParts(k) == \A p \in {k[1], k[2], k[3]} : p \in Seq(Range(p))

\* So two tables of one cut path have one path.
LEMMA CutTells ==
  ASSUME NEW k, NEW l, InParts(k), InParts(l), Cut(PathOf(k)) = Cut(PathOf(l))
  PROVE  PathOf(k) = PathOf(l)
  <1>1. ASSUME NEW x, InParts(x)
        PROVE  LET s == PathOf(x)
               IN  s = Cut(s)[1] \o <<"/">> \o (Cut(s)[2] \o <<"/">> \o Cut(s)[3])
    <2> DEFINE a == x[1]
               b == x[2]
               c == x[3]
               S == Range(a) \cup Range(b) \cup Range(c) \cup {"/"}
               s == PathOf(x)
               slash == <<"/">>
    <2>1. a \in Seq(Range(a)) /\ b \in Seq(Range(b)) /\ c \in Seq(Range(c))
      BY <1>1 DEF InParts
    <2>2. a \in Seq(S) /\ b \in Seq(S) /\ c \in Seq(S)
      BY <2>1
    <2>3. slash \in Seq(S) /\ Len(slash) = 1 /\ slash[1] = "/" /\ slash # <<>>
      OBVIOUS
    <2>4. s = ((a \o slash) \o b) \o slash \o c
      BY DEF PathOf
    <2> HIDE DEF S, a, b, c, slash, s
    <2> DEFINE u == a \o slash
               v == u \o b
               w == v \o slash
    <2>5. u \in Seq(S) /\ Len(u) = Len(a) + 1 /\ u[Len(u)] = "/"
      <3>1. u \in Seq(S) /\ Len(u) = Len(a) + Len(slash) /\ u[Len(a) + 1] = slash[1]
        BY <2>2, <2>3, LastStays
      <3> HIDE DEF u
      <3> QED
        BY <2>3, <3>1
    <2>6. v \in Seq(S) /\ Len(v) = Len(u) + Len(b) /\ v[Len(u)] = u[Len(u)]
      <3> HIDE DEF u
      <3>1. Len(u) \in 1 .. Len(u)
        BY <2>2, <2>5
      <3> QED
        BY <2>2, <2>5, <3>1, LastStays
    <2>7. /\ w \in Seq(S) /\ Len(w) = Len(v) + 1 /\ w[Len(u)] = v[Len(u)]
          /\ w[Len(w)] = "/"
      <3> HIDE DEF u, v
      <3>1. Len(u) \in 1 .. Len(v)
        BY <2>2, <2>5, <2>6
      <3> QED
        <4>1. /\ w \in Seq(S) /\ Len(w) = Len(v) + Len(slash) /\ w[Len(v) + 1] = slash[1]
              /\ w[Len(u)] = v[Len(u)]
          BY <2>3, <2>6, <3>1, LastStays
        <4> HIDE DEF w
        <4> QED
          BY <2>3, <4>1
    <2>8. /\ s \in Seq(S) /\ Len(s) = Len(w) + Len(c)
          /\ s[Len(u)] = w[Len(u)] /\ s[Len(w)] = w[Len(w)]
      <3>1. s = w \o c
        BY <2>4
      <3> HIDE DEF u, v, w
      <3>2. Len(u) \in 1 .. Len(w) /\ Len(w) \in 1 .. Len(w)
        BY <2>2, <2>5, <2>6, <2>7
      <3> QED
        BY <2>2, <2>7, <3>1, <3>2, LastStays
    <2> HIDE DEF u, v, w
    <2> DEFINE i == Len(u)
               j == Len(w)
    <2>9. i \in 1 .. Len(s) /\ j \in 1 .. Len(s) /\ i < j /\ s[i] = "/" /\ s[j] = "/"
      BY <2>2, <2>5, <2>6, <2>7, <2>8
    <2> HIDE DEF i, j
    <2> QED
      BY <2>8, <2>9, CutJoins DEF s
  <1> QED
    BY <1>1

\* Where no two names differ in case only, the map of a list has each of its
\* entries under its name.
LEMMA ByNameOwn ==
  ASSUME NEW list, list \in Seq(Range(list)), OneCase(list)
  PROVE  /\ DOMAIN ByName(list) = FoldedNames(list)
         /\ \A x \in Range(list) : /\ Fold(x.name) \in FoldedNames(list)
                                   /\ ByName(list)[Fold(x.name)] = x
         /\ \A n \in FoldedNames(list) : /\ ByName(list)[n] \in Range(list)
                                         /\ Fold(ByName(list)[n].name) = n
  <1> DEFINE f == [i \in 1 .. Len(list) |-> Fold(list[i].name)]
             At(n) == CHOOSE i \in 1 .. Len(list) :
                        /\ Fold(list[i].name) = n
                        /\ \A j \in i + 1 .. Len(list) : Fold(list[j].name) # n
  <1>1. Len(list) \in Nat /\ Range(list) = {list[i] : i \in 1 .. Len(list)}
    BY DEF Range
  <1>2. f \in Surjection(1 .. Len(list), FoldedNames(list))
    BY DEF Surjection, FoldedNames
  <1>3. IsFiniteSet(1 .. Len(list)) /\ Cardinality(1 .. Len(list)) = Len(list)
    <2> DEFINE n == Len(list)
    <2>1. n \in Int /\ 1 \in Int /\ (1 <= n \/ n = 0)
      BY <1>1
    <2> HIDE DEF n
    <2>2. IsFiniteSet(1 .. n) /\ Cardinality(1 .. n) = n
      BY <2>1, FS_Interval
    <2> QED
      BY <2>2 DEF n
  <1>4. Cardinality(FoldedNames(list)) = Len(list)
    BY DEF OneCase
  <1> HIDE DEF f
  <1>5. f \in Injection(1 .. Len(list), FoldedNames(list))
    BY <1>2, <1>3, <1>4, FS_Surjection
  <1>6. \A i, j \in 1 .. Len(list) : Fold(list[i].name) = Fold(list[j].name) => i = j
    <2>1. \A i, j \in 1 .. Len(list) : f[i] = f[j] => i = j
      BY <1>5 DEF Injection, IsInjective
    <2> QED
      BY <2>1 DEF f
  <1>7. ASSUME NEW i \in 1 .. Len(list)
        PROVE  At(Fold(list[i].name)) = i
    <2>1. \A j \in i + 1 .. Len(list) : Fold(list[j].name) # Fold(list[i].name)
      <3>1. \A j \in i + 1 .. Len(list) : j \in 1 .. Len(list) /\ j # i
        BY <1>1
      <3> QED
        BY <1>6, <3>1
    <2>2. At(Fold(list[i].name)) \in 1 .. Len(list)
          /\ Fold(list[At(Fold(list[i].name))].name) = Fold(list[i].name)
      BY <2>1
    <2> HIDE DEF At
    <2> QED
      BY <1>6, <2>2
  <1>8. ByName(list) = [n \in FoldedNames(list) |-> list[At(n)]]
    BY DEF ByName, FoldedNames
  <1> HIDE DEF At
  <1>9. \A i \in 1 .. Len(list) : /\ Fold(list[i].name) \in FoldedNames(list)
                                  /\ ByName(list)[Fold(list[i].name)] = list[i]
    BY <1>7, <1>8 DEF FoldedNames
  <1>10. \A n \in FoldedNames(list) : \E i \in 1 .. Len(list) : n = Fold(list[i].name)
    BY DEF FoldedNames
  <1>11. DOMAIN ByName(list) = FoldedNames(list)
    BY <1>8
  <1>12. \A x \in Range(list) : \E i \in 1 .. Len(list) : x = list[i]
    BY <1>1
  <1>13. ASSUME NEW n \in FoldedNames(list)
         PROVE  ByName(list)[n] \in Range(list) /\ Fold(ByName(list)[n].name) = n
    <2>1. PICK i \in 1 .. Len(list) : n = Fold(list[i].name)
      BY <1>10
    <2>2. ByName(list)[n] = list[i] /\ list[i] \in Range(list)
      BY <1>1, <1>9, <2>1
    <2> QED
      BY <2>1, <2>2
  <1>14. ASSUME NEW x \in Range(list)
         PROVE  Fold(x.name) \in FoldedNames(list) /\ ByName(list)[Fold(x.name)] = x
    <2>1. PICK i \in 1 .. Len(list) : x = list[i]
      BY <1>12
    <2> QED
      BY <1>9, <2>1
  <1> QED
    BY <1>11, <1>13, <1>14

\* So no two of its entries have one name.
LEMMA OneOfName ==
  ASSUME NEW list, list \in Seq(Range(list)), OneCase(list)
  PROVE  \A x, y \in Range(list) : Fold(x.name) = Fold(y.name) => x = y
  BY ByNameOwn

\* A map of snapshots has tables of the scan, under their paths.
LEMMA SnapshotsOwn ==
  ASSUME NEW ts, ts \in Seq(Range(ts))
  PROVE  \A p \in DOMAIN Snapshots(ts) : /\ Snapshots(ts)[p] \in Range(ts)
                                         /\ PathOf(KeyOf(Snapshots(ts)[p])) = p
  <1>1. /\ Len(ts) \in Nat /\ \A i \in 1 .. Len(ts) : ts[i] \in Range(ts)
        /\ DOMAIN Snapshots(ts) = {PathOf(KeyOf(ts[i])) : i \in 1 .. Len(ts)}
    BY DEF Snapshots, Range
  <1>2. ASSUME NEW p \in DOMAIN Snapshots(ts)
        PROVE  /\ Snapshots(ts)[p] \in Range(ts) /\ PathOf(KeyOf(Snapshots(ts)[p])) = p
    <2> DEFINE I == {i \in 1 .. Len(ts) : PathOf(KeyOf(ts[i])) = p}
    <2>1. Snapshots(ts)[p] = ts[Max(I)]
      BY DEF Snapshots
    <2>2. I # {} /\ I \in SUBSET (0 .. Len(ts))
      BY <1>1
    <2>3. \A i \in I : i \in 1 .. Len(ts) /\ PathOf(KeyOf(ts[i])) = p
      OBVIOUS
    <2> HIDE DEF I
    <2>4. PICK x \in I : \A y \in I : y <= x
      BY <1>1, <2>2, GreatestNat
    <2>5. \A y \in I : x >= y
      BY <1>1, <2>2, <2>4
    <2>6. Max(I) \in I
      BY <2>5 DEF Max
    <2> QED
      BY <1>1, <2>1, <2>3, <2>6
  <1> QED
    BY <1>2

\* What a report says of a column: that it went, that it came, or how it changed.
LEMMA ColumnsTold ==
  ASSUME NEW old, old \in Seq(Range(old)), OneCase(old),
         NEW new, new \in Seq(Range(new)), OneCase(new), NEW ch
  PROVE  ch \in DiffColumns(old, new) <=>
           \/ \E x \in Range(old) : /\ Fold(x.name) \notin FoldedNames(new)
                                    /\ ch = ColumnChange(x.name, "type", TypeOf(x), <<>>)
           \/ \E y \in Range(new) : /\ Fold(y.name) \notin FoldedNames(old)
                                    /\ ch = ColumnChange(y.name, "type", <<>>, TypeOf(y))
           \/ \E x \in Range(old) : \E y \in Range(new) :
                Fold(x.name) = Fold(y.name) /\ ch \in CompareColumnFields(x, y)
  <1> DEFINE o == ByName(old)
             n == ByName(new)
             O == FoldedNames(old)
             N == FoldedNames(new)
  <1>1. /\ DOMAIN o = O
        /\ \A x \in Range(old) : Fold(x.name) \in O /\ o[Fold(x.name)] = x
        /\ \A k \in O : o[k] \in Range(old) /\ Fold(o[k].name) = k
    BY ByNameOwn
  <1>2. /\ DOMAIN n = N
        /\ \A y \in Range(new) : Fold(y.name) \in N /\ n[Fold(y.name)] = y
        /\ \A k \in N : n[k] \in Range(new) /\ Fold(n[k].name) = k
    BY ByNameOwn
  <1>3. DiffColumns(old, new) =
          {ColumnChange(o[c].name, "type", TypeOf(o[c]), <<>>) : c \in O \ N}
            \cup {ColumnChange(n[c].name, "type", <<>>, TypeOf(n[c])) : c \in N \ O}
            \cup UNION {CompareColumnFields(o[c], n[c]) : c \in O \cap N}
    BY <1>1, <1>2 DEF DiffColumns
  <1> HIDE DEF o, n, O, N
  <1>4. ch \in DiffColumns(old, new) <=>
          \/ \E c \in O \ N : ch = ColumnChange(o[c].name, "type", TypeOf(o[c]), <<>>)
          \/ \E c \in N \ O : ch = ColumnChange(n[c].name, "type", <<>>, TypeOf(n[c]))
          \/ \E c \in O \cap N : ch \in CompareColumnFields(o[c], n[c])
    BY <1>3
  <1>5. (\E c \in O \ N : ch = ColumnChange(o[c].name, "type", TypeOf(o[c]), <<>>))
          <=> \E x \in Range(old) : /\ Fold(x.name) \notin N
                                    /\ ch = ColumnChange(x.name, "type", TypeOf(x), <<>>)
    BY <1>1
  <1>6. (\E c \in N \ O : ch = ColumnChange(n[c].name, "type", <<>>, TypeOf(n[c])))
          <=> \E y \in Range(new) : /\ Fold(y.name) \notin O
                                    /\ ch = ColumnChange(y.name, "type", <<>>, TypeOf(y))
    BY <1>2
  <1>7. (\E c \in O \cap N : ch \in CompareColumnFields(o[c], n[c]))
          <=> \E x \in Range(old) : \E y \in Range(new) :
                Fold(x.name) = Fold(y.name) /\ ch \in CompareColumnFields(x, y)
    <2>1. ASSUME NEW c \in O \cap N, ch \in CompareColumnFields(o[c], n[c])
          PROVE  \E x \in Range(old) : \E y \in Range(new) :
                   Fold(x.name) = Fold(y.name) /\ ch \in CompareColumnFields(x, y)
      BY <1>1, <1>2, <2>1
    <2>2. ASSUME NEW x \in Range(old), NEW y \in Range(new), Fold(x.name) = Fold(y.name),
                 ch \in CompareColumnFields(x, y)
          PROVE  \E c \in O \cap N : ch \in CompareColumnFields(o[c], n[c])
      BY <1>1, <1>2, <2>2
    <2> QED
      BY <2>1, <2>2
  <1> QED
    BY <1>4, <1>5, <1>6, <1>7 DEF O, N

\* How a column changed: in its type, or in one of its attributes, each of which
\* is told if it differs and only then.
LEMMA FieldsTold ==
  ASSUME NEW x, NEW y
  PROVE  /\ \A ch \in CompareColumnFields(x, y) :
              /\ ch.name = x.name /\ ch.old # <<>>
              /\ ch.field = "type" => Normal(x.type) # Normal(y.type) /\ ch.new = <<y.type>>
              /\ ch.field \in Flags => /\ x.at[ch.field] # y.at[ch.field]
                                      /\ ch.new = <<y.at[ch.field]>>
         /\ Normal(x.type) # Normal(y.type) =>
              \E ch \in CompareColumnFields(x, y) : ch.name = x.name /\ ch.field = "type"
         /\ \A f \in Flags : x.at[f] # y.at[f] =>
              \E ch \in CompareColumnFields(x, y) : ch.name = x.name /\ ch.field = f
  <1> DEFINE type == ColumnChange(x.name, "type", <<x.type>>, <<y.type>>)
             Attr(f) == ColumnChange(x.name, f, <<x.at[f]>>, <<y.at[f]>>)
  <1>1. \A ch : ch \in CompareColumnFields(x, y) <=>
          \/ Normal(x.type) # Normal(y.type) /\ ch = type
          \/ \E f \in Flags : x.at[f] # y.at[f] /\ ch = Attr(f)
    BY DEF CompareColumnFields
  <1>2. /\ type.name = x.name /\ type.field = "type"
        /\ type.old = <<x.type>> /\ type.new = <<y.type>>
    BY DEF ColumnChange
  <1>3. \A f : /\ Attr(f).name = x.name /\ Attr(f).field = f
              /\ Attr(f).old = <<x.at[f]>> /\ Attr(f).new = <<y.at[f]>>
    BY DEF ColumnChange
  <1>4. "type" \notin Flags /\ \A a : <<a>> # <<>>
    BY ComparedAssumption
  <1> HIDE DEF type, Attr
  <1>5. ASSUME NEW ch \in CompareColumnFields(x, y)
        PROVE  /\ ch.name = x.name /\ ch.old # <<>>
               /\ ch.field = "type" => Normal(x.type) # Normal(y.type) /\ ch.new = <<y.type>>
               /\ ch.field \in Flags => /\ x.at[ch.field] # y.at[ch.field]
                                       /\ ch.new = <<y.at[ch.field]>>
    <2>1. CASE Normal(x.type) # Normal(y.type) /\ ch = type
      BY <1>2, <1>4, <2>1
    <2>2. CASE \E f \in Flags : x.at[f] # y.at[f] /\ ch = Attr(f)
      BY <1>3, <1>4, <2>2
    <2> QED
      BY <1>1, <2>1, <2>2
  <1>6. ASSUME Normal(x.type) # Normal(y.type)
        PROVE  \E ch \in CompareColumnFields(x, y) : ch.name = x.name /\ ch.field = "type"
    BY <1>1, <1>2, <1>6
  <1>7. ASSUME NEW f \in Flags, x.at[f] # y.at[f]
        PROVE  \E ch \in CompareColumnFields(x, y) : ch.name = x.name /\ ch.field = f
    BY <1>1, <1>3, <1>7
  <1> QED
    BY <1>5, <1>6, <1>7

\* The columns that are in both scans are, with their changes made, those of the
\* later one.
LEMMA ColumnsReplay ==
  ASSUME NEW old, old \in Seq(Range(old)), OneCase(old),
         NEW new, new \in Seq(Range(new)), OneCase(new),
         \A c \in Range(new) : c.at = [f \in Flags |-> c.at[f]]
  PROVE  ColumnsAfter(old, DiffColumns(old, new))
           = {[name |-> Fold(c.name), type |-> Normal(c.type), at |-> c.at] :
                c \in {d \in Range(new) : Fold(d.name) \in FoldedNames(old)}}
  <1> DEFINE D == DiffColumns(old, new)
             Entries(c, f) == {ch \in D : Fold(ch.name) = Fold(c.name) /\ ch.field = f}
             Value(c, f, v) == IF Entries(c, f) = {} THEN v
                               ELSE (CHOOSE ch \in Entries(c, f) : TRUE).new[1]
             After(c) == [name |-> Fold(c.name), type |-> Normal(Value(c, "type", c.type)),
                          at |-> [f \in Flags |-> Value(c, f, c.at[f])]]
             Seen(c) == [name |-> Fold(c.name), type |-> Normal(c.type), at |-> c.at]
  <1>1. \A x, y \in Range(old) : Fold(x.name) = Fold(y.name) => x = y
    BY OneOfName
  <1>2. \A x, y \in Range(new) : Fold(x.name) = Fold(y.name) => x = y
    BY OneOfName
  <1>3. /\ \A x \in Range(old) : Fold(x.name) \in FoldedNames(old)
        /\ \A y \in Range(new) : Fold(y.name) \in FoldedNames(new)
        /\ \A k \in FoldedNames(old) : \E x \in Range(old) : Fold(x.name) = k
        /\ \A k \in FoldedNames(new) : \E y \in Range(new) : Fold(y.name) = k
    BY ByNameOwn
  <1>4. \A ch : ch \in D <=>
          \/ \E x \in Range(old) : /\ Fold(x.name) \notin FoldedNames(new)
                                   /\ ch = ColumnChange(x.name, "type", TypeOf(x), <<>>)
          \/ \E y \in Range(new) : /\ Fold(y.name) \notin FoldedNames(old)
                                   /\ ch = ColumnChange(y.name, "type", <<>>, TypeOf(y))
          \/ \E x \in Range(old) : \E y \in Range(new) :
               Fold(x.name) = Fold(y.name) /\ ch \in CompareColumnFields(x, y)
    BY ColumnsTold
  <1>5. \A n, f, a, b : /\ ColumnChange(n, f, a, b).name = n
                        /\ ColumnChange(n, f, a, b).field = f
                        /\ ColumnChange(n, f, a, b).old = a
                        /\ ColumnChange(n, f, a, b).new = b
    BY DEF ColumnChange
  <1> HIDE DEF D
  <1>6. ASSUME NEW x \in Range(old), Fold(x.name) \notin FoldedNames(new)
        PROVE  \E ch \in Entries(x, "type") : ch.new = <<>>
    <2> DEFINE ch == ColumnChange(x.name, "type", TypeOf(x), <<>>)
    <2>1. ch \in D
      BY <1>4, <1>6
    <2>2. ch.name = x.name /\ ch.field = "type" /\ ch.new = <<>>
      BY <1>5
    <2> HIDE DEF ch
    <2> QED
      BY <2>1, <2>2
  <1>7. ASSUME NEW x \in Range(old), NEW y \in Range(new), Fold(x.name) = Fold(y.name), NEW ch,
               ch \in D, Fold(ch.name) = Fold(x.name)
        PROVE  ch \in CompareColumnFields(x, y)
    <2>1. CASE \E u \in Range(old) : /\ Fold(u.name) \notin FoldedNames(new)
                                     /\ ch = ColumnChange(u.name, "type", TypeOf(u), <<>>)
      BY <1>3, <1>5, <1>7, <2>1
    <2>2. CASE \E u \in Range(new) : /\ Fold(u.name) \notin FoldedNames(old)
                                     /\ ch = ColumnChange(u.name, "type", <<>>, TypeOf(u))
      BY <1>3, <1>5, <1>7, <2>2
    <2>3. CASE \E u \in Range(old) : \E v \in Range(new) :
                 Fold(u.name) = Fold(v.name) /\ ch \in CompareColumnFields(u, v)
      <3>1. PICK u \in Range(old), v \in Range(new) :
              Fold(u.name) = Fold(v.name) /\ ch \in CompareColumnFields(u, v)
        BY <2>3
      <3>2. ch.name = u.name
        BY <3>1, FieldsTold
      <3>3. u = x /\ v = y
        BY <1>1, <1>2, <1>7, <3>1, <3>2
      <3> QED
        BY <3>1, <3>3
    <2> QED
      BY <1>4, <1>7, <2>1, <2>2, <2>3
  <1>8. ASSUME NEW x \in Range(old), NEW y \in Range(new), Fold(x.name) = Fold(y.name)
        PROVE  /\ \A ch \in Entries(x, "type") :
                    Normal(x.type) # Normal(y.type) /\ ch.new = <<y.type>>
               /\ \A f \in Flags : \A ch \in Entries(x, f) :
                    x.at[f] # y.at[f] /\ ch.new = <<y.at[f]>>
               /\ Entries(x, "type") = {} => Normal(x.type) = Normal(y.type)
               /\ \A f \in Flags : Entries(x, f) = {} => x.at[f] = y.at[f]
    <2>1. \A f : \A ch \in Entries(x, f) : ch \in CompareColumnFields(x, y) /\ ch.field = f
      BY <1>7, <1>8
    <2>2. \A ch \in CompareColumnFields(x, y) : ch \in D
      BY <1>4, <1>8
    <2>3. \A ch \in Entries(x, "type") : Normal(x.type) # Normal(y.type) /\ ch.new = <<y.type>>
      BY <2>1, FieldsTold
    <2>4. ASSUME NEW f \in Flags, NEW ch \in Entries(x, f)
          PROVE  x.at[f] # y.at[f] /\ ch.new = <<y.at[f]>>
      <3>1. ch \in CompareColumnFields(x, y) /\ ch.field = f
        BY <2>1
      <3> QED
        BY <3>1, FieldsTold
    <2>5. Normal(x.type) # Normal(y.type) => Entries(x, "type") # {}
      <3>1. Normal(x.type) # Normal(y.type) =>
              \E ch \in CompareColumnFields(x, y) : ch.name = x.name /\ ch.field = "type"
        BY FieldsTold
      <3> QED
        BY <2>2, <3>1
    <2>6. \A f \in Flags : x.at[f] # y.at[f] => Entries(x, f) # {}
      <3>1. \A f \in Flags : x.at[f] # y.at[f] =>
              \E ch \in CompareColumnFields(x, y) : ch.name = x.name /\ ch.field = f
        BY FieldsTold
      <3> QED
        BY <2>2, <3>1
    <2> HIDE DEF Entries
    <2> QED
      BY <2>3, <2>4, <2>5, <2>6
  <1> HIDE DEF Entries
  <1>9. ASSUME NEW x \in Range(old), NEW y \in Range(new), Fold(x.name) = Fold(y.name)
        PROVE  After(x) = Seen(y) /\ \A ch \in Entries(x, "type") : ch.new # <<>>
    <2>1. Normal(Value(x, "type", x.type)) = Normal(y.type)
      <3>1. CASE Entries(x, "type") = {}
        BY <1>8, <1>9, <3>1
      <3>2. CASE Entries(x, "type") # {}
        <4>1. (CHOOSE ch \in Entries(x, "type") : TRUE) \in Entries(x, "type")
          BY <3>2
        <4>2. (CHOOSE ch \in Entries(x, "type") : TRUE).new = <<y.type>>
          BY <1>8, <1>9, <4>1
        <4> QED
          BY <3>2, <4>2
      <3> QED
        BY <3>1, <3>2
    <2>2. ASSUME NEW f \in Flags
          PROVE  Value(x, f, x.at[f]) = y.at[f]
      <3>1. CASE Entries(x, f) = {}
        BY <1>8, <1>9, <3>1
      <3>2. CASE Entries(x, f) # {}
        <4>1. (CHOOSE ch \in Entries(x, f) : TRUE) \in Entries(x, f)
          BY <3>2
        <4>2. (CHOOSE ch \in Entries(x, f) : TRUE).new = <<y.at[f]>>
          BY <1>8, <1>9, <4>1
        <4> QED
          BY <3>2, <4>2
      <3> QED
        BY <3>1, <3>2
    <2>3. y.at = [f \in Flags |-> y.at[f]]
      OBVIOUS
    <2> HIDE DEF Value
    <2>4. [f \in Flags |-> Value(x, f, x.at[f])] = y.at
      BY <2>2, <2>3
    <2>5. \A ch \in Entries(x, "type") : ch.new # <<>>
      <3>1. \A ch \in Entries(x, "type") : ch.new = <<y.type>>
        BY <1>8, <1>9
      <3>2. <<y.type>> # <<>>
        OBVIOUS
      <3> QED
        BY <3>1, <3>2
    <2> QED
      BY <1>9, <2>1, <2>4, <2>5
  <1>10. ColumnsAfter(old, D)
           = {After(c) : c \in {x \in Range(old) : \A ch \in Entries(x, "type") : ch.new # <<>>}}
    BY DEF ColumnsAfter, Entries
  <1> HIDE DEF After, Seen
  <1>11. {After(c) : c \in {x \in Range(old) : \A ch \in Entries(x, "type") : ch.new # <<>>}}
           = {Seen(c) : c \in {d \in Range(new) : Fold(d.name) \in FoldedNames(old)}}
    <2>1. ASSUME NEW x \in Range(old), \A ch \in Entries(x, "type") : ch.new # <<>>
          PROVE  \E y \in Range(new) : Fold(y.name) \in FoldedNames(old) /\ After(x) = Seen(y)
      <3>1. PICK y \in Range(new) : Fold(x.name) = Fold(y.name)
        BY <1>3, <1>6, <2>1
      <3> QED
        BY <1>3, <1>9, <3>1
    <2>2. ASSUME NEW y \in Range(new), Fold(y.name) \in FoldedNames(old)
          PROVE  \E x \in Range(old) :
                   (\A ch \in Entries(x, "type") : ch.new # <<>>) /\ After(x) = Seen(y)
      BY <1>3, <1>9, <2>2
    <2> QED
      BY <2>1, <2>2
  <1> QED
    BY <1>10, <1>11 DEF D, Seen

\* The columns that the report says came are those that are new.
LEMMA NewColumnsTold ==
  ASSUME NEW old, old \in Seq(Range(old)), OneCase(old),
         NEW new, new \in Seq(Range(new)), OneCase(new)
  PROVE  {<<Fold(c.name), TypeOf(c)>> :
            c \in Range(new) \ {d \in Range(new) : Fold(d.name) \in FoldedNames(old)}}
           = {<<Fold(ch.name), ch.new>> : ch \in {d \in DiffColumns(old, new) : d.old = <<>>}}
  <1> DEFINE D == DiffColumns(old, new)
             came == {d \in D : d.old = <<>>}
  <1>1. \A n, f, a, b : /\ ColumnChange(n, f, a, b).name = n
                        /\ ColumnChange(n, f, a, b).field = f
                        /\ ColumnChange(n, f, a, b).old = a
                        /\ ColumnChange(n, f, a, b).new = b
    BY DEF ColumnChange
  <1>2. \A ch : ch \in D <=>
          \/ \E x \in Range(old) : /\ Fold(x.name) \notin FoldedNames(new)
                                   /\ ch = ColumnChange(x.name, "type", TypeOf(x), <<>>)
          \/ \E y \in Range(new) : /\ Fold(y.name) \notin FoldedNames(old)
                                   /\ ch = ColumnChange(y.name, "type", <<>>, TypeOf(y))
          \/ \E x \in Range(old) : \E y \in Range(new) :
               Fold(x.name) = Fold(y.name) /\ ch \in CompareColumnFields(x, y)
    BY ColumnsTold
  <1>3. \A x : TypeOf(x) # <<>>
    BY DEF TypeOf
  <1>4. \A x, y : \A ch \in CompareColumnFields(x, y) : ch.old # <<>>
    BY FieldsTold
  <1> HIDE DEF D
  <1>5. \A ch : ch \in came <=>
          \E y \in Range(new) : /\ Fold(y.name) \notin FoldedNames(old)
                                /\ ch = ColumnChange(y.name, "type", <<>>, TypeOf(y))
    <2>1. \A ch \in came : ~ \E x \in Range(old) : ch = ColumnChange(x.name, "type", TypeOf(x), <<>>)
      BY <1>1, <1>3
    <2>2. \A y : ColumnChange(y.name, "type", <<>>, TypeOf(y)).old = <<>>
      BY <1>1
    <2> QED
      BY <1>2, <1>4, <2>1, <2>2
  <1> HIDE DEF came
  <1>6. {<<Fold(ch.name), ch.new>> : ch \in came}
          = {<<Fold(y.name), TypeOf(y)>> :
               y \in {d \in Range(new) : Fold(d.name) \notin FoldedNames(old)}}
    <2>1. ASSUME NEW ch \in came
          PROVE  \E y \in Range(new) : /\ Fold(y.name) \notin FoldedNames(old)
                                       /\ <<Fold(ch.name), ch.new>> = <<Fold(y.name), TypeOf(y)>>
      BY <1>1, <1>5
    <2>2. ASSUME NEW y \in Range(new), Fold(y.name) \notin FoldedNames(old)
          PROVE  \E ch \in came : <<Fold(ch.name), ch.new>> = <<Fold(y.name), TypeOf(y)>>
      <3> DEFINE ch == ColumnChange(y.name, "type", <<>>, TypeOf(y))
      <3>1. ch \in came
        BY <1>5, <2>2
      <3>2. ch.name = y.name /\ ch.new = TypeOf(y)
        BY <1>1
      <3> HIDE DEF ch
      <3> QED
        BY <3>1, <3>2
    <2> QED
      BY <2>1, <2>2
  <1> QED
    BY <1>6 DEF came, D

\* What DiffNamed tells of a list, b being what is compared of an entry.
Differs(old, new, b) ==
  LET o == ByName(old)
      n == ByName(new)
  IN  {[name |-> o[k].name, status |-> "removed", old |-> {b[o[k]]}, new |-> {}] :
         k \in DOMAIN o \ DOMAIN n}
        \cup {[name |-> n[k].name, status |-> "added", old |-> {}, new |-> {b[n[k]]}] :
                k \in DOMAIN n \ DOMAIN o}
        \cup {[name |-> n[k].name, status |-> "changed", old |-> {b[o[k]]}, new |-> {b[n[k]]}] :
                k \in {j \in DOMAIN o \cap DOMAIN n : b[o[j]] # b[n[j]]}}

\* What NamedAfter makes of a list and its changes.
Replayed(old, D, b) ==
  {<<Fold(x.name), b[x]>> :
     x \in {o \in Range(old) : {ch \in D : Fold(ch.name) = Fold(o.name)} = {}}}
    \cup {<<Fold(ch.name), CHOOSE v \in ch.new : TRUE>> : ch \in {d \in D : d.status # "removed"}}

\* A list with what is told of it put in is the later one.
LEMMA NamedReplay ==
  ASSUME NEW old, old \in Seq(Range(old)), OneCase(old),
         NEW new, new \in Seq(Range(new)), OneCase(new), NEW b
  PROVE  Replayed(old, Differs(old, new, b), b) = {<<Fold(x.name), b[x]>> : x \in Range(new)}
  <1> DEFINE D == Differs(old, new, b)
             o == ByName(old)
             n == ByName(new)
             O == FoldedNames(old)
             N == FoldedNames(new)
             Went(x) == [name |-> x.name, status |-> "removed", old |-> {b[x]}, new |-> {}]
             Came(y) == [name |-> y.name, status |-> "added", old |-> {}, new |-> {b[y]}]
             Other(x, y) == [name |-> y.name, status |-> "changed", old |-> {b[x]}, new |-> {b[y]}]
             kept == {x \in Range(old) : {ch \in D : Fold(ch.name) = Fold(x.name)} = {}}
             said == {d \in D : d.status # "removed"}
             Body(ch) == CHOOSE v \in ch.new : TRUE
  <1>1. /\ DOMAIN o = O
        /\ \A x \in Range(old) : Fold(x.name) \in O /\ o[Fold(x.name)] = x
        /\ \A k \in O : o[k] \in Range(old) /\ Fold(o[k].name) = k
    BY ByNameOwn
  <1>2. /\ DOMAIN n = N
        /\ \A y \in Range(new) : Fold(y.name) \in N /\ n[Fold(y.name)] = y
        /\ \A k \in N : n[k] \in Range(new) /\ Fold(n[k].name) = k
    BY ByNameOwn
  <1>3. D = {Went(o[k]) : k \in O \ N} \cup {Came(n[k]) : k \in N \ O}
              \cup {Other(o[k], n[k]) : k \in {j \in O \cap N : b[o[j]] # b[n[j]]}}
    BY <1>1, <1>2 DEF Differs
  <1>4. /\ \A x : Went(x).name = x.name /\ Went(x).status = "removed"
        /\ \A y : Came(y).name = y.name /\ Came(y).status # "removed" /\ Came(y).new = {b[y]}
        /\ \A x, y : /\ Other(x, y).name = y.name /\ Other(x, y).status # "removed"
                     /\ Other(x, y).new = {b[y]}
    OBVIOUS
  <1> HIDE DEF Went, Came, Other, o, n, O, N, D
  <1>5. \A ch : ch \in D <=>
          \/ \E k \in O \ N : ch = Went(o[k])
          \/ \E k \in N \ O : ch = Came(n[k])
          \/ \E k \in O \cap N : b[o[k]] # b[n[k]] /\ ch = Other(o[k], n[k])
    BY <1>3
  <1>6. ASSUME NEW ch \in said
        PROVE  \E y \in Range(new) : Fold(ch.name) = Fold(y.name) /\ Body(ch) = b[y]
    <2>1. \E k \in N : ch.name = n[k].name /\ ch.new = {b[n[k]]}
      <3>1. ch \in D /\ ch.status # "removed"
        OBVIOUS
      <3> HIDE DEF said
      <3>2. CASE \E k \in O \ N : ch = Went(o[k])
        BY <1>4, <3>1, <3>2
      <3>3. CASE \E k \in N \ O : ch = Came(n[k])
        BY <1>4, <3>3
      <3>4. CASE \E k \in O \cap N : b[o[k]] # b[n[k]] /\ ch = Other(o[k], n[k])
        <4>1. PICK k \in O \cap N : ch = Other(o[k], n[k])
          BY <3>4
        <4>2. ch.name = n[k].name /\ ch.new = {b[n[k]]}
          BY <1>4, <4>1
        <4> QED
          BY <4>2
      <3> QED
        BY <1>5, <3>1, <3>2, <3>3, <3>4
    <2>2. PICK k \in N : ch.name = n[k].name /\ ch.new = {b[n[k]]}
      BY <2>1
    <2>3. Body(ch) = b[n[k]]
      BY <2>2
    <2> QED
      BY <1>2, <2>2, <2>3
  <1>7. ASSUME NEW x \in kept
        PROVE  \E y \in Range(new) : Fold(x.name) = Fold(y.name) /\ b[x] = b[y]
    <2> DEFINE k == Fold(x.name)
    <2>1. x \in Range(old) /\ (\A ch \in D : Fold(ch.name) # k) /\ k \in O /\ o[k] = x
      BY <1>1
    <2> HIDE DEF k
    <2>2. k \in N
      <3>1. k \notin N => Went(o[k]) \in D /\ Fold(Went(o[k]).name) = k
        BY <1>1, <1>4, <1>5, <2>1
      <3> QED
        BY <2>1, <3>1
    <2>3. b[o[k]] = b[n[k]]
      <3>1. b[o[k]] # b[n[k]] => Other(o[k], n[k]) \in D
        BY <1>5, <2>1, <2>2
      <3>2. Other(o[k], n[k]).name = n[k].name
        BY <1>4
      <3>3. Fold(Other(o[k], n[k]).name) = k
        BY <1>2, <2>2, <3>2
      <3> QED
        BY <2>1, <3>1, <3>3
    <2> QED
      BY <1>2, <2>1, <2>2, <2>3 DEF k
  <1>8. ASSUME NEW y \in Range(new)
        PROVE  \/ \E x \in kept : Fold(x.name) = Fold(y.name) /\ b[x] = b[y]
               \/ \E ch \in said : Fold(ch.name) = Fold(y.name) /\ Body(ch) = b[y]
    <2> DEFINE k == Fold(y.name)
    <2>1. k \in N /\ n[k] = y
      BY <1>2
    <2> HIDE DEF k
    <2>2. CASE k \notin O
      <3> DEFINE ch == Came(n[k])
      <3>1. ch \in D /\ ch.name = y.name /\ ch.status # "removed" /\ ch.new = {b[y]}
        BY <1>4, <1>5, <2>1, <2>2
      <3> HIDE DEF ch
      <3>2. ch \in said /\ Body(ch) = b[y]
        BY <3>1
      <3> QED
        BY <3>1, <3>2
    <2>3. CASE k \in O /\ b[o[k]] # b[n[k]]
      <3> DEFINE ch == Other(o[k], n[k])
      <3>1. ch \in D
        BY <1>5, <2>1, <2>3
      <3>4. ch.name = n[k].name /\ ch.status # "removed" /\ ch.new = {b[n[k]]}
        BY <1>4
      <3> HIDE DEF ch
      <3>2. ch \in said /\ Body(ch) = b[y]
        BY <2>1, <3>1, <3>4
      <3> QED
        BY <2>1, <3>2, <3>4
    <2>4. CASE k \in O /\ b[o[k]] = b[n[k]]
      <3>1. ASSUME NEW ch \in D
            PROVE  Fold(ch.name) # k
        <4>1. CASE \E j \in O \ N : ch = Went(o[j])
          BY <1>1, <1>4, <2>1, <4>1
        <4>2. CASE \E j \in N \ O : ch = Came(n[j])
          BY <1>2, <1>4, <2>4, <4>2
        <4>3. CASE \E j \in O \cap N : b[o[j]] # b[n[j]] /\ ch = Other(o[j], n[j])
          BY <1>2, <1>4, <2>4, <4>3
        <4> QED
          BY <1>5, <4>1, <4>2, <4>3
      <3>2. o[k] \in Range(old) /\ Fold(o[k].name) = k
        BY <1>1, <2>4
      <3>3. o[k] \in kept
        BY <3>1, <3>2
      <3> QED
        BY <2>1, <2>4, <3>2, <3>3 DEF k
    <2> QED
      BY <2>2, <2>3, <2>4
  <1> HIDE DEF Body
  <1>9. {<<Fold(x.name), b[x]>> : x \in kept} \cup {<<Fold(ch.name), Body(ch)>> : ch \in said}
          = {<<Fold(x.name), b[x]>> : x \in Range(new)}
    <2> HIDE DEF kept, said
    <2> QED
      BY <1>6, <1>7, <1>8
  <1> QED
    BY <1>9 DEF Replayed, D, Body

\* So it is with indexes.
LEMMA IndexesReplay ==
  ASSUME NEW old, old \in Seq(Range(old)), OneCase(old),
         NEW new, new \in Seq(Range(new)), OneCase(new)
  PROVE  NamedAfter(old, DiffNamed(old, new, IndexBody), IndexBody)
           = {<<Fold(x.name), IndexBody(x)>> : x \in Range(new)}
  <1> DEFINE b == [x \in Range(old) \cup Range(new) |-> IndexBody(x)]
             D == DiffNamed(old, new, IndexBody)
             o == ByName(old)
             n == ByName(new)
  <1>1. /\ \A x \in Range(old) \cup Range(new) : b[x] = IndexBody(x)
        /\ \A k \in DOMAIN o : b[o[k]] = IndexBody(o[k])
        /\ \A k \in DOMAIN n : b[n[k]] = IndexBody(n[k])
    BY ByNameOwn
  <1> HIDE DEF b
  <1>2. D = Differs(old, new, b)
    BY <1>1 DEF DiffNamed, Differs
  <1> HIDE DEF D, o, n
  <1>3. Replayed(old, D, b) = {<<Fold(x.name), b[x]>> : x \in Range(new)}
    BY <1>2, NamedReplay
  <1>4. NamedAfter(old, D, IndexBody) = Replayed(old, D, b)
    BY <1>1 DEF NamedAfter, Replayed
  <1>5. {<<Fold(x.name), b[x]>> : x \in Range(new)}
          = {<<Fold(x.name), IndexBody(x)>> : x \in Range(new)}
    BY <1>1
  <1> QED
    BY <1>3, <1>4, <1>5 DEF D

\* So it is with foreign keys.
LEMMA KeysReplay ==
  ASSUME NEW old, old \in Seq(Range(old)), OneCase(old),
         NEW new, new \in Seq(Range(new)), OneCase(new)
  PROVE  NamedAfter(old, DiffNamed(old, new, KeyBody), KeyBody)
           = {<<Fold(x.name), KeyBody(x)>> : x \in Range(new)}
  <1> DEFINE b == [x \in Range(old) \cup Range(new) |-> KeyBody(x)]
             D == DiffNamed(old, new, KeyBody)
             o == ByName(old)
             n == ByName(new)
  <1>1. /\ \A x \in Range(old) \cup Range(new) : b[x] = KeyBody(x)
        /\ \A k \in DOMAIN o : b[o[k]] = KeyBody(o[k])
        /\ \A k \in DOMAIN n : b[n[k]] = KeyBody(n[k])
    BY ByNameOwn
  <1> HIDE DEF b
  <1>2. D = Differs(old, new, b)
    BY <1>1 DEF DiffNamed, Differs
  <1> HIDE DEF D, o, n
  <1>3. Replayed(old, D, b) = {<<Fold(x.name), b[x]>> : x \in Range(new)}
    BY <1>2, NamedReplay
  <1>4. NamedAfter(old, D, KeyBody) = Replayed(old, D, b)
    BY <1>1 DEF NamedAfter, Replayed
  <1>5. {<<Fold(x.name), b[x]>> : x \in Range(new)}
          = {<<Fold(x.name), KeyBody(x)>> : x \in Range(new)}
    BY <1>1
  <1> QED
    BY <1>3, <1>4, <1>5 DEF D

\* What a report says of a path.
ToldOf(was, is, k) == {c \in DiffUniverse(was, is) : c.table = Cut(k)}

\* It is one thing, or nothing where the two tables of the path are the same.
LEMMA UniverseTold ==
  ASSUME NEW was, NEW is, NEW k \in DOMAIN was \cup DOMAIN is,
         \A l \in DOMAIN was \cup DOMAIN is : Cut(l) = Cut(k) => l = k
  PROVE  LET at == ToldOf(was, is, k)
             both == DOMAIN was \cap DOMAIN is
             now == DiffTables(was[k], is[k])
         IN  /\ k \notin DOMAIN is => \E x : at = {TableDiff(k, "removed", x)}
             /\ k \notin DOMAIN was => \E x : at = {TableDiff(k, "added", x)}
             /\ k \in both /\ now = Unchanged => at = {}
             /\ k \in both /\ now # Unchanged => at = {TableDiff(k, "changed", now)}
  <1> DEFINE G(l) == TableDiff(l, "removed", ColumnsGone(was[l]))
             A(l) == TableDiff(l, "added", ColumnsCame(is[l]))
             T(l) == TableDiff(l, "changed", DiffTables(was[l], is[l]))
             at == ToldOf(was, is, k)
             both == DOMAIN was \cap DOMAIN is
  <1>1. DiffUniverse(was, is)
          = {G(l) : l \in DOMAIN was \ DOMAIN is} \cup {A(l) : l \in DOMAIN is \ DOMAIN was}
              \cup {T(l) : l \in {j \in both : DiffTables(was[j], is[j]) # Unchanged}}
    BY DEF DiffUniverse
  <1>2. \A l : G(l).table = Cut(l) /\ A(l).table = Cut(l) /\ T(l).table = Cut(l)
    BY DEF TableDiff
  <1>3. /\ \E x : G(k) = TableDiff(k, "removed", x)
        /\ \E x : A(k) = TableDiff(k, "added", x)
        /\ T(k) = TableDiff(k, "changed", DiffTables(was[k], is[k]))
    OBVIOUS
  <1> HIDE DEF G, A, T
  <1>4. \A c : c \in at <=>
          \/ \E l \in DOMAIN was \ DOMAIN is : l = k /\ c = G(l)
          \/ \E l \in DOMAIN is \ DOMAIN was : l = k /\ c = A(l)
          \/ \E l \in both : l = k /\ c = T(l) /\ DiffTables(was[l], is[l]) # Unchanged
    BY <1>1, <1>2 DEF ToldOf
  <1> HIDE DEF at
  <1>5. \A c : c \in at <=>
          \/ k \in DOMAIN was \ DOMAIN is /\ c = G(k)
          \/ k \in DOMAIN is \ DOMAIN was /\ c = A(k)
          \/ k \in both /\ c = T(k) /\ DiffTables(was[k], is[k]) # Unchanged
    BY <1>4
  <1>6. /\ k \notin DOMAIN is => at = {G(k)}
        /\ k \notin DOMAIN was => at = {A(k)}
        /\ k \in both /\ DiffTables(was[k], is[k]) = Unchanged => at = {}
        /\ k \in both /\ DiffTables(was[k], is[k]) # Unchanged => at = {T(k)}
    BY <1>5
  <1> QED
    BY <1>3, <1>6 DEF at

\* A scan that is compared: its lists are lists, its names too, and its columns
\* have the attributes that are compared.
Comparable(ts) ==
  /\ ts \in Seq(Range(ts))
  /\ \A t \in Range(ts) :
       /\ InParts(KeyOf(t))
       /\ \A list \in {t.columns, t.indexes, t.fks} : list \in Seq(Range(list))
       /\ \A c \in Range(t.columns) : c.at = [f \in Flags |-> c.at[f]]

\* So are the scans of the model.
LEMMA ComparedAre ==
  ASSUME NEW p \in Compared
  PROVE  Comparable(p[1]) /\ Comparable(p[2])
  <1>1. ASSUME NEW ts \in {p[1], p[2]}
        PROVE  Comparable(ts)
    <2>1. /\ ts \in Seq(Range(ts))
          /\ \A t \in Range(ts) :
               /\ \A n \in {t.inst, t.db, t.name} : n \in Seq(Range(n))
               /\ \A list \in {t.columns, t.indexes, t.fks} : list \in Seq(Range(list))
               /\ \A c \in Range(t.columns) : c.at = [f \in Flags |-> c.at[f]]
      BY ComparedAssumption
    <2>2. \A t : KeyOf(t)[1] = t.inst /\ KeyOf(t)[2] = t.db /\ KeyOf(t)[3] = t.name
      BY DEF KeyOf
    <2> QED
      BY <2>1, <2>2 DEF Comparable, InParts
  <1> QED
    BY <1>1

\* Two paths of the snapshots of two scans are not cut alike.
LEMMA PathsCutApart ==
  ASSUME NEW a, Comparable(a), NEW b, Comparable(b)
  PROVE  \A k, l \in DOMAIN Snapshots(a) \cup DOMAIN Snapshots(b) : Cut(l) = Cut(k) => l = k
  <1>1. \A k \in DOMAIN Snapshots(a) \cup DOMAIN Snapshots(b) :
          \E t \in Range(a) \cup Range(b) : k = PathOf(KeyOf(t))
    BY SnapshotsOwn DEF Comparable
  <1>2. \A t \in Range(a) \cup Range(b) : InParts(KeyOf(t))
    BY DEF Comparable
  <1> QED
    BY <1>1, <1>2, CutTells

\* What a report makes of a table that is in both scans, and of which no two
\* names differ in case only, is the later table.
LEMMA TableReplay ==
  ASSUME NEW old, NEW new,
         \A list \in {old.columns, old.indexes, old.fks, new.columns, new.indexes, new.fks} :
           list \in Seq(Range(list)) /\ OneCase(list),
         \A c \in Range(new.columns) : c.at = [f \in Flags |-> c.at[f]]
  PROVE  LET made == DiffTables(old, new)
             kept == {c \in Range(new.columns) : Fold(c.name) \in FoldedNames(old.columns)}
         IN  /\ ColumnsAfter(old.columns, made.columns)
                  = {[name |-> Fold(c.name), type |-> Normal(c.type), at |-> c.at] : c \in kept}
             /\ {<<Fold(c.name), TypeOf(c)>> : c \in Range(new.columns) \ kept}
                  = {<<Fold(ch.name), ch.new>> : ch \in {d \in made.columns : d.old = <<>>}}
             /\ NamedAfter(old.indexes, made.indexes, IndexBody)
                  = {<<Fold(x.name), IndexBody(x)>> : x \in Range(new.indexes)}
             /\ NamedAfter(old.fks, made.fks, KeyBody)
                  = {<<Fold(x.name), KeyBody(x)>> : x \in Range(new.fks)}
  <1> DEFINE made == DiffTables(old, new)
             kept == {c \in Range(new.columns) : Fold(c.name) \in FoldedNames(old.columns)}
  <1>1. /\ made.columns = DiffColumns(old.columns, new.columns)
        /\ made.indexes = DiffNamed(old.indexes, new.indexes, IndexBody)
        /\ made.fks = DiffNamed(old.fks, new.fks, KeyBody)
    BY DEF DiffTables
  <1>2. /\ old.columns \in Seq(Range(old.columns)) /\ OneCase(old.columns)
        /\ new.columns \in Seq(Range(new.columns)) /\ OneCase(new.columns)
        /\ old.indexes \in Seq(Range(old.indexes)) /\ OneCase(old.indexes)
        /\ new.indexes \in Seq(Range(new.indexes)) /\ OneCase(new.indexes)
        /\ old.fks \in Seq(Range(old.fks)) /\ OneCase(old.fks)
        /\ new.fks \in Seq(Range(new.fks)) /\ OneCase(new.fks)
    OBVIOUS
  <1> HIDE DEF made
  <1>3. ColumnsAfter(old.columns, made.columns)
          = {[name |-> Fold(c.name), type |-> Normal(c.type), at |-> c.at] : c \in kept}
    BY <1>1, <1>2, ColumnsReplay
  <1>4. {<<Fold(c.name), TypeOf(c)>> : c \in Range(new.columns) \ kept}
          = {<<Fold(ch.name), ch.new>> : ch \in {d \in made.columns : d.old = <<>>}}
    BY <1>1, <1>2, NewColumnsTold
  <1>5. NamedAfter(old.indexes, made.indexes, IndexBody)
          = {<<Fold(x.name), IndexBody(x)>> : x \in Range(new.indexes)}
    BY <1>1, <1>2, IndexesReplay
  <1>6. NamedAfter(old.fks, made.fks, KeyBody)
          = {<<Fold(x.name), KeyBody(x)>> : x \in Range(new.fks)}
    BY <1>1, <1>2, KeysReplay
  <1> QED
    BY <1>3, <1>4, <1>5, <1>6 DEF made

\* The report of two comparable scans, put into the earlier one, gives the later.
LEMMA ReportReplays ==
  ASSUME Comparable(before), Comparable(tables),
         changes = DiffUniverse(Snapshots(before), Snapshots(tables))
  PROVE  DiffReplays
  <1> DEFINE was == Snapshots(before)
             is == Snapshots(tables)
             Changes(k) == {c \in changes : c.table = Cut(k)}
             Of(k, st) == \E c \in Changes(k) : c.status = st
             Made(k) == IF Changes(k) = {} THEN Unchanged ELSE (CHOOSE c \in Changes(k) : TRUE).changes
             Entries(list, Body(_)) == {<<Fold(x.name), Body(x)>> : x \in Range(list)}
             View(c) == [name |-> Fold(c.name), type |-> Normal(c.type), at |-> c.at]
             Kept(k) == {c \in Range(is[k].columns) : Fold(c.name) \in FoldedNames(was[k].columns)}
             New(k) == {<<Fold(c.name), TypeOf(c)>> : c \in Range(is[k].columns) \ Kept(k)}
             Six(k) == {was[k].columns, is[k].columns, was[k].indexes, is[k].indexes,
                          was[k].fks, is[k].fks}
             now(k) == DiffTables(was[k], is[k])
  <1>1. ASSUME NEW k \in DOMAIN was \cup DOMAIN is
        PROVE  /\ k \notin DOMAIN is => \E x : Changes(k) = {TableDiff(k, "removed", x)}
               /\ k \notin DOMAIN was => \E x : Changes(k) = {TableDiff(k, "added", x)}
               /\ k \in DOMAIN was \cap DOMAIN is /\ now(k) = Unchanged => Changes(k) = {}
               /\ k \in DOMAIN was \cap DOMAIN is /\ now(k) # Unchanged
                    => Changes(k) = {TableDiff(k, "changed", now(k))}
    <2>1. \A l \in DOMAIN was \cup DOMAIN is : Cut(l) = Cut(k) => l = k
      BY PathsCutApart
    <2>2. Changes(k) = ToldOf(was, is, k)
      BY DEF ToldOf
    <2> HIDE DEF was, is, Changes
    <2> QED
      BY <2>1, <2>2, UniverseTold
  <1>2. \A k, st, x : /\ TableDiff(k, st, x).status = st /\ TableDiff(k, st, x).changes = x
    BY DEF TableDiff
  <1>3. ASSUME NEW k \in DOMAIN was \cap DOMAIN is
        PROVE  Made(k) = now(k)
    <2> HIDE DEF was, is, Changes, now
    <2>1. \/ now(k) = Unchanged /\ Changes(k) = {}
          \/ now(k) # Unchanged /\ Changes(k) = {TableDiff(k, "changed", now(k))}
      BY <1>1
    <2> QED
      BY <1>2, <2>1
  <1>4. ASSUME NEW k \in DOMAIN was \cup DOMAIN is
        PROVE  /\ Cardinality(Changes(k)) <= 1
               /\ Of(k, "added") <=> k \notin DOMAIN was
               /\ Of(k, "removed") <=> k \notin DOMAIN is
    <2> HIDE DEF was, is, Changes, now
    <2>1. \/ /\ k \notin DOMAIN is /\ k \in DOMAIN was
             /\ \E x : Changes(k) = {TableDiff(k, "removed", x)}
          \/ /\ k \notin DOMAIN was /\ k \in DOMAIN is
             /\ \E x : Changes(k) = {TableDiff(k, "added", x)}
          \/ k \in DOMAIN was /\ k \in DOMAIN is /\ Changes(k) = {}
          \/ /\ k \in DOMAIN was /\ k \in DOMAIN is
             /\ \E x : Changes(k) = {TableDiff(k, "changed", x)}
      BY <1>1
    <2>2. Changes(k) = {} \/ \E x : Changes(k) = {x}
      BY <2>1
    <2>3. Cardinality(Changes(k)) <= 1
      <3>1. Cardinality({}) = 0 /\ \A x : Cardinality({x}) = 1
        BY FS_EmptySet, FS_Singleton
      <3>2. CASE Changes(k) = {}
        BY <3>1, <3>2
      <3>3. CASE \E x : Changes(k) = {x}
        <4>1. PICK x : Changes(k) = {x}
          BY <3>3
        <4>2. Cardinality(Changes(k)) = 1
          BY <3>1, <4>1, Zenon
        <4> QED
          BY <4>2
      <3> QED
        BY <2>2, <3>2, <3>3
    <2> QED
      BY <1>2, <2>1, <2>3
  <1>5. ASSUME NEW k \in DOMAIN was \cap DOMAIN is, \A l \in Six(k) : OneCase(l)
        PROVE  /\ ColumnsAfter(was[k].columns, Made(k).columns) = {View(c) : c \in Kept(k)}
               /\ New(k) = {<<Fold(ch.name), ch.new>> : ch \in {d \in Made(k).columns : d.old = <<>>}}
               /\ NamedAfter(was[k].indexes, Made(k).indexes, IndexBody)
                    = Entries(is[k].indexes, IndexBody)
               /\ NamedAfter(was[k].fks, Made(k).fks, KeyBody) = Entries(is[k].fks, KeyBody)
    <2>1. was[k] \in Range(before) /\ is[k] \in Range(tables)
      BY SnapshotsOwn DEF Comparable
    <2>2. Made(k) = now(k)
      BY <1>3
    <2> HIDE DEF was, is, Made
    <2>3. /\ \A l \in {was[k].columns, was[k].indexes, was[k].fks} : l \in Seq(Range(l))
          /\ \A l \in {is[k].columns, is[k].indexes, is[k].fks} : l \in Seq(Range(l))
          /\ \A c \in Range(is[k].columns) : c.at = [f \in Flags |-> c.at[f]]
      BY <2>1 DEF Comparable
    <2>4. \A l \in {was[k].columns, was[k].indexes, was[k].fks,
                    is[k].columns, is[k].indexes, is[k].fks} : l \in Seq(Range(l)) /\ OneCase(l)
      BY <1>5, <2>3
    <2> DEFINE a == was[k]
               b == is[k]
    <2>5. Made(k) = DiffTables(a, b)
      BY <2>2
    <2> HIDE DEF a, b
    <2>6. /\ ColumnsAfter(a.columns, Made(k).columns)
               = {View(c) : c \in {c \in Range(b.columns) : Fold(c.name) \in FoldedNames(a.columns)}}
          /\ {<<Fold(c.name), TypeOf(c)>> :
               c \in Range(b.columns)
                        \ {c \in Range(b.columns) : Fold(c.name) \in FoldedNames(a.columns)}}
               = {<<Fold(ch.name), ch.new>> : ch \in {d \in Made(k).columns : d.old = <<>>}}
          /\ NamedAfter(a.indexes, Made(k).indexes, IndexBody) = Entries(b.indexes, IndexBody)
          /\ NamedAfter(a.fks, Made(k).fks, KeyBody) = Entries(b.fks, KeyBody)
      <3>1. /\ \A l \in {a.columns, a.indexes, a.fks, b.columns, b.indexes, b.fks} :
                 l \in Seq(Range(l)) /\ OneCase(l)
            /\ \A c \in Range(b.columns) : c.at = [f \in Flags |-> c.at[f]]
        BY <2>3, <2>4 DEF a, b
      <3> QED
        BY <2>5, <3>1, TableReplay
    <2> QED
      BY <2>6 DEF a, b
  <1> HIDE DEF was, is, Changes, now
  <1> QED
    BY <1>4, <1>5 DEF DiffReplays, was, is, Changes

\* A comparison starts from two scans that are compared, and reports on them.
DiffInv ==
  /\ stage = "compare" => \E p \in Compared : before = p[1] /\ tables = p[2]
  /\ stage = "done" /\ report = <<>> =>
       /\ \E p \in Compared : before = p[1] /\ tables = p[2]
       /\ changes = DiffUniverse(Snapshots(before), Snapshots(tables))

\* A scan starts so.
LEMMA ScannedDiff == Scanned => DiffInv
  BY DEF Scanned, DiffInv

\* Every step keeps it: what is not a comparison writes a context.
LEMMA AnalyseDiff == DiffInv /\ [Analyse]_analysis => DiffInv'
  <1> SUFFICES ASSUME DiffInv, [Analyse]_analysis
               PROVE  DiffInv'
    OBVIOUS
  <1>1. tables' = tables /\ before' = before
    BY DEF Analyse, analysis, Declared, InferColumn, Inferred, Union, Group, Diagnose, Rank,
           WriteContext, Compare
  <1>3. CASE UNCHANGED analysis
    <2>1. UNCHANGED <<stage, report, changes>>
      BY <1>3 DEF analysis, analysed
    <2> QED
      BY <1>1, <2>1 DEF DiffInv, Snapshots
  <1>4. CASE Declared \/ InferColumn \/ Inferred \/ Union \/ Group \/ Diagnose \/ Rank
    <2>1. stage' \notin {"compare", "done"}
      BY <1>4 DEF Declared, InferColumn, Inferred, Union, Group, Diagnose, Rank
    <2> QED
      BY <2>1 DEF DiffInv
  <1>5. CASE WriteContext
    <2>1. stage' = "done" /\ report' # <<>>
      BY <1>5 DEF WriteContext
    <2> QED
      BY <2>1 DEF DiffInv
  <1>6. CASE Compare
    <2>1. /\ stage = "compare" /\ stage' = "done"
          /\ changes' = DiffUniverse(Snapshots(before), Snapshots(tables))
      BY <1>6 DEF Compare
    <2> QED
      BY <1>1, <2>1 DEF DiffInv, Snapshots
  <1> QED
    BY <1>3, <1>4, <1>5, <1>6 DEF Analyse

\* What a comparison reports, put into the earlier scan, gives the later one
\* (DiffUniverse, DiffTables).
THEOREM DiffAlwaysReplays == Analysing => []DiffReplays
  <1>1. DiffInv => DiffReplays
    <2> SUFFICES ASSUME DiffInv, stage = "done", report = <<>>
                 PROVE  DiffReplays
      BY DEF DiffReplays
    <2>1. Comparable(before) /\ Comparable(tables)
      BY ComparedAre DEF DiffInv
    <2>2. changes = DiffUniverse(Snapshots(before), Snapshots(tables))
      BY DEF DiffInv
    <2> QED
      BY <2>1, <2>2, ReportReplays
  <1> QED
    BY <1>1, ScannedDiff, AnalyseDiff, PTL DEF Analysing
=============================================================================
