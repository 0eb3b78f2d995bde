------------------------------- MODULE Catalog -------------------------------
(* The collection of a schema by one connector (module Connectors): queries
   are put to a server one after the other, each may be refused, fail or break
   off half way, a table may be dropped between two of them, and what was read
   is put together by name into the instance that is reported.

   A table is a name in a schema of a database.  The names that connectors use
   to put answers together are schema.table outside the schema public: names
   that hold a dot themselves are left out.                                  *)
EXTENDS Connectors, Picks

CONSTANTS Databases,   \* the databases of a server, in the order it lists them
          Schemas,     \* the schemas, likewise; the first is public
          Names,       \* the names of tables, likewise
          NoName,      \* stands for a database, schema or table left open
          Calls,       \* what a caller may ask for
          Servers,     \* what a server may hold
          MaxKeys,     \* the names that a capped list gives
          MaxFaults,   \* queries that fail, break off or have a row passed over
          MaxDrops     \* tables dropped while the collection runs

Elements(s) == {s[i] : i \in DOMAIN s}
Database == Elements(Databases)
Schema   == Elements(Schemas)
Name     == Elements(Names)
Public   == Schemas[1]
Home     == Databases[1]   \* the database a connection is opened on by default

Call == [kind : DOMAIN Connector, dbname : Database \cup {NoName},
         tables : SUBSET Name, sample : BOOLEAN, opstats : BOOLEAN,
         level : [Schema -> 1 .. 4]]

ASSUME CatalogAssumption ==
  /\ Len(Databases) > 0 /\ Len(Schemas) > 0 /\ Len(Names) > 0
  /\ NoName \notin Database \cup Schema \cup Name
  /\ Calls \subseteq Call
  /\ Servers \subseteq [Database -> [Schema -> SUBSET Name]]
  /\ MaxKeys \in Nat

\* The lists are lists, and what Prometheus holds are its labels and its metrics.
ASSUME ListsAssumption ==
  /\ Databases \in Seq(Database) /\ Schemas \in Seq(Schema) /\ Names \in Seq(Name)
  /\ \A c \in Calls : c.kind = "prometheus" => Name = {Names[1], Names[Len(Names)]}

VARIABLES call,      \* the DSN and the options
          server,    \* server[d][s]: the tables that exist
          todo,      \* the queries still to be put, in order
          read,      \* the rows read
          failed,    \* the queries that failed, or broke off
          unread,    \* the rows that were passed over without an error
          lost,      \* what is left out: databases, and tables of databases
          outcome,   \* "called", "running", "ok", "error" or "panic"
          faults, drops

vars == <<call, server, todo, read, failed, unread, lost, outcome, faults, drops>>

C == Connector[call.kind]

------------------------------------------------------------------------------
\* The queries.

Query(a, d, s, t) ==
  [ask |-> a.ask, tries |-> a.tries, on |-> a.on, cost |-> a.cost,
   db |-> d, schema |-> s, table |-> t, level |-> 1]

\* Make(q, e) for every element of qs and es, all es of one q first.
Crossed(qs, es, Make(_, _)) ==
  [i \in 1 .. Len(qs) * Len(es) |->
     Make(qs[((i - 1) \div Len(es)) + 1], es[((i - 1) % Len(es)) + 1])]

Batch == Select(C.batch, LAMBDA a : a.ask # "opstats" \/ call.opstats)
Each  == Select(C.each, LAMBDA a : a.ask # "sample" \/ C.sample = "always"
                                                       \/ call.sample)

\* The queries that list tables; two of them ask for one known table each.
Lists == {"tables", "labels", "metrics"}
ListOf(a) == CASE a.ask = "labels"  -> Names[1]
               [] a.ask = "metrics" -> Names[Len(Names)]
               [] OTHER             -> NoName

OfSchemas(d, ss) ==
  Crossed(C.tables, ss, LAMBDA a, s : Query(a, d, s, ListOf(a)))
    \o Crossed(Batch, ss, LAMBDA a, s : Query(a, d, s, NoName))

OfEach(d, ts, qs) == Crossed(ts, qs, LAMBDA t, a : Query(a, d, t[1], t[2]))
OfTables(d, s, ts) ==
  OfEach(d, ts, Each) \o OfEach(d, ts, C.after)
    \o [i \in DOMAIN C.closing |-> Query(C.closing[i], d, s, NoName)]

\* One round of the loop over databases: a connector that asks for schemas
\* knows the rest when they are answered.
OfDatabase(d) ==
  [i \in DOMAIN C.inside |-> Query(C.inside[i], d, NoName, NoName)]
    \o IF HasSchemas(C) THEN <<>> ELSE OfSchemas(d, <<Public>>)

Opening(ds) == [i \in DOMAIN ds |-> Query(Plain("open", "part"), ds[i], NoName, NoName)]

------------------------------------------------------------------------------
\* What the server answers.

AsksServer == \/ C.list = "listed"
              \/ C.list = "asked" /\ call.dbname = NoName
Target     == IF C.list = "only" THEN Home ELSE call.dbname

\* The database that a query made for d reads.
Source(d) == IF C.own THEN d
             ELSE IF call.dbname = NoName THEN Home ELSE call.dbname

Named(n) == call.tables = {} \/ n \in call.tables

\* The schemas that a query reads: the one it names or, where schemas are
\* merged, all of them or the first.
Scope(q) == IF ~C.merged THEN {q.schema}
            ELSE IF q.ask \in Lists \cup {"constraints"} THEN Schema ELSE {Public}

\* The tables that a query finds, in order, as all lists are.
Present(q) ==
  {t \in Scope(q) \X Name : /\ t[2] \in server[Source(q.db)][t[1]]
                            /\ Named(t[2]) /\ q.table \in {t[2], NoName}}
InOrder == Crossed(Names, Schemas, LAMBDA n, s : <<s, n>>)

Items(q) == IF q.schema # NoName THEN Present(q)
            ELSE IF q.ask = "databases" THEN Database
            ELSE IF q.ask = "schemas" THEN {s \in Schema : server[Source(q.db)][s] # {}}
            ELSE {}

KeyBare(s, n) == <<n>>
Key(s, n) == IF s = Public THEN <<n>> ELSE <<s, n>>

\* A list tells tables apart, the other answers go to the table asked about.
Row(ask, q, t) ==
  [ask |-> ask, db |-> q.db,
   key |-> Key(IF q.ask \in Lists THEN t[1] ELSE q.schema, t[2]),
   from |-> <<Source(q.db), t[1], t[2]>>]

\* The rows that an answer of some items adds; a list may tell numbers of rows.
Rows(q, items) ==
  IF q.schema = NoName THEN {}
  ELSE IF q.ask \in Lists
       THEN {Row("tables", q, t) : t \in items}
              \cup IF q.level \in C.counts THEN {Row("count", q, t) : t \in items}
                                           ELSE {}
       ELSE {Row(q.ask, q, t) : t \in items}

Denied(q) == q.ask = "tables" /\ q.level < call.level[q.schema]
Broken(q) == q.ask \in C.breaks /\ call.tables # {}
Gone(q)   == q.table # NoName /\ q.ask \notin Lists /\ Present(q) = {}

\* A bare name that no table of the first schema has is an error.
Missing(q) == C.merged /\ q.ask # "constraints" /\ Gone(q)

\* A row of data is wanted when the table has columns and is known to have rows.
Wanted(q) ==
  \A a \in C.needs : \E r \in read :
    r.ask = a /\ r.db = q.db /\ r.key = Key(q.schema, q.table)

------------------------------------------------------------------------------
\* The instance.

Listed == {r \in read : r.ask = "tables" /\ <<r.db, <<>>>> \notin lost
                                         /\ <<r.db, r.key>> \notin lost}

\* A table of the report with everything that was read under its name.
Entry(r) == [table |-> r,
             parts |-> {p \in read : p.db = r.db /\ p.key = r.key
                                                 /\ p.ask # "tables"}]
Report == {Entry(r) : r \in Listed}

------------------------------------------------------------------------------
Init ==
  /\ call \in Calls
  /\ server \in Servers
  /\ todo = <<>>
  /\ read = {} /\ failed = {} /\ unread = {} /\ lost = {}
  /\ outcome = "called"
  /\ faults = 0 /\ drops = 0

Refused == \/ call.tables # {} /\ ~C.filter
           \/ C.list = "given" /\ call.dbname = NoName

Start ==
  /\ outcome = "called"
  /\ IF Refused
     THEN outcome' = "error" /\ todo' = <<>>
     ELSE /\ outcome' = "running"
          /\ todo' = LET door == Select(C.door, LAMBDA a :
                                             a.ask # "databases" \/ AsksServer)
                     IN  [i \in DOMAIN door |-> Query(door[i], NoName, NoName, NoName)]
                           \o IF AsksServer THEN <<>> ELSE Opening(<<Target>>)
  /\ UNCHANGED <<call, server, read, failed, unread, lost, faults, drops>>

OpenDatabase ==
  /\ todo # <<>> /\ Head(todo).ask = "open"
  /\ todo' = OfDatabase(Head(todo).db) \o Tail(todo)
  /\ UNCHANGED <<call, server, read, failed, unread, lost, outcome, faults, drops>>

SkipSample ==
  /\ todo # <<>> /\ Head(todo).ask = "sample" /\ ~Wanted(Head(todo))
  /\ todo' = Tail(todo)
  /\ UNCHANGED <<call, server, read, failed, unread, lost, outcome, faults, drops>>

\* A query is put: neither the loop's own step nor a sample nobody wants.
Puts(q) == /\ todo # <<>> /\ q = Head(todo)
           /\ q.ask # "open"
           /\ q.ask = "sample" => Wanted(q)

\* What follows an answer of some items: the queries it gives rise to.
Following(q, items) ==
  LET rest == Tail(todo)
      mine == Select(rest, LAMBDA p : p.db = q.db)
      others == Select(rest, LAMBDA p : p.db # q.db)
      In(s) == Select(s, LAMBDA x : x \in items)
  IN  CASE q.ask = "databases" -> Opening(In(Databases)) \o rest
        [] q.ask = "schemas" ->
             OfSchemas(q.db, IF items = {} THEN <<Public>> ELSE In(Schemas)) \o rest
        [] q.ask \in Lists -> mine \o OfTables(q.db, q.schema, In(InOrder)) \o others
        [] OTHER -> rest

SameTable(p, q) == p.db = q.db /\ p.schema = q.schema /\ p.table = q.table

\* An answer of nothing that costs what a failure does.
Bare(q, items) ==
  items = {} /\ \/ q.ask = "columns" /\ q.cost = "table" /\ ~C.bare
                \/ q.cost = "nested"

\* What a query that gave nothing costs.
Pay(q) ==
  CASE q.cost \in {"instance", "panic"} ->
         /\ outcome' = IF q.cost = "panic" THEN "panic" ELSE "error"
         /\ todo' = <<>>
         /\ UNCHANGED lost
    [] q.cost = "database" ->
         /\ lost' = lost \cup {<<q.db, <<>>>>}
         /\ todo' = Select(Tail(todo), LAMBDA p : p.db # q.db)
         /\ UNCHANGED outcome
    [] q.cost \in {"table", "rest"} ->
         /\ lost' = IF q.cost = "table"
                    THEN lost \cup {<<q.db, Key(q.schema, q.table)>>} ELSE lost
         /\ todo' = Select(Tail(todo), LAMBDA p : ~SameTable(p, q))
         /\ UNCHANGED outcome
    [] q.cost = "nested" ->
         /\ todo' = Select(Tail(todo),
                           LAMBDA p : ~(SameTable(p, q) /\ p.ask \in Nested))
         /\ UNCHANGED <<lost, outcome>>
    [] OTHER ->
         /\ todo' = Tail(todo)
         /\ UNCHANGED <<lost, outcome>>

\* What is taken of an answer: all of it, or the first of its rows.
Taken(q) ==
  IF C.capped /\ q.ask \in Lists /\ Cardinality(Items(q)) > MaxKeys
  THEN {items \in SUBSET Items(q) : Cardinality(items) = MaxKeys}
  ELSE {Items(q)}

\* An answer with rows that are scanned one by one, each by itself.
ByRow(q) == C.scans /\ q.ask \notin {"count", "sample"}

\* A row that is passed over, as a query that failed for this row only.
Missed(q, i) ==
  LET own == [q EXCEPT !.cost = IF @ \in {"table", "nested"} THEN @ ELSE "part"]
  IN  CASE q.ask = "databases" -> [own EXCEPT !.db = i]
        [] q.ask = "schemas"   -> [own EXCEPT !.schema = i]
        [] q.ask \notin {"databases", "schemas"} /\ q.table = NoName ->
             [own EXCEPT !.schema = i[1], !.table = i[2]]
        [] OTHER -> own

\* All that is taken of an answer, what came before the connection broke, or all
\* but rows that cannot be scanned.
Answer ==
  \E q \in Elements(todo) :
    /\ Puts(q) /\ ~Denied(q) /\ ~Broken(q) /\ ~Missing(q)
    /\ \E taken \in Taken(q) : \E items \in SUBSET taken, torn \in BOOLEAN :
         /\ items = taken => ~torn
         /\ items # taken => /\ faults < MaxFaults
                            /\ IF torn THEN C.stream ELSE ByRow(q)
         /\ faults' = IF items = taken THEN faults ELSE faults + 1
         /\ failed' = IF torn THEN failed \cup {q} ELSE failed
         /\ unread' = IF torn THEN unread
                      ELSE unread \cup {Missed(q, i) : i \in Items(q) \ items}
         /\ read' = read \cup Rows(q, items)
         /\ IF Bare(q, items)
            THEN Pay(q)
            ELSE todo' = Following(q, items) /\ UNCHANGED <<lost, outcome>>
    /\ UNCHANGED <<call, server, drops>>

Fail ==
  \E q \in Elements(todo) :
    /\ Puts(q)
    /\ LET due == Denied(q) \/ Broken(q) \/ Gone(q)
       IN  /\ due \/ faults < MaxFaults
           /\ faults' = IF due THEN faults ELSE faults + 1
    /\ IF q.level < q.tries /\ (q.on = "any" \/ Denied(q))
       THEN /\ todo' = <<[q EXCEPT !.level = @ + 1]>> \o Tail(todo)
            /\ UNCHANGED <<failed, lost, outcome>>
       ELSE failed' = failed \cup {q} /\ Pay(q)
    /\ UNCHANGED <<call, server, read, unread, drops>>

Finish ==
  /\ outcome = "running" /\ todo = <<>>
  /\ outcome' = IF Report = {} /\ ~C.empty THEN "error" ELSE "ok"
  /\ UNCHANGED <<call, server, todo, read, failed, unread, lost, faults, drops>>

\* Somebody else drops a table.
DropTable ==
  /\ outcome = "running" /\ drops < MaxDrops
  /\ \E d \in Database, s \in Schema : \E n \in server[d][s] :
       server' = [server EXCEPT ![d][s] = @ \ {n}]
  /\ drops' = drops + 1
  /\ UNCHANGED <<call, todo, read, failed, unread, lost, outcome, faults>>

Collecting == Start \/ OpenDatabase \/ SkipSample \/ Answer \/ Fail \/ Finish

Next == Collecting \/ DropTable

Spec == Init /\ [][Next]_vars

------------------------------------------------------------------------------
(* What a collection promises.                                              *)

\* A query is about a schema that it names or, in a list of all, that it reads.
Spans(q, s) == \/ q.schema = s
               \/ C.merged /\ q.ask \in Lists /\ q.table = NoName

\* A query whose failure can cost a table, and one that can cost a part of it.
Covers(f, d, s, n) == /\ f.db \in {d, NoName}
                      /\ f.schema = NoName \/ Spans(f, s)
                      /\ f.table \in {n, NoName}
CostsTable(f) == \/ f.ask \in Lists \cup {"databases", "schemas"}
                 \/ f.cost \in {"instance", "database", "table"}
CostsPart(f, p) == \/ f.ask = p \/ f.cost = "rest"
                   \/ f.cost = "nested" /\ p \in Nested

\* A table reported for a database is one of that database and of the filter,
\* and all that is reported of it was read of that table, whatever bears the same
\* name in another schema or database (mysql.go:422-461, postgres.go:470-502).  A
\* connector that has one database read for all is asked for its schemas only,
\* and where schemas are merged the name and the database are the table's.
TablesOwn ==
  outcome = "ok" =>
    \A e \in Report :
      /\ Named(e.table.from[3])
      /\ e.table.key = Key(e.table.from[2], e.table.from[3])
      /\ C.own => e.table.from[1] = e.table.db
      /\ \A p \in e.parts :
           /\ p.from[1] = e.table.from[1] /\ p.from[3] = e.table.from[3]
           /\ p.from[2] = e.table.from[2] \/ C.merged

\* DuckDB has a "single main schema" (duckdb.go:102): what is reported of a table
\* was read of that table and of no other.
PartsOwn ==
  outcome = "ok" =>
    \A e \in Report : \A p \in e.parts : p.from = e.table.from

\* Whatever is missing from a report has a query that failed, or a row that was
\* passed over, of its own to answer for it: a failure in one database, schema or
\* table, and a row that is not scanned, take nothing from the others, a list
\* that is cut at the limit (redis.go:275-277) costs no more than what was cut
\* off, and a fallback query finds all that the first one would have.
Reached == IF AsksServer THEN Database ELSE {Target}
Within  == IF HasSchemas(C) \/ C.merged THEN Schema ELSE {Public}
Parts   == {a.ask : a \in Elements(Batch) \cup Elements(Each) \cup Elements(C.after)}
             \ {"sample"}
Causes  == failed \cup unread
LossHasCause ==
  outcome = "ok" =>
    \A d \in Reached, s \in Within :
      \A n \in {x \in server[Source(d)][s] : Named(x)} :
        \/ \E f \in Causes : Covers(f, d, s, n) /\ CostsTable(f)
        \/ \E e \in Report :
             /\ e.table.db = d /\ e.table.from = <<Source(d), s, n>>
             /\ \A p \in Parts :
                  \/ \E r \in e.parts : r.ask = p
                  \/ \E f \in Causes : Covers(f, d, s, n) /\ CostsPart(f, p)

\* The failure of a query of one database costs at most that database
\* (mysql.go:74-81).
DatabasesSurvive ==
  outcome \in {"error", "panic"} => Refused \/ \E f \in failed : f.db = NoName
=============================================================================
