----------------------------- MODULE Federation -----------------------------
(* One DSL statement, from its @label.table references to the rows each table
   of the statement is read from: internal/dsl binds the references, execute
   and repl send the statement to one source or materialize them all, and
   internal/connector/filequery looks the tables up by name among the
   materialized rows.  The sources come out of a Go map, in any order.

   The items of a statement are the tables of its FROM and JOIN clauses (or
   of the two halves of a UNION), as they stand in the text.  What a source
   holds is abstracted to the source's name.                                *)
EXTENDS Naturals, Sequences, FiniteSets

CONSTANTS Label,     \* labels in the statement
          Kind,      \* Kind[l]: what the DSN labelled l is
          Ref,       \* the references statements make
          Raw,       \* those of the form @label.promql(expression)
          Alias,     \* aliases given to tables; they may be table names
          NoAlias,   \* no alias is given
          MaxItems   \* bound: tables in a statement

ASSUME FederationAssumption ==
  /\ Kind \in [Label -> {"sql", "file", "prom", "native", "unbound"}]
  /\ \A r \in Ref : r.label \in Label
  /\ Raw \subseteq Ref
  /\ \A r \in Raw : Kind[r.label] = "prom"
  /\ NoAlias \in Alias \ Nat   \* a number stands for a placeholder, __dsl_N__
  /\ \A r \in Ref : r.table # NoAlias
  /\ MaxItems \in Nat

Item == [ref : Ref, alias : Alias]

Statements(o) ==
  UNION {[1 .. n -> Item] : n \in IF o = "union" THEN {2} ELSE 1 .. MaxItems}

VARIABLES cmd,       \* the command: execute or repl
          op,        \* how the tables are combined
          stmt,      \* the statement's items
          pc,        \* where the command stands
          todo,      \* the placeholders not yet materialized
          allData,   \* the materialized sources, the primary one first
          reads      \* reads[i]: the rows item i was read from

vars == <<cmd, op, stmt, pc, todo, allData, reads>>

input == <<cmd, op, stmt>>

Init ==
  /\ cmd \in {"execute", "repl"}
  /\ op \in {"join", "union"}
  /\ stmt \in Statements(op)
  /\ pc = "bind"
  /\ todo = {}
  /\ allData = <<>>
  /\ reads = <<>>

-----------------------------------------------------------------------------

Items == DOMAIN stmt

RefOf(i) == stmt[i].ref

KindOf(i) == Kind[RefOf(i).label]

\* To classifySource Prometheus is a native source like any other.
SourceKinds == {IF KindOf(i) = "prom" THEN "native" ELSE KindOf(i) : i \in Items}

\* The placeholder of an item, named by the first item that has it: equal
\* references share one, raw PromQL expressions never do.
Placeholder(i) ==
  IF RefOf(i) \in Raw THEN i
  ELSE CHOOSE j \in Items : /\ RefOf(j) = RefOf(i)
                            /\ \A k \in Items : RefOf(k) = RefOf(i) => j <= k

Placeholders == {Placeholder(i) : i \in Items}

\* The rows a reference stands for.  A file has one table, whatever its name.
Rows(r) == IF Kind[r.label] = "file" THEN <<r.label>> ELSE <<r.label, r.table>>

\* Bind: a label is bound to the first DSN that carries it.
Bind ==
  /\ pc = "bind"
  /\ pc' = IF "unbound" \in SourceKinds THEN "failed"
           ELSE IF Cardinality(SourceKinds) > 1 THEN "materialize"
           ELSE "single"
  /\ todo' = IF pc' = "materialize" THEN Placeholders ELSE {}
  /\ UNCHANGED <<input, allData, reads>>

Fail == pc' = "failed" /\ UNCHANGED <<input, todo, allData, reads>>

Answer(r) == pc' = "done" /\ reads' = r /\ UNCHANGED <<input, todo, allData>>

-----------------------------------------------------------------------------
(* Sources all of one kind: the statement goes to the one that the iteration
   of the map yields first.                                                 *)

\* A mutant of RunSQL: every placeholder becomes the table of the primary.
RunSQLPrimaryTable ==
  /\ pc = "single"
  /\ SourceKinds = {"sql"}
  /\ \/ \E p \in Items : Answer([i \in Items |-> Rows(RefOf(p))])
     \/ Fail

\* CompileToSQL puts the table names in, and the database of the primary
\* source runs the whole statement, if it has such tables.
RunSQL ==
  /\ pc = "single"
  /\ SourceKinds = {"sql"}
  /\ \/ \E p \in Items :
          Answer([i \in Items |-> <<RefOf(p).label, RefOf(i).table>>])
     \/ Fail

\* HandleFileExecute gets the statement with its placeholders: only the table
\* of the FROM clause is found under its name.
RunFile ==
  /\ pc = "single"
  /\ SourceKinds = {"file"}
  /\ \/ /\ op = "union" \/ \A i \in Items : Placeholder(i) = 1
        /\ \E p \in Items : Answer([i \in Items |-> Rows(RefOf(p))])
     \/ Fail

\* A raw expression is sent as it is, by execute, and whatever it is joined
\* to is dropped.  Otherwise one metric only can be queried.
RunPromQL ==
  /\ pc = "single"
  /\ \E p \in Items :
       /\ KindOf(p) = "prom"
       /\ \/ /\ op = "join"
             /\ Len(stmt) = 1 \/ (cmd = "execute" /\ RefOf(p) \in Raw)
             /\ Answer([i \in Items |->
                          IF Placeholder(i) = Placeholder(p) THEN Rows(RefOf(p)) ELSE <<>>])
          \/ Fail

\* CompileToSQL refuses any other source.
RunNative == pc = "single" /\ (\E p \in Items : KindOf(p) = "native") /\ Fail

-----------------------------------------------------------------------------
(* Sources of several kinds: dslExecFederated and replExecFederated. *)

\* The name the rows of an item go by, and the name of its table in the SQL
\* given to filequery.  Only execute keeps the placeholder of a raw
\* expression, which is no identifier.
NameOf(i) == IF RefOf(i) \in Raw /\ cmd = "execute" THEN Placeholder(i) ELSE RefOf(i).table

\* The next source of the map's iteration.
Materialize ==
  /\ pc = "materialize"
  /\ todo # {}
  /\ \/ \E p \in todo :
          /\ KindOf(p) # "native"
          /\ allData' = Append(allData, [name |-> NameOf(p), rows |-> Rows(RefOf(p))])
          /\ todo' = todo \ {p}
          /\ UNCHANGED <<input, pc, reads>>
     \/ Fail

Exchanged(s, i, j) == [s EXCEPT ![i] = s[j], ![j] = s[i]]

\* A mutant of Reorder: the sources stay in the order of the map.
KeepMapOrder ==
  /\ pc = "materialize"
  /\ todo = {}
  /\ pc' = "query"
  /\ UNCHANGED <<input, todo, allData, reads>>

\* The FROM table's rows become the primary ones: the first of the later
\* sources that has its name changes places with the first.
Reorder ==
  LET later == {k \in 2 .. Len(allData) : allData[k].name = NameOf(1)}
  IN  /\ pc = "materialize"
      /\ todo = {}
      /\ allData' = IF later = {} THEN allData
                    ELSE Exchanged(allData, 1, CHOOSE k \in later : \A m \in later : k <= m)
      /\ pc' = "query"
      /\ UNCHANGED <<input, todo, reads>>

\* executeSelect's map of data sources: the FROM table and its alias name the
\* primary rows, unless a later source has the name too; the last one wins.
Extras(n) == {k \in 2 .. Len(allData) : allData[k].name = n}

Known(n) == Extras(n) # {} \/ n \in {NameOf(1), stmt[1].alias} \ {NoAlias}

Lookup(n) ==
  IF Extras(n) = {} THEN allData[1].rows
  ELSE allData[CHOOSE k \in Extras(n) : \A m \in Extras(n) : m <= k].rows

\* The alias of a joined table goes before its name if it names a source.
\* The FROM table is read from the primary rows, by each half of a UNION.
ReadFrom(i) ==
  IF i = 1 \/ op = "union" THEN allData[1].rows
  ELSE IF Known(stmt[i].alias) THEN Lookup(stmt[i].alias)
  ELSE Lookup(NameOf(i))

\* A joined table is looked up by its name and, failing that, by its alias.
Found(i) == i = 1 \/ Known(NameOf(i)) \/ Known(stmt[i].alias)

\* filequery.Execute.  An expression where a table name should be does not
\* parse.
Query ==
  /\ pc = "query"
  /\ \/ /\ ~(cmd = "repl" /\ \E i \in Items : RefOf(i) \in Raw)
        /\ op = "join" => \A i \in Items : Found(i)
        /\ Answer([i \in Items |-> ReadFrom(i)])
     \/ Fail

-----------------------------------------------------------------------------

Ended == pc \in {"done", "failed"} /\ UNCHANGED vars

Next == \/ Bind \/ RunSQL \/ RunFile \/ RunPromQL \/ RunNative
        \/ Materialize \/ Reorder \/ Query \/ Ended

Spec == Init /\ [][Next]_vars

-----------------------------------------------------------------------------
(* Properties *)

OwnRows == \A i \in Items : reads[i] = Rows(RefOf(i))

Federated == Cardinality(SourceKinds) > 1

\* No name of the statement stands for two sources: tables of different
\* sources have different names, and an alias is nobody else's name or alias.
Unambiguous ==
  \A i, j \in Items :
    /\ Rows(RefOf(i)) # Rows(RefOf(j)) => NameOf(i) # NameOf(j)
    /\ i # j /\ stmt[i].alias # NoAlias =>
         stmt[i].alias \notin {NameOf(j), stmt[j].alias}

\* Whatever order the map yielded the sources in, each table of a federated
\* join, one that is joined to itself included, is found under its name and
\* read from its own source.
FederatedJoinReadsOwn ==
  pc = "query" /\ op = "join" /\ Unambiguous =>
    \A i \in Items : Found(i) /\ ReadFrom(i) = Rows(RefOf(i))

\* A statement on one label reads each of its tables, whichever reference the
\* map yields as the primary source.  (A raw expression takes no join.)
OneLabelReadsOwn ==
  (/\ pc = "done" /\ ~Federated
   /\ \A i, j \in Items : RefOf(i).label = RefOf(j).label
   /\ Len(stmt) > 1 => \A i \in Items : RefOf(i) \notin Raw) => OwnRows

\* What docs/test/13-file-query-engine.md V2-6 and the README say of UNION:
\* the rows of both sides are merged.
UnionReadsBoth ==
  pc = "done" /\ Federated /\ op = "union" /\ Unambiguous => OwnRows

\* What docs/test/03-execute-sql.md 3.15 and the comment of dslExecFederated
\* ("multiple SQL DBs") say: tables of two databases can be joined, each read
\* from its own.
DatabasesReadOwn ==
  pc = "done" /\ SourceKinds = {"sql"} /\ op = "join" => OwnRows

=============================================================================
