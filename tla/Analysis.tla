------------------------------ MODULE Analysis ------------------------------
(* What collect makes of a scan (src/internal/analyze, diagnostics, context, *)
(* output) and how dbexplain diff compares two scans (src/internal/diff): a  *)
(* scan is the sequence of its tables in the order in which their instances  *)
(* were collected.                                                           *)
(*                                                                           *)
(* A table is [inst, db, name, kind, rows, writes, queries, columns,         *)
(* indexes, fks].  Scores are in thousandths, rounded down at each division. *)
EXTENDS SchemaDiff, Picks, FiniteSetsExt, SequencesExt

CONSTANTS Scans,       \* scans a collect may work on
          Compared,    \* pairs of scans for diff --before --after
          Caps,        \* capabilities of each kind
          TimeWords,   \* name parts that make a column a timestamp
          Wide,        \* columns of a table that is not yet wide (30)
          CoreN, TopN, \* tables in a summary (10), chunks (15)
          Magnitude,   \* row count v -> log10(v + 1), for counts of 10^n - 1
          QueryNorm,   \* query count v -> 1000 * log10(v + 1) / log10(10001)
          TableFilter  \* the -table flag, {} or {name}

\* A scan lists tables, and a table its columns, indexes and keys; a row count
\* may be negative where a server does not know it.
ASSUME ScansAssumption ==
  \A ts \in Scans :
    /\ ts \in Seq(Range(ts))
    /\ \A t \in Range(ts) :
         /\ t.columns \in Seq(Range(t.columns))
         /\ t.indexes \in Seq(Range(t.indexes))
         /\ t.fks \in Seq(Range(t.fks))
         /\ t.rows \in Int
         /\ t.rows > 0 => t.rows \in DOMAIN Magnitude
         /\ t.writes \in Nat
         /\ t.queries \in DOMAIN QueryNorm

\* So do scans that are compared; their names are lists of parts, and a column
\* has the attributes that are compared, of which the type is none.
ASSUME ComparedAssumption ==
  /\ "type" \notin Flags
  /\ \A p \in Compared : \A ts \in {p[1], p[2]} :
       /\ ts \in Seq(Range(ts))
       /\ \A t \in Range(ts) :
            /\ \A n \in {t.inst, t.db, t.name} : n \in Seq(Range(n))
            /\ \A list \in {t.columns, t.indexes, t.fks} : list \in Seq(Range(list))
            /\ \A c \in Range(t.columns) : c.at = [f \in Flags |-> c.at[f]]

\* A logarithm is not negative, and that of a table with rows is not 0.
ASSUME NormAssumption ==
  /\ Magnitude \in [DOMAIN Magnitude -> Nat]
  /\ \A v \in DOMAIN Magnitude : v \in Nat /\ (v > 0 => Magnitude[v] > 0)
  /\ QueryNorm \in [DOMAIN QueryNorm -> Nat]

\* A summary and the chunks may be as short as they like.
ASSUME SizesAssumption == CoreN \in Nat /\ TopN \in Nat

VARIABLES tables,  \* the scan
          before,  \* diff: the earlier scan
          stage,   \* what is computed next
          cursor,  \* where its loop is
          refs,    \* relationships found so far
          seen,    \* keys of the columns that have one
          parent,  \* the union-find forest
          groups, issues, ranks, report,
          changes  \* diff: the result

analysed == <<refs, seen, parent, groups, issues, ranks, report>>
analysis == <<tables, before, stage, cursor, analysed, changes>>

KeyOf(t) == <<t.inst, t.db, t.name>>
Keys == {KeyOf(tables[i]) : i \in 1 .. Len(tables)}
TableOf(k) == tables[CHOOSE i \in 1 .. Len(tables) : KeyOf(tables[i]) = k]

Scanned ==
  /\ \/ tables \in Scans /\ before = <<>> /\ stage = "declared"
     \/ \E p \in Compared : before = p[1] /\ tables = p[2] /\ stage = "compare"
  /\ cursor = 1
  /\ refs = <<>> /\ seen = {} /\ parent = << >> /\ groups = {} /\ issues = {}
  /\ ranks = <<>> /\ report = <<>> /\ changes = {}

-----------------------------------------------------------------------------
(* Relationships.                                                            *)

Ref(from, col, to, key, inferred, confidence) ==
  [from |-> from, col |-> col, to |-> to, key |-> key, inferred |-> inferred,
   confidence |-> confidence]

\* strings.Join(columns, ",")
ColumnList(cols) ==
  FlattenSeq([i \in 1 .. Len(cols) |-> IF i = 1 THEN cols[i] ELSE <<",">> \o cols[i]])

Or(given, default) == IF given = <<>> THEN default ELSE given

DeclaredOf(t) ==
  [i \in 1 .. Len(t.fks) |->
     LET fk == t.fks[i]
     IN  Ref(KeyOf(t), ColumnList(fk.columns), <<Or(fk.refInst, t.inst), Or(fk.refDB, t.db), fk.refTable>>,
             ColumnList(fk.refColumns), FALSE, 100)]

\* existingSet: the four names without anything between them.
SeenKey(from, col) == from[1] \o from[2] \o from[3] \o col

Declared ==
  /\ stage = "declared"
  /\ refs' = FlattenSeq([i \in 1 .. Len(tables) |-> DeclaredOf(tables[i])])
  /\ seen' = {SeenKey(refs'[i].from, refs'[i].col) : i \in 1 .. Len(refs')}
  /\ stage' = "infer"
  /\ UNCHANGED <<tables, before, cursor, parent, groups, issues, ranks, report, changes>>

IsPrimary(c) == c.at["is_primary"] = "true"

FoldedNames(list) == {Fold(list[i].name) : i \in 1 .. Len(list)}

\* pkIndex: the first primary column, of tables with one name the last one's;
\* or a column id.  <<>> when there is neither.
KeyColumn(k) ==
  LET same == {i \in 1 .. Len(tables) : KeyOf(tables[i])[1] = k[1] /\ KeyOf(tables[i])[2] = k[2]
                                          /\ Fold(tables[i].name) = Fold(k[3])}
      Primary(i) == {c \in 1 .. Len(tables[i].columns) : IsPrimary(tables[i].columns[c])}
      with == {i \in same : Primary(i) # {}}
  IN  IF with # {} THEN Fold(tables[Max(with)].columns[Min(Primary(Max(with)))].name)
      ELSE IF \E i \in same : <<"id">> \in FoldedNames(tables[i].columns) THEN <<"id">>
      ELSE <<>>

\* strings.TrimRight(n, "_-")
TrimRight(n) == SubSeq(n, 1, Max({0} \cup {i \in 1 .. Len(n) : n[i] \notin {"_", "-"}}))

\* What a column name says it refers to.
Stem(n) ==
  IF IsSuffix(<<"_", "id">>, n) \/ IsSuffix(<<"_", "fk">>, n) THEN SubSeq(n, 1, Len(n) - 2)
  ELSE IF IsSuffix(<<"id">>, n) THEN TrimRight(Front(n))
  ELSE <<>>

\* nameIndex: the tables of one name, by the first of three forms that exists.
Forms(stem) == <<stem, stem \o <<"s">>, stem \o <<"es">>>>
NamedThus(n) == {i \in 1 .. Len(tables) : Fold(tables[i].name) = n}

\* (Mutant: the plural comes first.)
MutCandidates(stem) ==
  LET form == SelectInSeq(<<Forms(stem)[2], Forms(stem)[3], Forms(stem)[1]>>, LAMBDA n : NamedThus(n) # {})
  IN  IF form = 0 THEN {} ELSE NamedThus(<<Forms(stem)[2], Forms(stem)[3], Forms(stem)[1]>>[form])

Candidates(stem) ==
  LET form == SelectInSeq(Forms(stem), LAMBDA n : NamedThus(n) # {})
  IN  IF form = 0 THEN {} ELSE NamedThus(Forms(stem)[form])

Confidence(from, to) ==
  IF from[1] # to[1] THEN 55 ELSE IF from[2] # to[2] THEN 70 ELSE 85

Columns == FlattenSeq([i \in 1 .. Len(tables) |->
                         [c \in 1 .. Len(tables[i].columns) |-> <<i, c>>]])

\* The loop of inferRefs at one column: the first candidate with a key.
InferColumn ==
  /\ stage = "infer" /\ cursor <= Len(Columns)
  /\ LET src  == tables[Columns[cursor][1]]
         col  == src.columns[Columns[cursor][2]]
         stem == Stem(Fold(col.name))
         keyed == {i \in Candidates(stem) : KeyColumn(KeyOf(tables[i])) # <<>>}
         tgt  == KeyOf(tables[Min(keyed)])
     IN  IF IsPrimary(col) \/ stem = <<>> \/ SeenKey(KeyOf(src), col.name) \in seen \/ keyed = {}
         THEN UNCHANGED <<refs, seen>>
         ELSE /\ refs' = Append(refs, Ref(KeyOf(src), col.name, tgt, KeyColumn(tgt), TRUE,
                                          Confidence(KeyOf(src), tgt)))
              /\ seen' = seen \cup {SeenKey(KeyOf(src), col.name)}
  /\ cursor' = cursor + 1
  /\ UNCHANGED <<tables, before, stage, parent, groups, issues, ranks, report, changes>>

Inferred ==
  /\ stage = "infer" /\ cursor > Len(Columns)
  /\ parent' = [k \in Keys |-> k]
  /\ stage' = "union" /\ cursor' = 1
  /\ UNCHANGED <<tables, before, refs, seen, groups, issues, ranks, report, changes>>

-----------------------------------------------------------------------------
(* clusterGroups.  A table that a relationship names and no scan holds is a  *)
(* node of its own from the first time it is looked for.                     *)

Parent(p, x) == IF x \in DOMAIN p THEN p[x] ELSE x

\* The nodes that find walks from x on, with the root at the end: there are no
\* more steps up than there are nodes, and the root is its own parent.
Ascent(p, x) ==
  LET up[n \in 0 .. Cardinality(DOMAIN p)] == IF n = 0 THEN x ELSE Parent(p, up[n - 1])
  IN  up

Root(p, x) == Ascent(p, x)[Cardinality(DOMAIN p)]

\* find, with the compression of the path it walks.
Compressed(p, x) ==
  [y \in DOMAIN p \cup {x} |->
     IF y \in Range(Ascent(p, x)) THEN Root(p, x) ELSE p[y]]

\* (Mutant: the tables are linked and not their roots.)
MutJoin(p, a, b) ==
  LET q == Compressed(Compressed(p, a), b)
  IN  IF Root(q, a) = Root(q, b) THEN q ELSE [q EXCEPT ![a] = Root(q, b)]

Join(p, a, b) ==
  LET q == Compressed(Compressed(p, a), b)
  IN  IF Root(q, a) = Root(q, b) THEN q ELSE [q EXCEPT ![Root(q, a)] = Root(q, b)]

Union ==
  /\ stage = "union" /\ cursor <= Len(refs)
  /\ parent' = Join(parent, refs[cursor].from, refs[cursor].to)
  /\ cursor' = cursor + 1
  /\ UNCHANGED <<tables, before, stage, refs, seen, groups, issues, ranks, report, changes>>

Group ==
  /\ stage = "union" /\ cursor > Len(refs)
  /\ groups' = {{k \in Keys : Root(parent, k) = r} : r \in {Root(parent, k) : k \in Keys}}
  /\ stage' = "diagnose" /\ cursor' = 1
  /\ UNCHANGED <<tables, before, refs, seen, parent, issues, ranks, report, changes>>

-----------------------------------------------------------------------------
(* The rules of diagnostics.                                                 *)

Issue(rule, t, col) == [rule |-> rule, table |-> KeyOf(t), col |-> col]

CapsOf(t) == IF t.kind \in DOMAIN Caps THEN Caps[t.kind] ELSE {}

FoldedColumns(list) == UNION {{Fold(c) : c \in Range(list[i].columns)} : i \in 1 .. Len(list)}

UnindexedFK(t) ==
  {Issue("unindexed_fk", t, c) : c \in FoldedColumns(t.fks) \ FoldedColumns(t.indexes)}

WideTable(t) == IF Len(t.columns) > Wide THEN {Issue("wide_table", t, <<>>)} ELSE {}

MissingPK(t) ==
  IF t.columns = <<>> \/ \E c \in Range(t.columns) : IsPrimary(c)
  THEN {} ELSE {Issue("missing_pk", t, <<>>)}

NoTimestamp(t) ==
  IF \/ "partition" \in CapsOf(t) \/ "foreign_key" \notin CapsOf(t)
     \/ Len(t.columns) < 3
     \/ \E n \in FoldedNames(t.columns) : Range(n) \cap TimeWords # {}
  THEN {} ELSE {Issue("no_timestamp", t, <<>>)}

IssuesOf(t) ==
  WideTable(t) \cup NoTimestamp(t)
    \cup IF "foreign_key" \in CapsOf(t) THEN UnindexedFK(t) \cup MissingPK(t) ELSE {}

Diagnose ==
  /\ stage = "diagnose"
  /\ issues' = UNION {IssuesOf(t) : t \in Range(tables)}
  /\ stage' = "rank"
  /\ UNCHANGED <<tables, before, cursor, refs, seen, parent, groups, ranks, report, changes>>

-----------------------------------------------------------------------------
(* Ranker.Rank.                                                              *)

FKCount(k) == Cardinality({i \in 1 .. Len(refs) : refs[i].to = k})
Degree(k) == FKCount(k) + Cardinality({i \in 1 .. Len(refs) : refs[i].from = k})

Most(counts) == Max({1} \cup counts)

Least(a, b) == IF a < b THEN a ELSE b
LogNorm(v, max) == IF v <= 0 THEN 0 ELSE (1000 * Magnitude[v]) \div Magnitude[max]

Factors(t) ==
  [graph_degree    |-> (1000 * Degree(KeyOf(t))) \div Most({Degree(KeyOf(u)) : u \in Range(tables)}),
   fk_centrality   |-> (1000 * FKCount(KeyOf(t))) \div Most({FKCount(KeyOf(u)) : u \in Range(tables)}),
   row_count       |-> LogNorm(t.rows, Most({u.rows : u \in Range(tables)})),
   index_density   |-> IF t.columns = <<>> THEN 0
                       ELSE Least(1000, (1000 * Len(t.indexes)) \div Len(t.columns)),
   write_intensity |-> (1000 * t.writes) \div (t.writes + 1),
   query_frequency |-> QueryNorm[t.queries]]

\* DefaultWeights, in hundredths; a statistic that no table has weighs nothing.
Weight ==
  [graph_degree |-> 30, fk_centrality |-> 30, row_count |-> 18, index_density |-> 7,
   write_intensity |-> IF \E t \in Range(tables) : t.writes > 0 THEN 10 ELSE 0,
   query_frequency |-> IF \E t \in Range(tables) : t.queries > 0 THEN 5 ELSE 0]

Total(f) == f.graph_degree + f.fk_centrality + f.row_count + f.index_density
              + f.write_intensity + f.query_frequency

Weighted(factors) == Total([d \in DOMAIN Weight |-> Weight[d] * factors[d]])

\* (Mutant: the weights are not normalised again.)
MutScore(factors) == Least(1000, Weighted(factors) \div 100)

Score(factors) == Least(1000, Weighted(factors) \div Total(Weight))

\* The entry of a table in the ranking.
Ranked(t) ==
  LET factors == Factors(t)
  IN  [table |-> KeyOf(t), score |-> Score(factors), factors |-> factors]

\* sort.Slice keeps no order among equal scores.
Rank ==
  /\ stage = "rank"
  /\ LET scores == {Ranked(t) : t \in Range(tables)}
     IN  \E order \in SetToSeqs(scores) :
           /\ \A i \in 1 .. Len(order) - 1 : order[i].score >= order[i + 1].score
           /\ ranks' = order
  /\ stage' = "report"
  /\ UNCHANGED <<tables, before, cursor, refs, seen, parent, groups, issues, report, changes>>

-----------------------------------------------------------------------------
(* What WriteContext writes: the summary, the topology and the chunks.       *)

FirstOf(s, n) == SubSeq(s, 1, Least(n, Len(s)))
TableNames(s) == [i \in 1 .. Len(s) |-> s[i].table]

Largest(sizes) == FirstOf(sizes, CoreN)

HasDegree(r) == r.factors.graph_degree > 0
Connected == FirstOf(TableNames(Select(ranks, HasDegree)), CoreN)

Subgraphs == {g \in groups : Cardinality(g) > 1}

\* (Mutant: a table is isolated when no relationship names it.)
MutIsolated == {k \in Keys : Degree(k) = 0}
Isolated == {k \in Keys : {k} \in groups}

Chunk(k) == [table |-> k, columns |-> TableOf(k).columns,
             issues |-> {i \in issues : i.table = k}]

Chosen(k) == TableFilter = {} \/ Fold(k[3]) \in {Fold(n) : n \in TableFilter}
Chunks ==
  LET names == FirstOf(Select(TableNames(ranks), Chosen), TopN)
  IN  [i \in 1 .. Len(names) |-> Chunk(names[i])]

\* The name of a chunk's file has _ for every slash; a later chunk of the same
\* name replaces the file.
FileOf(k) == [i \in 1 .. Len(PathOf(k)) |-> IF PathOf(k)[i] = "/" THEN "_" ELSE PathOf(k)[i]]
Files(chunks) ==
  [f \in {FileOf(chunks[i].table) : i \in 1 .. Len(chunks)} |->
     chunks[Max({i \in 1 .. Len(chunks) : FileOf(chunks[i].table) = f})]]

\* The tables with rows, largest first, in any order among equals.
WriteContext ==
  /\ stage = "report"
  /\ \E sizes \in SetToSeqs({t \in Range(tables) : t.rows > 0}) :
       /\ \A i \in 1 .. Len(sizes) - 1 : sizes[i].rows >= sizes[i + 1].rows
       /\ report' = <<[core |-> FirstOf(TableNames(ranks), CoreN),
                       largest |-> [i \in 1 .. Len(Largest(sizes)) |-> KeyOf(sizes[i])],
                       connected |-> Connected, subgraphs |-> Subgraphs,
                       isolated |-> Isolated, files |-> Files(Chunks)]>>
  /\ stage' = "done"
  /\ UNCHANGED <<tables, before, cursor, refs, seen, parent, groups, issues, ranks, changes>>

-----------------------------------------------------------------------------
(* handleDiff --before --after.                                              *)

\* buildSnapshotMap.
Snapshots(ts) ==
  [p \in {PathOf(KeyOf(ts[i])) : i \in 1 .. Len(ts)} |->
     ts[Max({i \in 1 .. Len(ts) : PathOf(KeyOf(ts[i])) = p})]]

Compare ==
  /\ stage = "compare"
  /\ changes' = DiffUniverse(Snapshots(before), Snapshots(tables))
  /\ stage' = "done"
  /\ UNCHANGED <<tables, before, cursor, analysed>>

Analyse == \/ Declared \/ InferColumn \/ Inferred \/ Union \/ Group
        \/ Diagnose \/ Rank \/ WriteContext \/ Compare

Analysing == Scanned /\ [][Analyse]_analysis

-----------------------------------------------------------------------------
(* What the results must be.                                                 *)

Done == stage = "done" /\ report # <<>>

Nodes == Keys \cup UNION {{refs[i].from, refs[i].to} : i \in 1 .. Len(refs)}

\* Sets of nodes that none of the first n relationships leaves.
Closed(n) ==
  {S \in SUBSET Nodes : \A i \in 1 .. n : refs[i].from \in S <=> refs[i].to \in S}

\* The nodes that the first n relationships connect with k: no closed set has
\* one and not the other.
Component(k, n) ==
  LET closed == Closed(n)
  IN  {x \in Nodes : \A S \in closed : k \in S => x \in S}

\* After each relationship two tables have one root exactly when a chain of
\* the relationships so far connects them, through tables that were not
\* scanned too; and the clusters are these classes (clusterGroups).
GroupsConnect ==
  /\ stage = "union" =>
       \A k \in Keys : {x \in DOMAIN parent : Root(parent, x) = Root(parent, k)}
                         = Component(k, cursor - 1)
  /\ groups = {} \/ groups = {Component(k, Len(refs)) \cap Keys : k \in Keys}

RefsOf(k, col) == {i \in 1 .. Len(refs) : refs[i].from = k /\ refs[i].col = col}

\* A column that is named after a table and no key of its own refers to one
\* table, a table of that very name where one has a key: it has its declared
\* relationships or one inferred one, which ends at a column of a table that
\* was scanned (inferRefs).
LinksRight ==
  stage \in {"union", "diagnose", "rank", "report"} \/ Done =>
  /\ \A i \in 1 .. Len(refs) :
       refs[i].inferred => /\ refs[i].to \in Keys
                           /\ refs[i].key \in FoldedNames(TableOf(refs[i].to).columns)
                           /\ RefsOf(refs[i].from, refs[i].col) = {i}
  /\ \A t \in Range(tables) : \A c \in Range(t.columns) :
       LET stem == Stem(Fold(c.name))
           own  == RefsOf(KeyOf(t), c.name)
       IN  /\ IsPrimary(c) => \A i \in own : ~ refs[i].inferred
           /\ ~ IsPrimary(c) /\ stem # <<>>
                /\ (\E u \in Range(tables) : Fold(u.name) = stem /\ KeyColumn(KeyOf(u)) # <<>>)
              => /\ own # {}
                 /\ \A i \in own : refs[i].inferred => Fold(refs[i].to[3]) = stem

\* The ranking follows the facts: scores fall, stay below 1, a table that is
\* behind another in no factor does not score less, and one that leads in
\* every factor there is data for has the full score (Rank).
MeritOrders ==
  \A i \in 1 .. Len(ranks) :
    LET f == ranks[i].factors
    IN  /\ ranks[i].score \in 0 .. 1000
        /\ \A j \in 1 .. Len(ranks) :
             (\A d \in DOMAIN f : f[d] >= ranks[j].factors[d]) => ranks[i].score >= ranks[j].score
        /\ (\A d \in DOMAIN f : Weight[d] > 0 => f[d] = 1000) => ranks[i].score = 1000

\* The parts of the context agree with each other: every table stands in one
\* subgraph or is isolated; a table of a subgraph has a relationship in the
\* ranking, an isolated one only to itself or out of the scan; no table left
\* out is larger than one that is listed, or scores more than one that has a
\* chunk (WriteContext).
TopologyAgrees ==
  Done =>
  LET r == report[1]
      ScoreOf(k) == (CHOOSE x \in Range(ranks) : x.table = k).score
      chunked == {r.files[f].table : f \in DOMAIN r.files}
  IN  /\ (UNION r.subgraphs) \cup r.isolated = Keys /\ (UNION r.subgraphs) \cap r.isolated = {}
      /\ \A g \in r.subgraphs : \A k \in g : Degree(k) > 0
      /\ \A i \in 1 .. Len(refs) : {refs[i].from, refs[i].to} \cap r.isolated # {}
             => refs[i].from = refs[i].to \/ refs[i].to \notin Keys
      /\ \A k \in Keys : TableOf(k).rows > 0 /\ k \notin Range(r.largest) =>
             /\ Len(r.largest) = CoreN
             /\ \A m \in Range(r.largest) : TableOf(m).rows >= TableOf(k).rows
      /\ \A k \in {x \in Keys : Chosen(x)} \ chunked :
             \A m \in chunked : ScoreOf(m) >= ScoreOf(k)

OneCase(list) == Cardinality(FoldedNames(list)) = Len(list)

\* A list of columns, indexes or keys after the changes are made to it.
ColumnsAfter(old, changes1) ==
  LET Told(c, f) == {ch \in changes1 : Fold(ch.name) = Fold(c.name) /\ ch.field = f}
      Value(c, f, v) == IF Told(c, f) = {} THEN v ELSE (CHOOSE ch \in Told(c, f) : TRUE).new[1]
  IN  {[name |-> Fold(c.name), type |-> Normal(Value(c, "type", c.type)),
        at |-> [f \in Flags |-> Value(c, f, c.at[f])]] :
         c \in {o \in Range(old) : \A ch \in Told(o, "type") : ch.new # <<>>}}

NamedAfter(old, changes1, Body(_)) ==
  LET Told(x) == {ch \in changes1 : Fold(ch.name) = Fold(x.name)}
  IN  {<<Fold(x.name), Body(x)>> : x \in {o \in Range(old) : Told(o) = {}}}
        \cup {<<Fold(ch.name), CHOOSE b \in ch.new : TRUE>> :
                ch \in {d \in changes1 : d.status # "removed"}}

\* A report of changes says all that changed: made to the earlier scan it
\* gives the later one, in every attribute the report is about, for tables
\* whose names differ in more than case (DiffTables).
DiffReplays ==
  stage = "done" /\ report = <<>> =>
  LET was == Snapshots(before)
      is  == Snapshots(tables)
      Changes(k) == {c \in changes : c.table = Cut(k)}
      Of(k, st) == \E c \in Changes(k) : c.status = st
      Made(k) == IF Changes(k) = {} THEN Unchanged ELSE (CHOOSE c \in Changes(k) : TRUE).changes
      Named2(list, Body(_)) == {<<Fold(x.name), Body(x)>> : x \in Range(list)}
      Seen(c) == [name |-> Fold(c.name), type |-> Normal(c.type), at |-> c.at]
      Kept(k) == {c \in Range(is[k].columns) : Fold(c.name) \in FoldedNames(was[k].columns)}
      New(k) == {<<Fold(c.name), TypeOf(c)>> : c \in Range(is[k].columns) \ Kept(k)}
  IN  \A k \in DOMAIN was \cup DOMAIN is :
        /\ Cardinality(Changes(k)) <= 1
        /\ Of(k, "added") <=> k \notin DOMAIN was
        /\ Of(k, "removed") <=> k \notin DOMAIN is
        /\ k \in DOMAIN was \cap DOMAIN is
             /\ (\A l \in {was[k].columns, is[k].columns, was[k].indexes, is[k].indexes,
                           was[k].fks, is[k].fks} : OneCase(l)) =>
             /\ ColumnsAfter(was[k].columns, Made(k).columns) = {Seen(c) : c \in Kept(k)}
             /\ New(k) = {<<Fold(ch.name), ch.new>> : ch \in {d \in Made(k).columns : d.old = <<>>}}
             /\ NamedAfter(was[k].indexes, Made(k).indexes, IndexBody)
                  = Named2(is[k].indexes, IndexBody)
             /\ NamedAfter(was[k].fks, Made(k).fks, KeyBody) = Named2(is[k].fks, KeyBody)

\* Every entry of the report names the table it is about.  diff.go says that
\* extractTable "extracts the table name from a "instance/db/table" key".
NamesOwn ==
  \A c \in changes : c.table \in {KeyOf(t) : t \in Range(tables) \cup Range(before)}
=============================================================================
