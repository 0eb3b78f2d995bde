------------------------- MODULE FileSources_proofs -------------------------
(* What a statement over files reads and gives: first a federated join and a
   statement on one label, for any number of tables, sources and references
   and whatever order the map yields them in; then the engine that runs it, for
   any tables, rows and statement.                                           *)
EXTENDS Federation, FileQuery, NatOrder, SequenceTheorems

\* The statement's tables are numbered from 1.
Numbered == \E n \in Nat \ {0} : stmt \in [1 .. n -> Item]

\* What is materialized for a placeholder.
SourceOf(p) == [name |-> NameOf(p), rows |-> Rows(RefOf(p))]

\* The items of a statement are numbered from 1, and each has a reference and an
\* alias.
LEMMA ItemsNumbered ==
  ASSUME Numbered
  PROVE  /\ 1 \in Items
         /\ Items \in SUBSET Nat
         /\ \A i \in Items : i >= 1 /\ RefOf(i) \in Ref /\ stmt[i].alias \in Alias
  BY DEF Numbered, Items, RefOf, Item

\* The placeholder of an item has the item's reference, and so its name and
\* rows.
LEMMA PlaceholderOwn ==
  ASSUME Numbered, NEW i \in Items
  PROVE  /\ Placeholder(i) \in Placeholders
         /\ Placeholder(i) \in Items
         /\ RefOf(Placeholder(i)) = RefOf(i)
         /\ SourceOf(Placeholder(i)) = SourceOf(i)
  <1>1. Placeholder(i) \in Items /\ RefOf(Placeholder(i)) = RefOf(i)
    <2>1. CASE RefOf(i) \in Raw
      BY <2>1 DEF Placeholder
    <2>2. CASE RefOf(i) \notin Raw
      <3> DEFINE Same == {j \in Items : RefOf(j) = RefOf(i)}
      <3>1. Same \in SUBSET Nat /\ Same # {}
        BY ItemsNumbered
      <3>2. \E j \in Same : \A k \in Same : j <= k
        BY <3>1, LeastNat
      <3>3. \E j \in Items : /\ RefOf(j) = RefOf(i)
                             /\ \A k \in Items : RefOf(k) = RefOf(i) => j <= k
        BY <3>2
      <3> QED
        BY <2>2, <3>3 DEF Placeholder
    <2> QED
      BY <2>1, <2>2
  <1>2. NameOf(Placeholder(i)) = NameOf(i)
    BY <1>1 DEF NameOf, Placeholder
  <1> QED
    BY <1>1, <1>2 DEF Placeholders, SourceOf

-----------------------------------------------------------------------------
(* The materialized sources. *)

\* Whatever has been materialized is the source of a placeholder, and each
\* placeholder that is no longer to be done has its source there; when the
\* statement is about to run, the first source goes by the FROM table's name.
Gathering ==
  /\ Numbered
  /\ op \in {"join", "union"}
  /\ todo \in SUBSET Placeholders
  /\ allData \in Seq({SourceOf(p) : p \in Placeholders})
  /\ pc = "bind" => allData = <<>>
  /\ pc \in {"materialize", "query"} =>
       /\ Federated
       /\ \A p \in Placeholders \ todo : \E k \in DOMAIN allData : allData[k] = SourceOf(p)
  /\ pc = "query" =>
       /\ todo = {}
       /\ 1 \in DOMAIN allData
       /\ allData[1].name = NameOf(1)

\* Before a statement is bound, nothing has been materialized.
LEMMA InitGathering == Init => Gathering
  <1> SUFFICES ASSUME Init
               PROVE  Gathering
    OBVIOUS
  <1>1. Numbered
    BY FederationAssumption DEF Init, Statements, Numbered
  <1> QED
    BY <1>1 DEF Init, Gathering

\* Nothing of what is said of the statement changes while it is executed.
LEMMA StatementKept ==
  ASSUME UNCHANGED input
  PROVE  /\ Numbered' = Numbered /\ Federated' = Federated
         /\ Items' = Items /\ Placeholders' = Placeholders
         /\ SourceKinds' = SourceKinds
         /\ \A i : /\ SourceOf(i)' = SourceOf(i)
                   /\ NameOf(i)' = NameOf(i)
                   /\ RefOf(i)' = RefOf(i)
                   /\ Placeholder(i)' = Placeholder(i)
  BY DEF input, Numbered, Federated, Items, Placeholders, SourceKinds, SourceOf,
         NameOf, RefOf, Placeholder, KindOf

\* Materializing a placeholder, whichever the map yields, adds its own source and
\* takes it off the list.
LEMMA MaterializeGathers ==
  ASSUME Gathering, Materialize
  PROVE  Gathering'
  <1>1. UNCHANGED input
    BY DEF Materialize, Fail
  <1> DEFINE Sources == {SourceOf(p) : p \in Placeholders}
  <1>2. CASE Fail
    BY <1>1, <1>2, StatementKept DEF Fail, Gathering, input
  <1>3. ASSUME NEW p \in todo,
               allData' = Append(allData, SourceOf(p)),
               todo' = todo \ {p}, pc' = pc
        PROVE  Gathering'
    <2>1. p \in Placeholders /\ SourceOf(p) \in Sources /\ allData \in Seq(Sources)
      BY <1>3 DEF Gathering
    <2>2. /\ allData' \in Seq(Sources)
          /\ Len(allData) + 1 \in DOMAIN allData'
          /\ allData'[Len(allData) + 1] = SourceOf(p)
          /\ \A k \in DOMAIN allData : k \in DOMAIN allData' /\ allData'[k] = allData[k]
      <3> HIDE DEF Sources
      <3> QED
        BY <1>3, <2>1
    <2>3. \A q \in Placeholders \ todo' :
            \E k \in DOMAIN allData' : allData'[k] = SourceOf(q)
      BY <1>3, <2>2 DEF Gathering, Materialize
    <2> QED
      BY <1>1, <1>3, <2>2, <2>3, StatementKept DEF Gathering, Materialize, input
  <1> QED
    BY <1>2, <1>3 DEF Materialize, SourceOf

\* The exchange leaves every source there, and brings the one of the FROM table to
\* the front.
LEMMA ReorderGathers ==
  ASSUME Gathering, Reorder
  PROVE  Gathering'
  <1> DEFINE Sources == {SourceOf(p) : p \in Placeholders}
             later == {k \in 2 .. Len(allData) : allData[k].name = NameOf(1)}
  <1>1. /\ UNCHANGED <<input, todo, reads>>
        /\ pc = "materialize" /\ pc' = "query" /\ todo = {}
        /\ allData \in Seq(Sources)
        /\ allData' = IF later = {} THEN allData
                      ELSE Exchanged(allData, 1,
                                     CHOOSE k \in later : \A m \in later : k <= m)
    BY DEF Reorder, Gathering
  <1>2. PICK n \in DOMAIN allData : allData[n].name = NameOf(1)
    <2>1. Placeholder(1) \in Placeholders /\ SourceOf(Placeholder(1)) = SourceOf(1)
      BY PlaceholderOwn, ItemsNumbered DEF Gathering
    <2>2. \E n \in DOMAIN allData : allData[n] = SourceOf(1)
      BY <1>1, <2>1 DEF Gathering
    <2> QED
      BY <2>2 DEF SourceOf
  <1>3. /\ allData' \in Seq(Sources)
        /\ 1 \in DOMAIN allData'
        /\ allData'[1].name = NameOf(1)
        /\ \A k \in DOMAIN allData : \E m \in DOMAIN allData' : allData'[m] = allData[k]
    <2> HIDE DEF Sources
    <2>1. CASE later = {}
      <3>1. n = 1 /\ allData' = allData
        BY <1>1, <1>2, <2>1
      <3> QED
        BY <1>1, <1>2, <3>1
    <2>2. CASE later # {}
      <3>1. later \in SUBSET Nat
        BY <1>1
      <3>2. \E k \in later : \A m \in later : k <= m
        BY <2>2, <3>1, LeastNat
      <3>3. PICK k \in later : allData' = Exchanged(allData, 1, k)
        BY <1>1, <2>2, <3>2
      <3>4. /\ k \in DOMAIN allData /\ 1 \in DOMAIN allData
            /\ allData[k].name = NameOf(1)
        BY <1>1, <3>3
      <3>5. /\ DOMAIN allData' = DOMAIN allData
            /\ allData'[1] = allData[k]
            /\ allData'[k] = allData[1]
            /\ \A m \in DOMAIN allData \ {1, k} : allData'[m] = allData[m]
        BY <1>1, <3>3, <3>4 DEF Exchanged
      <3>6. allData' \in Seq(Sources)
        <4>1. allData \in [1 .. Len(allData) -> Sources] /\ Len(allData) \in Nat
          BY <1>1
        <4>2. allData' \in [1 .. Len(allData) -> Sources]
          BY <3>3, <3>4, <4>1 DEF Exchanged
        <4> QED
          BY <4>1, <4>2
      <3>7. \A j \in DOMAIN allData : \E m \in DOMAIN allData' : allData'[m] = allData[j]
        <4> TAKE j \in DOMAIN allData
        <4> QED
          BY <3>4, <3>5
      <3> QED
        BY <3>4, <3>5, <3>6, <3>7
    <2> QED
      BY <2>1, <2>2
  <1>4. UNCHANGED input
    BY <1>1
  <1>5. {SourceOf(p)' : p \in Placeholders'} = Sources
    BY <1>4, StatementKept
  <1>6. \A p \in Placeholders' \ todo' :
          \E k \in DOMAIN allData' : allData'[k] = SourceOf(p)'
    <2>1. \A p \in Placeholders \ todo :
            \E k \in DOMAIN allData' : allData'[k] = SourceOf(p)
      <3> TAKE p \in Placeholders \ todo
      <3>1. PICK k \in DOMAIN allData : allData[k] = SourceOf(p)
        BY <1>1 DEF Gathering
      <3> QED
        BY <1>3, <3>1
    <2>2. Placeholders' = Placeholders /\ \A p : SourceOf(p)' = SourceOf(p)
      BY <1>4, StatementKept
    <2> QED
      BY <1>1, <2>1, <2>2
  <1>7. /\ Numbered' /\ Federated' /\ op' \in {"join", "union"}
        /\ todo' \in SUBSET Placeholders'
    BY <1>1, <1>4, StatementKept DEF Gathering, input
  <1>8. allData' \in Seq({SourceOf(p)' : p \in Placeholders'})
    BY <1>3, <1>5
  <1>9. allData'[1].name = NameOf(1)'
    BY <1>3, <1>4, StatementKept
  <1> QED
    BY <1>1, <1>3, <1>6, <1>7, <1>8, <1>9 DEF Gathering

\* Every step keeps what has been gathered.
LEMMA NextGathering ==
  ASSUME Gathering, [Next]_vars
  PROVE  Gathering'
  <1>1. CASE UNCHANGED vars
    BY <1>1, StatementKept DEF Gathering, vars, input
  <1>2. CASE Bind
    <2>1. /\ UNCHANGED <<input, allData>> /\ allData = <<>>
          /\ pc' \in {"failed", "materialize", "single"}
          /\ pc' = "materialize" => Federated
          /\ todo' \in SUBSET Placeholders
          /\ pc' = "materialize" => todo' = Placeholders
      BY <1>2 DEF Bind, Gathering, Federated
    <2> QED
      BY <2>1, StatementKept DEF Gathering, input
  <1>3. CASE RunSQL \/ RunFile \/ RunPromQL \/ RunNative \/ Query
    <2>1. UNCHANGED <<input, todo, allData>> /\ pc' \in {"done", "failed"}
      BY <1>3 DEF RunSQL, RunFile, RunPromQL, RunNative, Query, Answer, Fail
    <2> QED
      BY <2>1, StatementKept DEF Gathering, input
  <1>4. CASE Ended
    BY <1>1, <1>4 DEF Ended
  <1> QED
    BY <1>1, <1>2, <1>3, <1>4, MaterializeGathers, ReorderGathers DEF Next

-----------------------------------------------------------------------------
(* A federated join. *)

\* In an unambiguous statement sources of one name are one.
LEMMA NameTellsRows ==
  ASSUME Numbered, Unambiguous, NEW i \in Items, NEW p \in Placeholders,
         SourceOf(p).name = NameOf(i)
  PROVE  SourceOf(p).rows = Rows(RefOf(i))
  <1>1. PICK j \in Items : p = Placeholder(j)
    BY DEF Placeholders
  <1>2. p \in Items
    BY <1>1, PlaceholderOwn
  <1> QED
    BY <1>2 DEF Unambiguous, SourceOf

\* No source is without a name.
LEMMA NameGiven ==
  ASSUME Numbered, NEW i \in Items
  PROVE  NameOf(i) # NoAlias
  BY FederationAssumption, ItemsNumbered, PlaceholderOwn DEF NameOf

\* The last of the later sources of one name.
LEMMA LookupFinds ==
  ASSUME NEW n, Extras(n) # {}, NEW S, allData \in Seq(S)
  PROVE  \E k \in DOMAIN allData : allData[k].name = n /\ Lookup(n) = allData[k].rows
  <1>1. Extras(n) \in SUBSET (0 .. Len(allData)) /\ Len(allData) \in Nat
    BY DEF Extras
  <1>2. \E k \in Extras(n) : \A m \in Extras(n) : m <= k
    BY <1>1, GreatestNat
  <1>3. PICK k \in Extras(n) : Lookup(n) = allData[k].rows
    BY <1>2 DEF Lookup
  <1> QED
    BY <1>3 DEF Extras

\* Each table of a federated join is found and read from its own source, for
\* any number of tables and sources and every order of the map.
LEMMA GatheredReadsOwn == Gathering => FederatedJoinReadsOwn
  <1> SUFFICES ASSUME Gathering, pc = "query", op = "join", Unambiguous,
                      NEW i \in Items
               PROVE  Found(i) /\ ReadFrom(i) = Rows(RefOf(i))
    BY DEF FederatedJoinReadsOwn
  <1>1. /\ Numbered /\ 1 \in Items
        /\ allData \in Seq({SourceOf(p) : p \in Placeholders})
        /\ 1 \in DOMAIN allData /\ allData[1].name = NameOf(1)
    BY ItemsNumbered DEF Gathering
  <1>2. \A k \in DOMAIN allData : \E p \in Placeholders : allData[k] = SourceOf(p)
    <2> DEFINE Sources == {SourceOf(p) : p \in Placeholders}
    <2>1. \A k \in DOMAIN allData : allData[k] \in Sources
      <3>1. allData \in Seq(Sources)
        BY <1>1
      <3> HIDE DEF Sources
      <3> QED
        BY <3>1
    <2> QED
      BY <2>1
  <1>3. \A k \in DOMAIN allData, j \in Items :
          allData[k].name = NameOf(j) => allData[k].rows = Rows(RefOf(j))
    BY <1>1, <1>2, NameTellsRows
  <1>4. PICK k \in DOMAIN allData : allData[k] = SourceOf(i)
    <2>1. Placeholder(i) \in Placeholders /\ SourceOf(Placeholder(i)) = SourceOf(i)
      BY <1>1, PlaceholderOwn
    <2> QED
      BY <2>1 DEF Gathering
  <1>5. allData[k].name = NameOf(i)
    BY <1>4 DEF SourceOf
  <1>6. CASE i = 1
    BY <1>1, <1>3, <1>6 DEF Found, ReadFrom
  <1>7. CASE i # 1 /\ Known(stmt[i].alias)
    <2>1. stmt[i].alias # NoAlias
      <3>1. \A p \in Placeholders : SourceOf(p).name # NoAlias
        BY <1>1, PlaceholderOwn, NameGiven DEF Placeholders, SourceOf
      <3>2. Extras(NoAlias) = {}
        BY <1>1, <1>2, <3>1 DEF Extras
      <3> QED
        BY <1>7, <3>2 DEF Known
    <2>2. \A j \in Items : j # i => stmt[i].alias \notin {NameOf(j), stmt[j].alias}
      BY <2>1 DEF Unambiguous
    <2>3. Extras(stmt[i].alias) # {}
      BY <1>1, <1>7, <2>2 DEF Known
    <2>4. PICK m \in DOMAIN allData :
            allData[m].name = stmt[i].alias /\ Lookup(stmt[i].alias) = allData[m].rows
      BY <1>1, <2>3, LookupFinds
    <2>5. allData[m].name = NameOf(i)
      <3>1. PICK p \in Placeholders : allData[m] = SourceOf(p)
        BY <1>2
      <3>2. p \in Items /\ allData[m].name = NameOf(p)
        <4>1. PICK j \in Items : p = Placeholder(j)
          BY DEF Placeholders
        <4>2. p \in Items
          BY <1>1, <4>1, PlaceholderOwn
        <4>3. SourceOf(p).name = NameOf(p)
          BY DEF SourceOf
        <4> QED
          BY <3>1, <4>2, <4>3
      <3> QED
        BY <2>2, <2>4, <3>2
    <2> QED
      BY <1>3, <1>7, <2>4, <2>5 DEF Found, ReadFrom
  <1>8. CASE i # 1 /\ ~ Known(stmt[i].alias)
    <2>1. CASE Extras(NameOf(i)) # {}
      <3>1. PICK m \in DOMAIN allData :
              allData[m].name = NameOf(i) /\ Lookup(NameOf(i)) = allData[m].rows
        BY <1>1, <2>1, LookupFinds
      <3> QED
        BY <1>3, <1>8, <2>1, <3>1 DEF Found, ReadFrom, Known
    <2>2. CASE Extras(NameOf(i)) = {}
      <3>1. k = 1
        BY <1>1, <1>5, <2>2 DEF Extras
      <3>2. NameOf(i) = NameOf(1) /\ NameOf(i) # NoAlias
        BY <1>1, <1>5, <3>1, NameGiven
      <3>3. Known(NameOf(i)) /\ Lookup(NameOf(i)) = Rows(RefOf(i))
        BY <1>3, <1>5, <2>2, <3>1, <3>2 DEF Known, Lookup
      <3> QED
        BY <1>8, <3>3 DEF Found, ReadFrom
    <2> QED
      BY <2>1, <2>2
  <1> QED
    BY <1>6, <1>7, <1>8

\* Each table of a federated join is found under its name and read from its own
\* source, in every order the map can yield the sources in, as long as no name
\* of the statement stands for two of them.
THEOREM JoinAlwaysReadsOwn == Spec => []FederatedJoinReadsOwn
  BY InitGathering, NextGathering, GatheredReadsOwn, PTL DEF Spec

-----------------------------------------------------------------------------
(* A statement on one label. *)

\* What the three ways to run a statement on sources of one kind answer.
LEMMA SingleReadsOwn ==
  ASSUME Gathering, RunSQL \/ RunFile \/ RunPromQL,
         \A i, j \in Items : RefOf(i).label = RefOf(j).label,
         Len(stmt) > 1 => \A i \in Items : RefOf(i) \notin Raw,
         pc' = "done", NEW i \in Items
  PROVE  reads'[i] = Rows(RefOf(i))
  <1>1. \A j \in Items : KindOf(j) = KindOf(i)
    BY DEF KindOf
  <1>2. CASE RunSQL
    <2>1. KindOf(i) = "sql"
      <3>1. SourceKinds = {"sql"}
        BY <1>2 DEF RunSQL
      <3>2. (IF KindOf(i) = "prom" THEN "native" ELSE KindOf(i)) \in SourceKinds
        BY DEF SourceKinds
      <3> QED
        BY <3>1, <3>2
    <2>2. PICK p \in Items : reads'[i] = <<RefOf(p).label, RefOf(i).table>>
      BY <1>2 DEF RunSQL, Answer, Fail
    <2> QED
      BY <2>1, <2>2 DEF Rows, KindOf
  <1>3. CASE RunFile
    <2>1. \A j \in Items : KindOf(j) = "file"
      <3>1. SourceKinds = {"file"}
        BY <1>3 DEF RunFile
      <3>2. (IF KindOf(i) = "prom" THEN "native" ELSE KindOf(i)) \in SourceKinds
        BY DEF SourceKinds
      <3> QED
        BY <1>1, <3>1, <3>2
    <2>2. PICK p \in Items : reads'[i] = Rows(RefOf(p))
      BY <1>3 DEF RunFile, Answer, Fail
    <2> QED
      BY <2>1, <2>2 DEF Rows, KindOf
  <1>4. CASE RunPromQL
    <2>1. PICK p \in Items :
            /\ Len(stmt) = 1 \/ RefOf(p) \in Raw
            /\ reads'[i] = IF Placeholder(i) = Placeholder(p) THEN Rows(RefOf(p)) ELSE <<>>
      BY <1>4 DEF RunPromQL, Answer, Fail
    <2>2. PICK n \in Nat \ {0} : stmt \in [1 .. n -> Item]
      BY DEF Gathering, Numbered
    <2>3. Len(stmt) = n /\ Items = 1 .. n
      BY <2>2 DEF Items
    <2>4. n = 1
      BY <2>1, <2>3
    <2>5. i = p
      BY <2>3, <2>4
    <2> QED
      BY <2>1, <2>5
  <1> QED
    BY <1>2, <1>3, <1>4

\* The result of a statement with one label is of its source, whichever the map
\* yields first.
LEMMA NextOneLabel ==
  ASSUME Gathering, OneLabelReadsOwn, [Next]_vars
  PROVE  OneLabelReadsOwn'
  <1>1. CASE UNCHANGED vars
    <2>1. Len(stmt') = Len(stmt) /\ UNCHANGED <<input, pc, reads>>
      BY <1>1 DEF vars, input
    <2> QED
      BY <2>1, StatementKept DEF OneLabelReadsOwn, OwnRows
  <1>2. CASE Ended
    BY <1>1, <1>2 DEF Ended
  <1>3. CASE Bind \/ Materialize \/ Reorder \/ RunNative
    <2>1. pc' # "done"
      BY <1>3 DEF Bind, Materialize, Reorder, RunNative, Fail
    <2> QED
      BY <2>1 DEF OneLabelReadsOwn
  <1>4. CASE Query
    <2>1. Federated /\ UNCHANGED input
      BY <1>4 DEF Query, Gathering, Answer, Fail
    <2> QED
      BY <2>1, StatementKept DEF OneLabelReadsOwn
  <1>5. CASE RunSQL \/ RunFile \/ RunPromQL
    <2>1. UNCHANGED input /\ Len(stmt') = Len(stmt)
      BY <1>5 DEF RunSQL, RunFile, RunPromQL, Answer, Fail, input
    <2>2. Items' = Items /\ \A i : RefOf(i)' = RefOf(i)
      BY <2>1, StatementKept
    <2>3. SUFFICES ASSUME pc' = "done",
                          \A i, j \in Items : RefOf(i).label = RefOf(j).label,
                          Len(stmt) > 1 => \A i \in Items : RefOf(i) \notin Raw,
                          NEW i \in Items
                   PROVE  reads'[i] = Rows(RefOf(i))
      BY <2>1, <2>2 DEF OneLabelReadsOwn, OwnRows
    <2> QED
      BY <1>5, <2>3, SingleReadsOwn
  <1> QED
    BY <1>1, <1>2, <1>3, <1>4, <1>5 DEF Next

\* A statement whose tables carry one label reads each of them, whichever of
\* its references the map yields as the primary one.
THEOREM OneLabelAlwaysReadsOwn == Spec => []OneLabelReadsOwn
  <1>1. Init => OneLabelReadsOwn
    BY DEF Init, OneLabelReadsOwn
  <1> QED
    BY <1>1, InitGathering, NextGathering, NextOneLabel, PTL DEF Spec

-----------------------------------------------------------------------------
(* The file query engine: positions and columns. *)

\* The least and the greatest member of a set of positions.
LEMMA LeastPosition ==
  ASSUME NEW n \in Nat, NEW S \in SUBSET (1 .. n)
  PROVE  /\ Least(S) \in 0 .. n
         /\ S = {} => Least(S) = 0
         /\ S # {} => Least(S) \in S /\ \A j \in S : Least(S) <= j
  <1>1. CASE S = {}
    BY <1>1 DEF Least
  <1>2. CASE S # {}
    <2>1. S \in SUBSET Nat
      OBVIOUS
    <2>2. \E i \in S : \A j \in S : i <= j
      BY <1>2, <2>1, LeastNat
    <2>3. Least(S) \in S /\ \A j \in S : Least(S) <= j
      BY <1>2, <2>2 DEF Least
    <2>4. Least(S) \in 0 .. n
      <3>1. Least(S) \in 1 .. n
        BY <2>3
      <3> QED
        BY <3>1
    <2> QED
      BY <1>2, <2>3, <2>4
  <1> QED
    BY <1>1, <1>2

\* The greatest of a set of positions is one of them, not below any other, and 0 if
\* there is none.
LEMMA GreatestPosition ==
  ASSUME NEW n \in Nat, NEW S \in SUBSET (1 .. n)
  PROVE  /\ Greatest(S) \in 0 .. n
         /\ S = {} => Greatest(S) = 0
         /\ S # {} => Greatest(S) \in S /\ \A j \in S : j <= Greatest(S)
  <1>1. CASE S = {}
    BY <1>1 DEF Greatest
  <1>2. CASE S # {}
    <2>1. S \in SUBSET (0 .. n)
      OBVIOUS
    <2>2. \E i \in S : \A j \in S : j <= i
      BY <1>2, <2>1, GreatestNat
    <2>3. Greatest(S) \in S /\ \A j \in S : j <= Greatest(S)
      BY <1>2, <2>2 DEF Greatest
    <2>4. Greatest(S) \in 0 .. n
      <3>1. Greatest(S) \in 1 .. n
        BY <2>3
      <3> QED
        BY <3>1
    <2> QED
      BY <1>2, <2>3, <2>4
  <1> QED
    BY <1>1, <1>2

\* Where a column is found in a header.
LEMMA FindPosition ==
  ASSUME NEW hdr, hdr \in Seq(Range(hdr)), NEW col
  PROVE  /\ Len(hdr) \in Nat
         /\ DOMAIN hdr = 1 .. Len(hdr)
         /\ Find(hdr, col) \in 0 .. Len(hdr)
         /\ FindLast(hdr, col) \in 0 .. Len(hdr)
         /\ Find(hdr, col) # 0 <=> col \in Range(hdr)
         /\ FindLast(hdr, col) # 0 <=> col \in Range(hdr)
         /\ Find(hdr, col) # 0 => hdr[Find(hdr, col)] = col
         /\ FindLast(hdr, col) # 0 => hdr[FindLast(hdr, col)] = col
  <1> DEFINE S == {i \in DOMAIN hdr : hdr[i] = col}
  <1>1. Len(hdr) \in Nat /\ DOMAIN hdr = 1 .. Len(hdr)
    OBVIOUS
  <1>2. S \in SUBSET (1 .. Len(hdr))
    BY <1>1
  <1>3. Find(hdr, col) = Least(S) /\ FindLast(hdr, col) = Greatest(S)
    BY DEF Find, FindLast
  <1>4. S # {} <=> col \in Range(hdr)
    BY DEF Range
  <1>5. \A i \in S : hdr[i] = col /\ i # 0
    BY <1>2
  <1> HIDE DEF S
  <1>6. /\ Least(S) \in 0 .. Len(hdr)
        /\ S = {} => Least(S) = 0
        /\ S # {} => Least(S) \in S
    BY <1>1, <1>2, LeastPosition
  <1>7. /\ Greatest(S) \in 0 .. Len(hdr)
        /\ S = {} => Greatest(S) = 0
        /\ S # {} => Greatest(S) \in S
    BY <1>1, <1>2, GreatestPosition
  <1> QED
    BY <1>1, <1>3, <1>4, <1>5, <1>6, <1>7

\* A column that the header has once is found there from both ends.
LEMMA FoundOnce ==
  ASSUME NEW T, T.header \in Seq(Range(T.header)), NEW col, HasOne(T, col)
  PROVE  /\ Find(T.header, col) \in 1 .. Len(T.header)
         /\ FindLast(T.header, col) = Find(T.header, col)
         /\ col \in Range(T.header)
  <1> DEFINE hdr == T.header
             S == {i \in DOMAIN hdr : hdr[i] = col}
  <1>1. Len(hdr) \in Nat /\ DOMAIN hdr = 1 .. Len(hdr)
    OBVIOUS
  <1>2. S \in SUBSET (1 .. Len(hdr))
    BY <1>1
  <1>3. Find(hdr, col) = Least(S) /\ FindLast(hdr, col) = Greatest(S)
    BY DEF Find, FindLast
  <1>4. S # {} => col \in Range(hdr)
    BY DEF Range
  <1>5. Cardinality(S) = 1
    BY DEF HasOne
  <1> HIDE DEF S, hdr
  <1>6. IsFiniteSet(S)
    <2>1. 1 \in Int /\ Len(hdr) \in Int
      BY <1>1
    <2>2. IsFiniteSet(1 .. Len(hdr))
      BY <2>1, FS_Interval
    <2> QED
      BY <1>2, <2>2, FS_Subset
  <1>7. PICK i : S = {i}
    BY <1>5, <1>6, FS_Singleton
  <1>8. Least(S) \in S
    BY <1>1, <1>2, <1>7, LeastPosition
  <1>9. Greatest(S) \in S
    BY <1>1, <1>2, <1>7, GreatestPosition
  <1> QED
    BY <1>2, <1>3, <1>4, <1>7, <1>8, <1>9 DEF hdr

\* The headers of the tables.
LEMMA Headers ==
  ASSUME in \in Inputs
  PROVE  /\ in.l.header \in Seq(Range(in.l.header))
         /\ in.r.header \in Seq(Range(in.r.header))
  BY InputsAssumption

-----------------------------------------------------------------------------
(* WHERE. *)

\* A column that is not ambiguous is at one position, by its bare name and as a
\* condition writes it: the index and the evaluator look at the same cells.
LEMMA IndexPosition ==
  ASSUME in \in Inputs, ~Ambiguous, UsesIndex(in),
         NEW ref, ref = st.conds[Indexed(in)].ref
  PROVE  Resolve(Cols(in), ref) = Cols(in)[<<"", ref.col>>]
  <1> DEFINE cm  == Cols(in)
             col == ref.col
  <1>1. <<"", col>> \in DOMAIN cm /\ Indexed(in) # 0
    BY DEF UsesIndex, st
  <1>2. CASE <<ref.table, col>> \notin DOMAIN cm
    BY <1>1, <1>2 DEF Resolve
  <1>3. CASE <<ref.table, col>> \in DOMAIN cm
    <2>1. Resolve(cm, ref) = cm[<<ref.table, col>>]
      BY <1>3 DEF Resolve
    <2>2. CASE st.join = "NONE"
      <3>1. cm = ColMap(in.l, [alias |-> "", header |-> <<>>])
        BY <2>2 DEF Cols, st
      <3>2. \A q \in DOMAIN cm : cm[q] = IF q[2] \in Range(in.l.header)
                                         THEN FindLast(in.l.header, q[2])
                                         ELSE Len(in.l.header) + Find(<<>>, q[2])
        BY <3>1 DEF ColMap
      <3> QED
        BY <1>1, <1>3, <2>1, <3>2
    <2>3. CASE st.join # "NONE"
      <3>1. cm = ColMap(in.l, in.r)
        BY <2>3 DEF Cols, st
      <3>2. \A q \in DOMAIN cm :
              cm[q] = IF q[1] # "" /\ q[1] = in.r.alias /\ q[2] \in Range(in.r.header)
                      THEN Len(in.l.header) + FindLast(in.r.header, q[2])
                      ELSE IF q[2] \in Range(in.l.header) THEN FindLast(in.l.header, q[2])
                      ELSE Len(in.l.header) + Find(in.r.header, q[2])
        BY <3>1 DEF ColMap
      <3>3. cm[<<"", col>>] = IF col \in Range(in.l.header)
                              THEN FindLast(in.l.header, col)
                              ELSE Len(in.l.header) + Find(in.r.header, col)
        BY <1>1, <3>2
      <3>4. CASE col \notin Range(in.r.header)
        BY <1>3, <2>1, <3>2, <3>3, <3>4
      <3>5. CASE col \in Range(in.r.header)
        <4>1. col \notin Range(in.l.header) /\ HasOne(in.r, col)
          BY <1>1, <2>3, <3>5 DEF Ambiguous
        <4>2. FindLast(in.r.header, col) = Find(in.r.header, col)
          BY <4>1, Headers, FoundOnce
        <4> QED
          BY <1>3, <2>1, <3>2, <3>3, <4>1, <4>2
      <3> QED
        BY <3>4, <3>5
    <2> QED
      BY <2>2, <2>3
  <1> QED
    BY <1>2, <1>3

\* The condition that an index answers is the first equality of a conjunction.
LEMMA IndexedCondition ==
  ASSUME in \in Inputs, Indexed(in) # 0
  PROVE  /\ st.chain = "AND"
         /\ Indexed(in) \in DOMAIN st.conds
         /\ st.conds[Indexed(in)].op = "="
         /\ Len(st.conds) \in Nat
         /\ DOMAIN st.conds = 1 .. Len(st.conds)
  <1> DEFINE S == {n \in DOMAIN in.stmt.conds : in.stmt.conds[n].op = "="}
  <1>1. in.stmt.conds \in Seq(Range(in.stmt.conds))
    BY InputsAssumption
  <1>2. /\ Len(in.stmt.conds) \in Nat
        /\ DOMAIN in.stmt.conds = 1 .. Len(in.stmt.conds)
    BY <1>1
  <1>3. S \in SUBSET (1 .. Len(in.stmt.conds))
    BY <1>2
  <1>4. in.stmt.chain = "AND" /\ Indexed(in) = Least(S)
    BY DEF Indexed
  <1>5. S # {} => Least(S) \in S
    <2> HIDE DEF S
    <2> QED
      BY <1>2, <1>3, LeastPosition
  <1>6. S = {} => Least(S) = 0
    BY DEF Least
  <1> QED
    BY <1>2, <1>4, <1>5, <1>6 DEF st

\* What passes the filter satisfies the WHERE, and what satisfies it passes, but
\* for a cell that equals a literal as a number only.
LEMMA PassesWhere ==
  ASSUME in \in Inputs, ~Ambiguous, st.conds # <<>>, NEW row
  PROVE  /\ Passes(in, row) => Where(in, row)
         /\ (/\ Where(in, row)
             /\ \A n \in DOMAIN st.conds : st.conds[n].op = "=" =>
                  LET x == row[Resolve(Cols(in), st.conds[n].ref)]
                  IN  Equal(x, st.conds[n].lit) => x = st.conds[n].lit)
            => Passes(in, row)
  <1>1. CASE ~UsesIndex(in)
    BY <1>1 DEF Passes
  <1>2. CASE UsesIndex(in)
    <2> DEFINE k == Indexed(in)
               c == st.conds[k]
               i == Resolve(Cols(in), c.ref)
    <2>1. /\ st.chain = "AND" /\ k \in DOMAIN st.conds /\ c.op = "="
          /\ Len(st.conds) \in Nat /\ DOMAIN st.conds = 1 .. Len(st.conds)
      BY <1>2, IndexedCondition DEF UsesIndex
    <2>2. Cols(in)[<<"", c.ref.col>>] = i
      BY <1>2, IndexPosition
    <2>3. InIndex(in, row) <=> i \in DOMAIN row /\ row[i] = c.lit
      BY <2>2 DEF InIndex, st
    <2>4. Where(in, row) <=> \A n \in DOMAIN st.conds : Holds(in, st.conds[n], row)
      BY <2>1 DEF Where, st
    <2>5. Holds(in, c, row) <=> i \in DOMAIN row /\ Equal(row[i], c.lit)
      BY <2>1 DEF Holds, Evaluates
    <2>6. Passes(in, row) <=> InIndex(in, row) /\ (Len(st.conds) > 1 => Where(in, row))
      BY <1>2 DEF Passes, st
    <2>7. Equal(c.lit, c.lit)
      BY DEF Equal
    <2>8. ASSUME Passes(in, row)
          PROVE  Where(in, row)
      <3>1. CASE Len(st.conds) > 1
        BY <2>6, <2>8, <3>1
      <3>2. CASE ~(Len(st.conds) > 1)
        <4>1. \A n \in DOMAIN st.conds : n = k
          BY <2>1, <3>2
        <4>2. Holds(in, c, row)
          BY <2>3, <2>5, <2>6, <2>7, <2>8
        <4> QED
          BY <2>4, <4>1, <4>2
      <3> QED
        BY <3>1, <3>2
    <2>9. ASSUME Where(in, row), Equal(row[i], c.lit) => row[i] = c.lit
          PROVE  Passes(in, row)
      BY <2>1, <2>3, <2>4, <2>5, <2>6, <2>9
    <2> QED
      BY <2>1, <2>8, <2>9
  <1> QED
    BY <1>1, <1>2

\* A filter over rows gives what FilterSound says.
LEMMA FilterKeeps ==
  ASSUME in \in Inputs, prev \in Seq(Row), st.conds # <<>> => data = Filter(in, prev)
  PROVE  FilterSound
  <1> SUFFICES ASSUME st.conds # <<>>, ~Ambiguous
               PROVE  \E at \in [DOMAIN data -> DOMAIN prev] :
                        /\ KeptFrom(at)
                        /\ \A k \in DOMAIN at : Where(in, prev[at[k]])
                        /\ \A i \in DOMAIN prev :
                             (/\ Where(in, prev[i])
                              /\ \A n \in DOMAIN st.conds : st.conds[n].op = "=" =>
                                   LET x == prev[i][Resolve(Cols(in), st.conds[n].ref)]
                                   IN  Equal(x, st.conds[n].lit) => x = st.conds[n].lit)
                             => i \in Range(at)
    BY DEF FilterSound
  <1> DEFINE K == {i \in DOMAIN prev : Passes(in, prev[i])}
  <1>1. K \in SUBSET DOMAIN prev /\ data = Picked(prev, K)
    BY DEF Filter
  <1>2. \A i \in DOMAIN prev : i \in K <=> Passes(in, prev[i])
    OBVIOUS
  <1> HIDE DEF K
  <1>3. PICK at : KeptBy(at, prev, K)
    BY <1>1, PickedInOrder
  <1>4. at \in [DOMAIN data -> DOMAIN prev] /\ KeptFrom(at)
    BY <1>1, <1>3 DEF KeptBy, KeptFrom
  <1>5. \A k \in DOMAIN at : at[k] \in K
    BY <1>3 DEF KeptBy
  <1>6. \A i \in K : i \in Range(at)
    BY <1>3 DEF KeptBy, Range
  <1>7. \A k \in DOMAIN at : Where(in, prev[at[k]])
    BY <1>1, <1>2, <1>5, PassesWhere
  <1>8. ASSUME NEW i \in DOMAIN prev,
               Where(in, prev[i]),
               \A n \in DOMAIN st.conds : st.conds[n].op = "=" =>
                 LET x == prev[i][Resolve(Cols(in), st.conds[n].ref)]
                 IN  Equal(x, st.conds[n].lit) => x = st.conds[n].lit
        PROVE  i \in Range(at)
    <2>1. Passes(in, prev[i])
      BY <1>8, PassesWhere
    <2> QED
      BY <1>2, <1>6, <2>1
  <1> QED
    BY <1>4, <1>7, <1>8

-----------------------------------------------------------------------------
(* The page and the groups. *)

\* Where a page starts and ends.
LEMMA PageNumbers ==
  ASSUME NEW q \in Inputs, NEW rows \in Seq(Row)
  PROVE  /\ Limit(q) \in Int /\ q.stmt.offset \in Nat /\ Len(rows) \in Nat
         /\ Offset(q, rows) \in Nat /\ Offset(q, rows) <= Len(rows)
         /\ Offset(q, rows) = q.stmt.offset \/ Offset(q, rows) = Len(rows)
         /\ Offset(q, rows) <= q.stmt.offset
         /\ End(q, rows) \in Int /\ End(q, rows) <= Len(rows)
         /\ End(q, rows) <= Offset(q, rows) + Limit(q)
         /\ End(q, rows) = Len(rows) \/ End(q, rows) = Offset(q, rows) + Limit(q)
  <1>1. /\ q.stmt.limit \in Nat /\ q.stmt.offset \in Nat /\ q.maxRows \in Int
    BY InputsAssumption
  <1>2. Len(rows) \in Nat
    OBVIOUS
  <1>3. Limit(q) \in Int
    BY <1>1 DEF Limit
  <1>4. Offset(q, rows) = IF q.stmt.offset > Len(rows) THEN Len(rows) ELSE q.stmt.offset
    BY DEF Offset, Lesser
  <1>5. Offset(q, rows) \in Nat
    BY <1>1, <1>2, <1>4
  <1>6. End(q, rows) = IF Offset(q, rows) + Limit(q) > Len(rows) THEN Len(rows)
                       ELSE Offset(q, rows) + Limit(q)
    BY DEF End, Lesser
  <1> QED
    BY <1>1, <1>2, <1>3, <1>4, <1>5, <1>6

\* The page of rows: it has the rows from OFFSET on.
LEMMA PageRows ==
  ASSUME NEW q \in Inputs, NEW rows \in Seq(Row), End(q, rows) >= Offset(q, rows),
         NEW page, page = SubSeq(rows, Offset(q, rows) + 1, End(q, rows))
  PROVE  /\ page \in Seq(Row)
         /\ Len(page) = End(q, rows) - Offset(q, rows)
         /\ \A i \in 1 .. Len(page) : page[i] = rows[Offset(q, rows) + i]
  <1> DEFINE off    == Offset(q, rows)
             end    == End(q, rows)
             from   == off + 1
             length == Len(rows)
             size   == Len(page)
  <1> HIDE DEF off, end, from, length, size
  <1>1. off \in Nat /\ end \in Int /\ length \in Nat /\ off <= end /\ end <= length
    BY PageNumbers DEF off, end, length
  <1>2. end \in Nat
    BY <1>1
  <1>3. from \in Int /\ from = off + 1 /\ \A i \in from .. end : rows[i] \in Row
    <2>1. \A i \in 1 .. length : rows[i] \in Row
      BY DEF length
    <2> QED
      BY <1>1, <1>2, <2>1 DEF from
  <1>4. /\ page \in Seq(Row)
        /\ size = IF from <= end THEN end - from + 1 ELSE 0
        /\ \A i \in 1 .. end - from + 1 : page[i] = rows[from + i - 1]
    <2>1. page = SubSeq(rows, from, end)
      BY DEF off, end, from
    <2>2. /\ SubSeq(rows, from, end) \in Seq(Row)
          /\ Len(SubSeq(rows, from, end)) = IF from <= end THEN end - from + 1 ELSE 0
          /\ \A i \in 1 .. end - from + 1 :
               SubSeq(rows, from, end)[i] = rows[from + i - 1]
      BY <1>1, <1>3, SubSeqProperties
    <2> QED
      BY <2>1, <2>2 DEF size
  <1>5. size = end - off
    BY <1>1, <1>2, <1>3, <1>4
  <1>6. ASSUME NEW i \in 1 .. size
        PROVE  page[i] = rows[off + i]
    <2>1. i \in 1 .. end - from + 1 /\ from + i - 1 = off + i
      BY <1>1, <1>3, <1>5
    <2> QED
      BY <1>4, <2>1
  <1> QED
    BY <1>4, <1>5, <1>6 DEF size, end, off

\* A page that is shorter than its limit reaches the end, and a page that has a
\* row starts where OFFSET says.
LEMMA PageReach ==
  ASSUME NEW off \in Nat, NEW end \in Nat, NEW size \in Nat, NEW limit \in Int,
         NEW offset \in Nat, NEW length \in Nat,
         off <= end, end <= length, off <= offset,
         off = offset \/ off = length, end = length \/ end = off + limit,
         size = end - off
  PROVE  /\ size < limit => offset + size >= length
         /\ \A n \in 1 .. size : off = offset
  OBVIOUS

\* The page of a result is what ShortPageIsLast says.
LEMMA PageShort ==
  ASSUME in \in Inputs, prev \in Seq(Row),
         End(in, prev) >= Offset(in, prev),
         data = SubSeq(prev, Offset(in, prev) + 1, End(in, prev))
  PROVE  ShortPageIsLast
  <1> DEFINE off    == Offset(in, prev)
             end    == End(in, prev)
             limit  == Limit(in)
             offset == st.offset
             length == Len(prev)
             size   == Len(data)
  <1> HIDE DEF off, end, limit, offset, length, size
  <1>1. /\ off \in Nat /\ off <= end /\ end <= length
        /\ limit \in Int /\ offset \in Nat /\ length \in Nat
        /\ off = offset \/ off = length
        /\ off <= offset
        /\ end = length \/ end = off + limit
        /\ end \in Int
    BY PageNumbers DEF off, end, limit, offset, length, st
  <1>2. /\ data \in Seq(Row) /\ size = end - off
        /\ \A i \in 1 .. size : data[i] = prev[off + i]
    BY PageRows DEF off, end, size
  <1>3. end \in Nat /\ size \in Nat
    BY <1>1, <1>2
  <1>4. /\ size < limit => offset + size >= length
        /\ \A n \in 1 .. size : off = offset
    BY <1>1, <1>2, <1>3, PageReach
  <1>5. DOMAIN data = 1 .. size
    BY <1>2 DEF size
  <1> QED
    BY <1>2, <1>4, <1>5 DEF ShortPageIsLast, size, limit, offset, length

\* The counts of the groups are what EachCountedOnce says.
LEMMA CountsOnce ==
  ASSUME in \in Inputs, prev \in Seq(Row), st.aggregate => data = Counts(in, prev)
  PROVE  EachCountedOnce
  <1> SUFFICES ASSUME st.aggregate
               PROVE  EachCountedOnce
    BY DEF EachCountedOnce
  <1> DEFINE KeyOf(i) == [n \in DOMAIN st.groupBy |->
                            Cell(prev[i], Position(in, st.groupBy[n]))]
             Size(k)  == Cardinality({i \in DOMAIN prev : KeyOf(i) = k})
  <1>1. \A i : KeyOf(i) = GroupKey(in, prev[i])
    BY DEF GroupKey, st
  <1> SUFFICES /\ \A p, q \in DOMAIN data : data[p][1] = data[q][1] => p = q
               /\ \A i \in DOMAIN prev : \E p \in DOMAIN data : data[p][1] = KeyOf(i)
               /\ \A p \in DOMAIN data :
                    data[p][2] = IF prev = <<>> THEN -1 ELSE Size(data[p][1])
    BY DEF EachCountedOnce
  <1>2. CASE prev = <<>>
    <2>1. data = << <<[n \in DOMAIN in.stmt.groupBy |-> Blank], -1>> >>
      BY <1>2 DEF Counts
    <2>2. DOMAIN data = {1} /\ data[1][2] = -1
      BY <2>1
    <2> QED
      BY <1>2, <2>2
  <1>3. CASE prev # <<>>
    <2> DEFINE firsts == Groups(in, prev)
               K == {i \in DOMAIN prev : \A j \in 1 .. i - 1 :
                                           GroupKey(in, prev[j]) # GroupKey(in, prev[i])}
    <2>1. K \in SUBSET DOMAIN prev /\ firsts = Picked(prev, K)
      BY DEF Groups
    <2>2. data = [g \in DOMAIN firsts |->
                    <<GroupKey(in, firsts[g]),
                      Cardinality({i \in DOMAIN prev :
                                     GroupKey(in, prev[i]) = GroupKey(in, firsts[g])})>>]
      BY <1>3 DEF Counts
    <2>3. /\ DOMAIN data = DOMAIN firsts
          /\ \A g \in DOMAIN data : /\ data[g][1] = GroupKey(in, firsts[g])
                                    /\ data[g][2] = Size(data[g][1])
      <3>1. DOMAIN data = DOMAIN firsts
        BY <2>2
      <3>2. ASSUME NEW g \in DOMAIN data
            PROVE  data[g][1] = GroupKey(in, firsts[g]) /\ data[g][2] = Size(data[g][1])
        <4>1. /\ data[g][1] = GroupKey(in, firsts[g])
              /\ data[g][2] = Cardinality({i \in DOMAIN prev :
                                   GroupKey(in, prev[i]) = GroupKey(in, firsts[g])})
          BY <2>2, <3>1
        <4>2. {i \in DOMAIN prev : GroupKey(in, prev[i]) = GroupKey(in, firsts[g])}
                = {i \in DOMAIN prev : KeyOf(i) = data[g][1]}
          BY <1>1, <4>1
        <4> QED
          BY <4>1, <4>2
      <3> QED
        BY <3>1, <3>2
    <2>4. \A i \in DOMAIN prev :
            i \in K <=> \A j \in 1 .. i - 1 : KeyOf(j) # KeyOf(i)
      BY <1>1
    <2> HIDE DEF K, firsts
    <2>5. PICK at : KeptBy(at, prev, K)
      BY <2>1, PickedInOrder
    <2>6. /\ at \in [DOMAIN firsts -> DOMAIN prev]
          /\ \A k, m \in DOMAIN at : k < m => at[k] < at[m]
          /\ firsts = [k \in DOMAIN at |-> prev[at[k]]]
          /\ {at[k] : k \in DOMAIN at} = K
      BY <2>1, <2>5 DEF KeptBy
    <2>7. \A g \in DOMAIN data : data[g][1] = KeyOf(at[g]) /\ at[g] \in K
      BY <1>1, <2>3, <2>6
    <2> HIDE DEF KeyOf
    <2>8. DOMAIN data \subseteq Nat /\ DOMAIN prev \subseteq Nat \ {0}
      <3>1. firsts \in Seq(Row)
        BY <2>1, PickedInOrder
      <3> QED
        BY <2>3, <3>1
    <2>9. ASSUME NEW p \in DOMAIN data, NEW q \in DOMAIN data, p < q
          PROVE  data[p][1] # data[q][1]
      <3>1. at[p] \in K /\ at[q] \in K /\ at[p] < at[q]
        BY <2>3, <2>6, <2>7, <2>9
      <3>2. at[p] \in 1 .. at[q] - 1
        BY <2>1, <2>8, <3>1
      <3> QED
        BY <2>1, <2>4, <2>7, <3>1, <3>2
    <2>10. ASSUME NEW i \in DOMAIN prev
           PROVE  \E p \in DOMAIN data : data[p][1] = KeyOf(i)
      <3> DEFINE Same == {j \in DOMAIN prev : KeyOf(j) = KeyOf(i)}
      <3>1. Same \in SUBSET Nat /\ i \in Same
        BY <2>8
      <3>2. PICK j \in Same : \A k \in Same : j <= k
        BY <3>1, LeastNat
      <3>3. ASSUME NEW k \in 1 .. j - 1, KeyOf(k) = KeyOf(j)
            PROVE  FALSE
        <4>1. k \in DOMAIN prev
          BY <3>2
        <4>2. k \in Same
          BY <3>2, <3>3, <4>1
        <4> QED
          BY <2>8, <3>2, <3>3, <4>2
      <3>4. j \in K
        BY <2>4, <3>2, <3>3
      <3>5. PICK p \in DOMAIN at : at[p] = j
        BY <2>6, <3>4
      <3> QED
        BY <2>3, <2>6, <2>7, <3>2, <3>5
    <2> QED
      BY <1>3, <2>3, <2>8, <2>9, <2>10
  <1> QED
    BY <1>2, <1>3

-----------------------------------------------------------------------------
(* The join. *)

\* A cell is a text, also one that a row lacks.
LEMMA CellText ==
  ASSUME NEW row \in Row, NEW i
  PROVE  Cell(row, i) \in Range(Texts)
  <1>1. Blank \in Range(Texts)
    <2>1. 1 \in DOMAIN Texts
      BY TextsAssumption
    <2> QED
      BY <2>1 DEF Blank, Range
  <1>2. CASE i \in DOMAIN row
    BY <1>2 DEF Cell, Row
  <1>3. CASE i \notin DOMAIN row
    BY <1>1, <1>3 DEF Cell
  <1> QED
    BY <1>2, <1>3

\* A row of a join has the cells of the left row, then those of the right one.
LEMMA JoinedCells ==
  ASSUME NEW L, L.header \in Seq(Range(L.header)), NEW lrow \in Row,
         NEW R, R.header \in Seq(Range(R.header)), NEW rrow \in Row
  PROVE  /\ Joined(L, R, lrow, rrow) \in Row
         /\ \A i \in 1 .. Len(L.header) : Joined(L, R, lrow, rrow)[i] = Cell(lrow, i)
         /\ \A j \in 1 .. Len(R.header) :
              Joined(L, R, lrow, rrow)[Len(L.header) + j] = Cell(rrow, j)
  <1> DEFINE n == Len(L.header)
             m == Len(R.header)
             s == Fitted(L, lrow)
             t == Fitted(R, rrow)
             Text == Range(Texts)
  <1>1. n \in Nat /\ m \in Nat
    OBVIOUS
  <1>2. s = [k \in 1 .. n |-> Cell(lrow, k)] /\ t = [k \in 1 .. m |-> Cell(rrow, k)]
    BY DEF Fitted
  <1> HIDE DEF n, m, s, t, Text
  <1>3. \A k : Cell(lrow, k) \in Text /\ Cell(rrow, k) \in Text
    BY CellText DEF Text
  <1>4. s \in [1 .. n -> Text] /\ t \in [1 .. m -> Text]
    BY <1>2, <1>3
  <1>5. s \in Seq(Text) /\ t \in Seq(Text) /\ Len(s) = n /\ Len(t) = m
    BY <1>1, <1>4
  <1>6. /\ s \o t \in Seq(Text)
        /\ \A i \in 1 .. n : (s \o t)[i] = s[i]
        /\ \A j \in 1 .. m : (s \o t)[n + j] = t[j]
    BY <1>1, <1>5
  <1>7. Joined(L, R, lrow, rrow) = s \o t
    BY DEF Joined, s, t
  <1> QED
    BY <1>2, <1>6, <1>7 DEF Row, n, m, Text

\* Two rows with one text in the columns of the ON match, and two rows that
\* match have cells there that the engine's comparison takes for equal.
LEMMA MatchesCells ==
  ASSUME NEW L, L.header \in Seq(Range(L.header)), NEW lrow \in Row,
         NEW R, R.header \in Seq(Range(R.header)), NEW rrow \in Row,
         OnSides(L, R) \/ OnSides(R, L)
  PROVE  /\ OnCell(L, lrow) = OnCell(R, rrow) => Matches(L, R, st.on, lrow, rrow)
         /\ Matches(L, R, st.on, lrow, rrow) => Equal(OnCell(L, lrow), OnCell(R, rrow))
  <1> DEFINE on == st.on
             x  == OnCell(L, lrow)
             y  == OnCell(R, rrow)
  <1>0. \A u, v : Equal(u, u) /\ (Equal(u, v) => Equal(v, u))
    BY DEF Equal
  <1>1. CASE OnSides(L, R)
    <2>1. /\ L.alias # R.alias /\ on.left.table = L.alias /\ on.right.table = R.alias
          /\ HasOne(R, on.right.col)
      BY <1>1 DEF OnSides
    <2>2. Find(R.header, on.right.col) # 0
      <3>1. Find(R.header, on.right.col) \in 1 .. Len(R.header)
        BY <2>1, FoundOnce
      <3> QED
        BY <3>1
    <2>3. Hashed(R, on)
      BY <2>1, <2>2 DEF Hashed
    <2>4. /\ x = Cell(lrow, Find(L.header, on.left.col))
          /\ y = Cell(rrow, Find(R.header, on.right.col))
      BY <2>1 DEF OnCell
    <2>5. Matches(L, R, on, lrow, rrow) <=> x = y
      BY <2>3, <2>4 DEF Matches
    <2> QED
      BY <1>0, <2>5
  <1>2. CASE OnSides(R, L)
    <2>1. /\ R.alias # "" /\ L.alias # "" /\ L.alias # R.alias
          /\ on.left.table = R.alias /\ on.right.table = L.alias
          /\ HasOne(R, on.left.col) /\ HasOne(L, on.right.col)
      BY <1>2 DEF OnSides
    <2> DEFINE lcol == on.right.col
               rcol == on.left.col
               cm   == ColMap(L, R)
               jcm  == JoinColMaps(L, R)
               n    == Len(L.header)
               m    == Len(R.header)
               row  == Joined(L, R, lrow, rrow)
    <2>2. ~Hashed(R, on)
      BY <2>1 DEF Hashed
    <2>3. /\ Find(L.header, lcol) \in 1 .. n /\ lcol \in Range(L.header)
          /\ FindLast(L.header, lcol) = Find(L.header, lcol)
      BY <2>1, FoundOnce
    <2>4. /\ Find(R.header, rcol) \in 1 .. m /\ rcol \in Range(R.header)
          /\ FindLast(R.header, rcol) = Find(R.header, rcol)
      BY <2>1, FoundOnce
    <2>5. /\ <<R.alias, rcol>> \in DOMAIN cm
          /\ cm[<<R.alias, rcol>>] = n + FindLast(R.header, rcol)
      BY <2>1, <2>4 DEF ColMap
    <2>6. /\ <<L.alias, lcol>> \in DOMAIN cm
          /\ cm[<<L.alias, lcol>>] = FindLast(L.header, lcol)
      BY <2>1, <2>3 DEF ColMap
    <2>7. /\ Resolve(jcm, on.left) = n + Find(R.header, rcol)
          /\ Resolve(jcm, on.right) = Find(L.header, lcol)
      <3> HIDE DEF cm
      <3>1. jcm = [q \in DOMAIN cm |->
                     IF R.alias = "" /\ q[1] = "" /\ q[2] \in Range(R.header)
                     THEN Len(L.header) + FindLast(R.header, q[2]) ELSE cm[q]]
        BY DEF JoinColMaps, cm
      <3>2. /\ <<R.alias, rcol>> \in DOMAIN jcm /\ <<L.alias, lcol>> \in DOMAIN jcm
            /\ jcm[<<R.alias, rcol>>] = n + FindLast(R.header, rcol)
            /\ jcm[<<L.alias, lcol>>] = FindLast(L.header, lcol)
        BY <2>1, <2>5, <2>6, <3>1
      <3> HIDE DEF jcm
      <3> QED
        BY <2>1, <2>3, <2>4, <3>2 DEF Resolve
    <2>8. /\ row[n + Find(R.header, rcol)] = Cell(rrow, Find(R.header, rcol))
          /\ row[Find(L.header, lcol)] = Cell(lrow, Find(L.header, lcol))
      <3>1. /\ \A i \in 1 .. n : row[i] = Cell(lrow, i)
            /\ \A j \in 1 .. m : row[n + j] = Cell(rrow, j)
        BY JoinedCells
      <3> HIDE DEF row, n, m
      <3> QED
        BY <2>3, <2>4, <3>1
    <2>9. /\ x = Cell(lrow, Find(L.header, lcol))
          /\ y = Cell(rrow, Find(R.header, rcol))
      BY <2>1 DEF OnCell
    <2>10. n \in Nat /\ n + Find(R.header, rcol) # 0 /\ Find(L.header, lcol) # 0
      BY <2>3, <2>4
    <2>11. Matches(L, R, on, lrow, rrow) <=> Equal(y, x)
      BY <2>2, <2>7, <2>8, <2>9, <2>10 DEF Matches
    <2> QED
      BY <1>0, <2>11
  <1> QED
    BY <1>1, <1>2

\* The kind of join that is run: RIGHT JOIN has swapped its sides.
JoinType == IF st.join = "RIGHT" THEN "LEFT" ELSE st.join

\* The tables of an input.
LEMMA Sides ==
  ASSUME in \in Inputs
  PROVE  /\ First.rows \in Seq(Row) /\ First.header \in Seq(Range(First.header))
         /\ Second.rows \in Seq(Row) /\ Second.header \in Seq(Range(Second.header))
         /\ st.join \in {"NONE", "INNER", "LEFT", "RIGHT"}
  BY InputsAssumption DEF First, Second, st

\* What a join gives a row for.
LEMMA PairsOf ==
  ASSUME NEW L, L.rows \in Seq(Row), NEW R, R.rows \in Seq(Row), NEW on, NEW type
  PROVE  /\ Len(L.rows) \in Nat /\ Len(R.rows) \in Nat
         /\ Pairs(L, R, on, type) \in SUBSET ((1 .. Len(L.rows)) \X (0 .. Len(R.rows)))
         /\ \A i \in DOMAIN L.rows, j \in DOMAIN R.rows :
              <<i, j>> \in Pairs(L, R, on, type) <=>
                Matches(L, R, on, L.rows[i], R.rows[j])
         /\ \A i \in DOMAIN L.rows :
              <<i, 0>> \in Pairs(L, R, on, type) <=>
                /\ type = "LEFT"
                /\ \A j \in DOMAIN R.rows : <<i, j>> \notin Pairs(L, R, on, type)
  <1> DEFINE a == Len(L.rows)
             b == Len(R.rows)
             S == Pairs(L, R, on, type)
             M(i, j) == Matches(L, R, on, L.rows[i], R.rows[j])
  <1>1. a \in Nat /\ b \in Nat /\ DOMAIN L.rows = 1 .. a /\ DOMAIN R.rows = 1 .. b
    OBVIOUS
  <1>2. \A i : MatchesOf(L, R, on, i) = {<<i, j>> : j \in {j \in 1 .. b : M(i, j)}}
    BY <1>1 DEF MatchesOf
  <1>3. S = (UNION {MatchesOf(L, R, on, i) : i \in 1 .. a})
            \cup {<<i, 0>> : i \in {i \in 1 .. a :
                                      type = "LEFT" /\ MatchesOf(L, R, on, i) = {}}}
    BY <1>1 DEF Pairs
  <1> HIDE DEF a, b, S, M
  <1>4. ASSUME NEW p
        PROVE  p \in S <=> \/ \E i \in 1 .. a : \E j \in 1 .. b : p = <<i, j>> /\ M(i, j)
                           \/ \E i \in 1 .. a : /\ p = <<i, 0>> /\ type = "LEFT"
                                                /\ MatchesOf(L, R, on, i) = {}
    <2> DEFINE U == UNION {MatchesOf(L, R, on, i) : i \in 1 .. a}
               V == {<<i, 0>> : i \in {i \in 1 .. a :
                                          type = "LEFT" /\ MatchesOf(L, R, on, i) = {}}}
    <2>1. S = U \cup V
      BY <1>3
    <2>2. p \in U <=> \E i \in 1 .. a : p \in MatchesOf(L, R, on, i)
      OBVIOUS
    <2>3. \A i : p \in MatchesOf(L, R, on, i) <=> \E j \in 1 .. b : p = <<i, j>> /\ M(i, j)
      BY <1>2
    <2>4. p \in V <=> \E i \in 1 .. a : /\ p = <<i, 0>> /\ type = "LEFT"
                                        /\ MatchesOf(L, R, on, i) = {}
      OBVIOUS
    <2> HIDE DEF U, V
    <2>5. p \in S <=> p \in U \/ p \in V
      BY <2>1
    <2> QED
      BY <2>2, <2>3, <2>4, <2>5
  <1>5. S \in SUBSET ((1 .. a) \X (0 .. b))
    <2>1. \A j \in 1 .. b : j \in 0 .. b
      BY <1>1
    <2>2. 0 \in 0 .. b
      BY <1>1
    <2> QED
      BY <1>4, <2>1, <2>2
  <1>6. ASSUME NEW i \in 1 .. a, NEW j \in 1 .. b
        PROVE  <<i, j>> \in S <=> M(i, j)
    <2>1. j # 0
      BY <1>1
    <2> QED
      BY <1>4, <2>1
  <1>7. ASSUME NEW i \in 1 .. a
        PROVE  <<i, 0>> \in S <=> type = "LEFT" /\ \A j \in 1 .. b : <<i, j>> \notin S
    <2>1. <<i, 0>> \in S <=> type = "LEFT" /\ MatchesOf(L, R, on, i) = {}
      <3>1. \A k \in 1 .. a : <<i, 0>> = <<k, 0>> <=> k = i
        OBVIOUS
      <3>2. \A k \in 1 .. a, j \in 1 .. b : <<i, 0>> # <<k, j>>
        BY <1>1
      <3> QED
        BY <1>4, <3>1, <3>2
    <2>2. MatchesOf(L, R, on, i) = {} <=> \A j \in 1 .. b : ~M(i, j)
      <3>1. \A p : p \in MatchesOf(L, R, on, i)
                     <=> \E j \in 1 .. b : p = <<i, j>> /\ M(i, j)
        BY <1>2
      <3> QED
        BY <3>1
    <2> QED
      BY <1>6, <2>1, <2>2
  <1> QED
    BY <1>1, <1>5, <1>6, <1>7 DEF a, b, S, M

\* A join of two tables gives rows of texts.
LEMMA JoinRows ==
  ASSUME NEW L, L.rows \in Seq(Row), L.header \in Seq(Range(L.header)),
         NEW R, R.rows \in Seq(Row), R.header \in Seq(Range(R.header)),
         NEW on, NEW type
  PROVE  HashJoin(L, R, on, type) \in Seq(Row)
  <1> DEFINE S == Pairs(L, R, on, type)
             N == Cardinality(S)
             pairs == PairList(S)
             Made(p) == Joined(L, R, L.rows[p[1]], IF p[2] = 0 THEN <<>> ELSE R.rows[p[2]])
  <1>1. /\ Len(L.rows) \in Nat /\ Len(R.rows) \in Nat
        /\ S \in SUBSET ((1 .. Len(L.rows)) \X (0 .. Len(R.rows)))
    BY PairsOf
  <1>2. N \in Nat /\ pairs \in [1 .. N -> S]
    <2> HIDE DEF S
    <2> QED
      BY <1>1, ListedOnce
  <1>3. HashJoin(L, R, on, type) = [k \in 1 .. N |-> Made(pairs[k])]
    BY <1>2 DEF HashJoin
  <1> HIDE DEF pairs, N, S
  <1>4. ASSUME NEW p \in S
        PROVE  Made(p) \in Row
    <2>1. p[1] \in 1 .. Len(L.rows) /\ p[2] \in 0 .. Len(R.rows)
      BY <1>1
    <2>2. L.rows[p[1]] \in Row
      BY <2>1
    <2> DEFINE rrow == IF p[2] = 0 THEN <<>> ELSE R.rows[p[2]]
    <2>3. rrow \in Row
      <3>1. CASE p[2] = 0
        BY <3>1 DEF Row
      <3>2. CASE p[2] # 0
        <4>1. p[2] \in 1 .. Len(R.rows)
          BY <1>1, <2>1, <3>2
        <4> QED
          BY <3>2, <4>1
      <3> QED
        BY <3>1, <3>2
    <2> HIDE DEF rrow
    <2>4. Joined(L, R, L.rows[p[1]], rrow) \in Row
      BY <2>2, <2>3, JoinedCells
    <2> QED
      BY <2>4 DEF rrow
  <1>5. \A k \in 1 .. N : Made(pairs[k]) \in Row
    BY <1>2, <1>4
  <1> HIDE DEF Made
  <1> QED
    BY <1>2, <1>3, <1>5

\* What a hash join gives is what JoinExact says.
LEMMA JoinGives ==
  ASSUME in \in Inputs,
         st.join # "NONE" => data = HashJoin(First, Second, st.on, JoinType)
  PROVE  JoinExact
  <1> DEFINE L  == First
             R  == Second
             on == st.on
             S  == Pairs(L, R, on, JoinType)
             N  == Cardinality(S)
             src == PairList(S)
  <1> SUFFICES ASSUME st.join # "NONE", OnSides(in.l, in.r) \/ OnSides(in.r, in.l)
               PROVE  \E at \in [DOMAIN data -> (DOMAIN L.rows) \X (0 .. Len(R.rows))] :
      /\ \A p, q \in DOMAIN at : at[p] = at[q] => p = q
      /\ \A p \in DOMAIN at :
           data[p] = Joined(L, R, L.rows[at[p][1]],
                            IF at[p][2] = 0 THEN <<>> ELSE R.rows[at[p][2]])
      /\ \A i \in DOMAIN L.rows, j \in DOMAIN R.rows :
           LET x == OnCell(L, L.rows[i])
               y == OnCell(R, R.rows[j])
           IN  (x = y => <<i, j>> \in Range(at)) /\ (<<i, j>> \in Range(at) => Equal(x, y))
      /\ \A i \in DOMAIN L.rows :
           <<i, 0>> \in Range(at) <=>
             /\ st.join # "INNER"
             /\ \A j \in DOMAIN R.rows : <<i, j>> \notin Range(at)
    BY DEF JoinExact
  <1>1. /\ L.rows \in Seq(Row) /\ L.header \in Seq(Range(L.header))
        /\ R.rows \in Seq(Row) /\ R.header \in Seq(Range(R.header))
        /\ st.join \in {"NONE", "INNER", "LEFT", "RIGHT"}
    BY Sides
  <1>2. OnSides(L, R) \/ OnSides(R, L)
    BY DEF First, Second
  <1>3. data = [k \in DOMAIN src |->
                  Joined(L, R, L.rows[src[k][1]],
                         IF src[k][2] = 0 THEN <<>> ELSE R.rows[src[k][2]])]
    BY DEF HashJoin
  <1>4. JoinType = "LEFT" <=> st.join # "INNER"
    BY <1>1 DEF JoinType
  <1> HIDE DEF L, R, on
  <1>5. /\ Len(L.rows) \in Nat /\ Len(R.rows) \in Nat
        /\ S \in SUBSET ((1 .. Len(L.rows)) \X (0 .. Len(R.rows)))
        /\ \A i \in DOMAIN L.rows, j \in DOMAIN R.rows :
             <<i, j>> \in S <=> Matches(L, R, on, L.rows[i], R.rows[j])
        /\ \A i \in DOMAIN L.rows :
             <<i, 0>> \in S <=>
               /\ JoinType = "LEFT"
               /\ \A j \in DOMAIN R.rows : <<i, j>> \notin S
    BY <1>1, PairsOf
  <1> HIDE DEF S
  <1>6. /\ N \in Nat /\ src \in [1 .. N -> S]
        /\ \A k, m \in 1 .. N : src[k] = src[m] => k = m
        /\ \A p \in S : \E k \in 1 .. N : src[k] = p
    <2> DEFINE a == Len(L.rows)
               b == Len(R.rows)
    <2>1. a \in Nat /\ b \in Nat /\ S \in SUBSET ((1 .. a) \X (0 .. b))
      BY <1>5
    <2> HIDE DEF a, b
    <2> QED
      BY <2>1, ListedOnce
  <1> HIDE DEF src, N
  <1>7. \A p : p \in Range(src) <=> p \in S
    BY <1>6 DEF Range
  <1>8. /\ DOMAIN data = 1 .. N /\ DOMAIN src = 1 .. N /\ DOMAIN L.rows = 1 .. Len(L.rows)
        /\ src \in [DOMAIN data -> (DOMAIN L.rows) \X (0 .. Len(R.rows))]
    <2>1. DOMAIN L.rows = 1 .. Len(L.rows)
      BY <1>1
    <2> QED
      BY <1>3, <1>5, <1>6, <2>1
  <1>9. \A p \in DOMAIN src :
          data[p] = Joined(L, R, L.rows[src[p][1]],
                           IF src[p][2] = 0 THEN <<>> ELSE R.rows[src[p][2]])
    BY <1>3
  <1>10. ASSUME NEW i \in DOMAIN L.rows, NEW j \in DOMAIN R.rows
         PROVE  LET x == OnCell(L, L.rows[i])
                    y == OnCell(R, R.rows[j])
                IN  /\ x = y => <<i, j>> \in Range(src)
                    /\ <<i, j>> \in Range(src) => Equal(x, y)
    <2>1. L.rows[i] \in Row /\ R.rows[j] \in Row
      BY <1>1
    <2>2. /\ OnCell(L, L.rows[i]) = OnCell(R, R.rows[j])
               => Matches(L, R, on, L.rows[i], R.rows[j])
          /\ Matches(L, R, on, L.rows[i], R.rows[j])
               => Equal(OnCell(L, L.rows[i]), OnCell(R, R.rows[j]))
      BY <1>1, <1>2, <2>1, MatchesCells DEF on
    <2>3. <<i, j>> \in Range(src) <=> Matches(L, R, on, L.rows[i], R.rows[j])
      BY <1>5, <1>7
    <2> QED
      BY <2>2, <2>3
  <1>11. \A i \in DOMAIN L.rows :
           <<i, 0>> \in Range(src) <=>
             /\ st.join # "INNER"
             /\ \A j \in DOMAIN R.rows : <<i, j>> \notin Range(src)
    BY <1>4, <1>5, <1>7
  <1> src \in [DOMAIN data -> (DOMAIN L.rows) \X (0 .. Len(R.rows))]
    BY <1>8
  <1> WITNESS src \in [DOMAIN data -> (DOMAIN L.rows) \X (0 .. Len(R.rows))]
  <1> QED
    BY <1>6, <1>8, <1>9, <1>10, <1>11

-----------------------------------------------------------------------------
(* ORDER BY. *)

\* P holds the pairs of positions of which the first must come first: no pair
\* both ways, and two pairs that it leaves open leave open the third.
WeakOrder(P, N) ==
  /\ \A i, j \in 1 .. N : <<i, j>> \in P => <<j, i>> \notin P
  /\ \A i, j, k \in 1 .. N : <<i, j>> \notin P /\ <<j, k>> \notin P => <<i, k>> \notin P

\* s has the first n positions, each once.
Permuted(s, n) ==
  /\ s \in [1 .. n -> 1 .. n]
  /\ \A p, r \in 1 .. n : s[p] = s[r] => p = r

\* s has them in this order, and two of which neither must come first as they
\* were.
Arranged(P, s, n) ==
  /\ Permuted(s, n)
  /\ \A p, r \in 1 .. n : p < r => /\ <<s[r], s[p]>> \notin P
                                   /\ <<s[p], s[r]>> \in P \/ s[p] < s[r]

\* s with i behind its b-th element.
Spliced(s, i, b) ==
  [k \in 1 .. i |-> IF k <= b THEN s[k] ELSE IF k = b + 1 THEN i ELSE s[k - 1]]

\* What stands where in a splice.
LEMMA SplicedAt ==
  ASSUME NEW i \in Nat \ {0}, NEW s, NEW b \in 0 .. i - 1
  PROVE  \A k \in 1 .. i :
           /\ k <= b \/ k = b + 1 \/ k > b + 1
           /\ k <= b => k \in 1 .. i - 1 /\ Spliced(s, i, b)[k] = s[k]
           /\ k = b + 1 => Spliced(s, i, b)[k] = i
           /\ k > b + 1 => k - 1 \in 1 .. i - 1 /\ Spliced(s, i, b)[k] = s[k - 1]
  <1>1. i \in Nat /\ b \in Nat /\ b <= i - 1
    OBVIOUS
  <1>2. \A k \in 1 .. i :
          Spliced(s, i, b)[k] = IF k <= b THEN s[k] ELSE IF k = b + 1 THEN i ELSE s[k - 1]
    BY DEF Spliced
  <1> QED
    BY <1>1, <1>2

\* A position that is put between others loses none.
LEMMA SplicePermutes ==
  ASSUME NEW i \in Nat \ {0}, NEW s, Permuted(s, i - 1), NEW b \in 0 .. i - 1
  PROVE  Permuted(Spliced(s, i, b), i)
  <1> DEFINE t == Spliced(s, i, b)
  <1>1. i \in Nat /\ b \in Nat /\ i >= 1 /\ b <= i - 1
    OBVIOUS
  <1>2. \A k \in 1 .. i - 1 : s[k] \in Nat /\ s[k] >= 1 /\ s[k] < i
    BY <1>1 DEF Permuted
  <1>3. \A u, v \in 1 .. i - 1 : s[u] = s[v] => u = v
    BY DEF Permuted
  <1>4. \A k \in 1 .. i : /\ k <= b \/ k = b + 1 \/ k > b + 1
                          /\ k <= b => k \in 1 .. i - 1 /\ t[k] = s[k]
                          /\ k = b + 1 => t[k] = i
                          /\ k > b + 1 => k - 1 \in 1 .. i - 1 /\ t[k] = s[k - 1]
    BY SplicedAt
  <1>5. t = [k \in 1 .. i |-> t[k]]
    BY DEF Spliced
  <1> HIDE DEF t
  <1>6. \A k \in 1 .. i : t[k] \in 1 .. i
    <2>1. \A m \in 1 .. i - 1 : s[m] \in 1 .. i
      BY <1>1, <1>2
    <2>2. i \in 1 .. i
      BY <1>1
    <2> QED
      BY <1>4, <2>1, <2>2
  <1>7. ASSUME NEW p \in 1 .. i, NEW r \in 1 .. i, p < r
        PROVE  t[p] # t[r]
    <2>1. CASE r <= b
      <3>1. /\ p \in 1 .. i - 1 /\ t[p] = s[p]
            /\ r \in 1 .. i - 1 /\ t[r] = s[r] /\ p # r
        BY <1>1, <1>4, <1>7, <2>1
      <3> QED
        BY <1>3, <3>1
    <2>2. CASE r = b + 1
      <3>1. p \in 1 .. i - 1 /\ t[p] = s[p] /\ t[r] = i
        BY <1>1, <1>4, <1>7, <2>2
      <3> QED
        BY <1>2, <3>1
    <2>3. CASE r > b + 1 /\ p <= b
      <3>1. /\ p \in 1 .. i - 1 /\ t[p] = s[p]
            /\ r - 1 \in 1 .. i - 1 /\ t[r] = s[r - 1] /\ p # r - 1
        BY <1>1, <1>4, <1>7, <2>3
      <3> QED
        BY <1>3, <3>1
    <2>4. CASE r > b + 1 /\ p = b + 1
      <3>1. r - 1 \in 1 .. i - 1 /\ t[r] = s[r - 1] /\ t[p] = i
        BY <1>1, <1>4, <1>7, <2>4
      <3> QED
        BY <1>2, <3>1
    <2>5. CASE r > b + 1 /\ p > b + 1
      <3>1. /\ p - 1 \in 1 .. i - 1 /\ t[p] = s[p - 1]
            /\ r - 1 \in 1 .. i - 1 /\ t[r] = s[r - 1] /\ p - 1 # r - 1
        BY <1>1, <1>4, <1>7, <2>5
      <3> QED
        BY <1>3, <3>1
    <2> QED
      BY <1>4, <2>1, <2>2, <2>3, <2>4, <2>5
  <1>8. ASSUME NEW p \in 1 .. i, NEW r \in 1 .. i, t[p] = t[r]
        PROVE  p = r
    <2>1. p \in Nat /\ r \in Nat
      BY <1>1
    <2>2. ~(p < r) /\ ~(r < p)
      BY <1>7, <1>8
    <2> QED
      BY <2>1, <2>2
  <1>9. t \in [1 .. i -> 1 .. i]
    BY <1>5, <1>6
  <1> QED
    BY <1>8, <1>9 DEF Permuted, t

\* A position that is put behind the last one that it does not come before is
\* in its place.
LEMMA InsertArranges ==
  ASSUME NEW P, NEW N \in Nat, WeakOrder(P, N),
         NEW i \in 1 .. N, NEW s, Arranged(P, s, i - 1),
         NEW b \in 0 .. i - 1,
         \A k \in 1 .. i - 1 : k > b => <<i, s[k]>> \in P,
         b # 0 => <<i, s[b]>> \notin P
  PROVE  Arranged(P, Spliced(s, i, b), i)
  <1> DEFINE t == Spliced(s, i, b)
             Good(j, k) == <<k, j>> \notin P /\ (<<j, k>> \in P \/ j < k)
  <1>1. i \in Nat /\ i # 0 /\ b \in Nat /\ i >= 1 /\ i <= N /\ b <= i - 1
    OBVIOUS
  <1>2. \A k \in 1 .. i - 1 : s[k] \in Nat /\ s[k] < i /\ s[k] \in 1 .. N
    <2>1. \A k \in 1 .. i - 1 : s[k] \in 1 .. i - 1
      BY DEF Arranged, Permuted
    <2> QED
      BY <1>1, <2>1
  <1>3. Permuted(s, i - 1) /\ \A u, v \in 1 .. i - 1 : u < v => Good(s[u], s[v])
    BY DEF Arranged
  <1>4. \A k \in 1 .. i : /\ k <= b \/ k = b + 1 \/ k > b + 1
                          /\ k <= b => k \in 1 .. i - 1 /\ t[k] = s[k]
                          /\ k = b + 1 => t[k] = i
                          /\ k > b + 1 => k - 1 \in 1 .. i - 1 /\ t[k] = s[k - 1]
    BY <1>1, SplicedAt
  <1>5. Permuted(t, i)
    BY <1>1, <1>3, SplicePermutes
  <1> HIDE DEF t, Good
  <1>6. \A m \in 1 .. i - 1 : m <= b => Good(s[m], i)
    <2> TAKE m \in 1 .. i - 1
    <2> HAVE m <= b
    <2>1. b \in 1 .. i - 1 /\ s[m] < i
      BY <1>1, <1>2
    <2>2. CASE m = b
      BY <1>1, <2>1, <2>2 DEF Good
    <2>3. CASE m # b
      <3>1. <<s[b], s[m]>> \notin P
        <4>1. m < b
          BY <1>1, <2>3
        <4> QED
          BY <1>3, <2>1, <4>1 DEF Good
      <3>2. <<i, s[b]>> \notin P
        BY <1>1, <2>1
      <3>3. s[b] \in 1 .. N /\ s[m] \in 1 .. N /\ i \in 1 .. N
        BY <1>2, <2>1
      <3>4. <<i, s[m]>> \notin P
        BY <3>1, <3>2, <3>3 DEF WeakOrder
      <3> QED
        BY <2>1, <3>4 DEF Good
    <2> QED
      BY <2>2, <2>3
  <1>7. \A m \in 1 .. i - 1 : m > b => Good(i, s[m])
    <2> TAKE m \in 1 .. i - 1
    <2> HAVE m > b
    <2>1. <<i, s[m]>> \in P
      OBVIOUS
    <2>2. s[m] \in 1 .. N /\ i \in 1 .. N
      BY <1>2
    <2>3. <<s[m], i>> \notin P
      BY <2>1, <2>2 DEF WeakOrder
    <2> QED
      BY <2>1, <2>3 DEF Good
  <1>8. ASSUME NEW p \in 1 .. i, NEW r \in 1 .. i, p < r
        PROVE  Good(t[p], t[r])
    <2>1. CASE r <= b
      <3>1. /\ p \in 1 .. i - 1 /\ t[p] = s[p]
            /\ r \in 1 .. i - 1 /\ t[r] = s[r]
        BY <1>1, <1>4, <1>8, <2>1
      <3> QED
        BY <1>3, <1>8, <3>1
    <2>2. CASE r = b + 1
      <3>1. p \in 1 .. i - 1 /\ t[p] = s[p] /\ p <= b /\ t[r] = i
        BY <1>1, <1>4, <1>8, <2>2
      <3> QED
        BY <1>6, <3>1
    <2>3. CASE r > b + 1 /\ p <= b
      <3>1. /\ p \in 1 .. i - 1 /\ t[p] = s[p]
            /\ r - 1 \in 1 .. i - 1 /\ t[r] = s[r - 1] /\ p < r - 1
        BY <1>1, <1>4, <1>8, <2>3
      <3> QED
        BY <1>3, <3>1
    <2>4. CASE r > b + 1 /\ p = b + 1
      <3>1. r - 1 \in 1 .. i - 1 /\ t[r] = s[r - 1] /\ r - 1 > b /\ t[p] = i
        BY <1>1, <1>4, <1>8, <2>4
      <3> QED
        BY <1>7, <3>1
    <2>5. CASE r > b + 1 /\ p > b + 1
      <3>1. /\ p - 1 \in 1 .. i - 1 /\ t[p] = s[p - 1]
            /\ r - 1 \in 1 .. i - 1 /\ t[r] = s[r - 1] /\ p - 1 < r - 1
        BY <1>1, <1>4, <1>8, <2>5
      <3> QED
        BY <1>3, <3>1
    <2> QED
      BY <1>4, <2>1, <2>2, <2>3, <2>4, <2>5
  <1> QED
    BY <1>5, <1>8 DEF Arranged, Good, t

\* The pairs of rows of which ORDER BY puts the first ahead.
Ahead(q, rows) ==
  {p \in (DOMAIN rows) \X (DOMAIN rows) : Precedes(q, rows[p[1]], rows[p[2]])}

\* Texts that are all numbers, or none of them, are compared by a value.
LEMMA BelowByValue ==
  ASSUME NEW S \in SUBSET Range(Texts),
         (\A x \in S : Number[x] = NaN) \/ (\A x \in S : Number[x] # NaN)
  PROVE  \E val \in [S -> Int] : \A x, y \in S : Below(x, y) <=> val[x] < val[y]
  <1>1. CASE \A x \in S : Number[x] = NaN
    <2> DEFINE v == [x \in S |-> Rank(x)]
    <2>1. \A x \in S : Rank(x) \in Int
      <3> TAKE x \in S
      <3>1. Find(Texts, x) \in 0 .. Len(Texts) /\ Len(Texts) \in Nat
        BY TextsAssumption, FindPosition
      <3> QED
        BY <3>1 DEF Rank
    <2>2. \A x, y \in S : Below(x, y) <=> v[x] < v[y]
      BY <1>1 DEF Below
    <2>3. v \in [S -> Int]
      BY <2>1
    <2> HIDE DEF v
    <2> QED
      BY <2>2, <2>3
  <1>2. CASE \A x \in S : Number[x] # NaN
    <2> DEFINE v == [x \in S |-> Number[x]]
    <2>1. \A x \in S : Number[x] \in Int
      BY <1>2, TextsAssumption
    <2>2. \A x, y \in S : Below(x, y) <=> v[x] < v[y]
      BY <1>2 DEF Below
    <2>3. v \in [S -> Int]
      BY <2>1
    <2> HIDE DEF v
    <2> QED
      BY <2>2, <2>3
  <1> QED
    BY <1>1, <1>2

\* The comparison of two cells that have a value, of which val is the map.
Before(val, nf, desc, x, y) ==
  IF x = Blank \/ y = Blank
  THEN x # y /\ (x = Blank <=> nf)
  ELSE IF desc THEN val[y] < val[x] ELSE val[x] < val[y]

BeforeOrdersAll(val, nf, desc, S) ==
  \A x, y, z \in S :
    /\ Before(val, nf, desc, x, y) => ~Before(val, nf, desc, y, x)
    /\ ~Before(val, nf, desc, x, y) /\ ~Before(val, nf, desc, y, z)
         => ~Before(val, nf, desc, x, z)

\* The comparison of ORDER BY is a weak order of any set of cells that are compared
\* by one value each, wherever the empty cells go.
LEMMA BeforeOrders ==
  ASSUME NEW S, NEW val \in [S \ {Blank} -> Int],
         NEW nf \in BOOLEAN, NEW desc \in BOOLEAN
  PROVE  BeforeOrdersAll(val, nf, desc, S)
  <1> SUFFICES ASSUME NEW x \in S, NEW y \in S, NEW z \in S
               PROVE  /\ Before(val, nf, desc, x, y) => ~Before(val, nf, desc, y, x)
                      /\ ~Before(val, nf, desc, x, y) /\ ~Before(val, nf, desc, y, z)
                           => ~Before(val, nf, desc, x, z)
    BY DEF BeforeOrdersAll
  <1> DEFINE T == S \ {Blank}
  <1>1. \A u \in S : u = Blank \/ (u \in T /\ val[u] \in Int)
    OBVIOUS
  <1> HIDE DEF T
  <1>2. CASE x = Blank \/ y = Blank \/ z = Blank
    BY <1>1, <1>2 DEF Before
  <1>3. CASE x # Blank /\ y # Blank /\ z # Blank
    <2>1. val[x] \in Int /\ val[y] \in Int /\ val[z] \in Int
      BY <1>1, <1>3
    <2>2. CASE desc
      BY <1>3, <2>1, <2>2 DEF Before
    <2>3. CASE ~desc
      BY <1>3, <2>1, <2>3 DEF Before
    <2> QED
      BY <2>2, <2>3
  <1> QED
    BY <1>2, <1>3

\* Over a column that has only numbers, or only texts that are none, ORDER BY
\* leaves no room for doubt.
LEMMA UniformOrders ==
  ASSUME prev \in Seq(Row), Uniform(prev)
  PROVE  /\ WeakOrder(Ahead(in, prev), Len(prev))
         /\ \A i \in DOMAIN prev : OrderCell(prev[i]) \in Range(Texts)
         /\ \A i, j \in DOMAIN prev :
              <<i, j>> \in Ahead(in, prev) <=>
                LET x == OrderCell(prev[i])
                    y == OrderCell(prev[j])
                IN  IF x = Blank \/ y = Blank
                    THEN x # y /\ (x = Blank <=> NullsFirst(in))
                    ELSE IF st.order.dir = "DESC" THEN Below(y, x) ELSE Below(x, y)
  <1> DEFINE c == Position(in, in.stmt.order.ref)
             cell(i) == OrderCell(prev[i])
             C == {OrderCell(row) : row \in Range(prev)}
             N == Len(prev)
             nf == NullsFirst(in)
             desc == in.stmt.order.dir = "DESC"
  <1>1. DOMAIN prev = 1 .. N
    OBVIOUS
  <1>2. ASSUME NEW i \in 1 .. N
        PROVE  /\ prev[i] \in Row /\ c \in DOMAIN prev[i]
               /\ cell(i) = prev[i][c] /\ cell(i) \in C
    <2>1. prev[i] \in Row /\ prev[i] \in Range(prev)
      BY DEF Range
    <2>2. c \in DOMAIN prev[i]
      BY <2>1 DEF Uniform, st
    <2>3. cell(i) = prev[i][c]
      BY DEF OrderCell, st
    <2> QED
      BY <2>1, <2>2, <2>3
  <1>3. C \in SUBSET Range(Texts)
    <2>1. \A row \in Range(prev) : \E i \in 1 .. N : row = prev[i]
      BY <1>1 DEF Range
    <2>2. \A i \in 1 .. N : cell(i) \in Range(Texts)
      BY <1>2 DEF Row
    <2> QED
      BY <2>1, <2>2
  <1>4. ASSUME NEW i \in 1 .. N, NEW j \in 1 .. N
        PROVE  <<i, j>> \in Ahead(in, prev) <=>
                 IF cell(i) = Blank \/ cell(j) = Blank
                 THEN cell(i) # cell(j) /\ (cell(i) = Blank <=> nf)
                 ELSE IF desc THEN Below(cell(j), cell(i)) ELSE Below(cell(i), cell(j))
    <2>1. c \in DOMAIN prev[i] \cap DOMAIN prev[j]
      BY <1>2
    <2>2. <<i, j>> \in Ahead(in, prev) <=> Precedes(in, prev[i], prev[j])
      BY <1>1 DEF Ahead
    <2>3. prev[i][c] = cell(i) /\ prev[j][c] = cell(j)
      BY <1>2
    <2> QED
      BY <2>1, <2>2, <2>3 DEF Precedes
  <1>5. \E val \in [C \ {Blank} -> Int] :
          \A x, y \in C \ {Blank} : Below(x, y) <=> val[x] < val[y]
    <2>1. C \ {Blank} \in SUBSET Range(Texts)
      BY <1>3
    <2>2. \/ \A x \in C \ {Blank} : Number[x] = NaN
          \/ \A x \in C \ {Blank} : Number[x] # NaN
      BY DEF Uniform
    <2> HIDE DEF C
    <2> QED
      BY <2>1, <2>2, BelowByValue
  <1>6. \A i \in 1 .. N : cell(i) \in C
    BY <1>2
  <1>7. nf \in BOOLEAN /\ desc \in BOOLEAN
    BY DEF NullsFirst
  <1> HIDE DEF cell, C, nf, desc
  <1>8. PICK val \in [C \ {Blank} -> Int] :
          \A x, y \in C \ {Blank} : Below(x, y) <=> val[x] < val[y]
    BY <1>5
  <1>9. ASSUME NEW i \in 1 .. N, NEW j \in 1 .. N
        PROVE  <<i, j>> \in Ahead(in, prev) <=> Before(val, nf, desc, cell(i), cell(j))
    <2>1. cell(i) \in C /\ cell(j) \in C
      BY <1>6
    <2>2. CASE cell(i) = Blank \/ cell(j) = Blank
      BY <1>4, <2>2 DEF Before
    <2>3. CASE ~(cell(i) = Blank \/ cell(j) = Blank)
      <3>1. /\ Below(cell(j), cell(i)) <=> val[cell(j)] < val[cell(i)]
            /\ Below(cell(i), cell(j)) <=> val[cell(i)] < val[cell(j)]
        BY <1>8, <2>1, <2>3
      <3> QED
        BY <1>4, <2>3, <3>1 DEF Before
    <2> QED
      BY <2>2, <2>3
  <1>10. BeforeOrdersAll(val, nf, desc, C)
    BY <1>7, <1>8, BeforeOrders
  <1>11. WeakOrder(Ahead(in, prev), N)
    <2>1. ASSUME NEW i \in 1 .. N, NEW j \in 1 .. N, <<i, j>> \in Ahead(in, prev)
          PROVE  <<j, i>> \notin Ahead(in, prev)
      BY <1>6, <1>9, <1>10, <2>1 DEF BeforeOrdersAll
    <2>2. ASSUME NEW i \in 1 .. N, NEW j \in 1 .. N, NEW k \in 1 .. N,
                 <<i, j>> \notin Ahead(in, prev), <<j, k>> \notin Ahead(in, prev)
          PROVE  <<i, k>> \notin Ahead(in, prev)
      BY <1>6, <1>9, <1>10, <2>2 DEF BeforeOrdersAll
    <2> QED
      BY <2>1, <2>2 DEF WeakOrder
  <1> QED
    BY <1>1, <1>3, <1>4, <1>6, <1>11 DEF cell, nf, desc, st

\* What Sorted builds up: the positions of the first k rows in order.
Builds(q, rows, f, n) ==
  f = [k \in 0 .. n |-> IF k = 0 THEN <<>> ELSE Insert(q, rows, f[k - 1], k)]

\* The definition of Sorted has a solution.
LEMMA BuildsExists ==
  ASSUME NEW q, NEW rows, NEW n \in Nat
  PROVE  \E f : Builds(q, rows, f, n)
  <1> DEFINE T == {m \in Nat : \E f : Builds(q, rows, f, m)}
  <1>1. 0 \in T
    <2> DEFINE g == [k \in 0 .. 0 |-> IF k = 0 THEN <<>> ELSE Insert(q, rows, <<>>, k)]
    <2>1. g = [k \in 0 .. 0 |-> IF k = 0 THEN <<>> ELSE Insert(q, rows, g[k - 1], k)]
      <3>1. \A k \in 0 .. 0 : k = 0
        OBVIOUS
      <3> QED
        BY <3>1
    <2> HIDE DEF g
    <2>2. Builds(q, rows, g, 0)
      BY <2>1 DEF Builds
    <2> QED
      BY <2>2
  <1>2. ASSUME NEW m \in Nat, m \in T
        PROVE  m + 1 \in T
    <2>1. PICK f : Builds(q, rows, f, m)
      BY <1>2
    <2> DEFINE last == Insert(q, rows, f[m], m + 1)
               g == [k \in 0 .. m + 1 |-> IF k = m + 1 THEN last ELSE f[k]]
    <2>2. g = [k \in 0 .. m + 1 |-> IF k = m + 1 THEN last ELSE f[k]]
      OBVIOUS
    <2>3. f = [k \in 0 .. m |-> IF k = 0 THEN <<>> ELSE Insert(q, rows, f[k - 1], k)]
      BY <2>1 DEF Builds
    <2> HIDE DEF g
    <2>4. ASSUME NEW k \in 0 .. m + 1
          PROVE  g[k] = IF k = 0 THEN <<>> ELSE Insert(q, rows, g[k - 1], k)
      <3>1. CASE k = m + 1
        <4>1. g[k] = last
          BY <2>2, <3>1
        <4>2. k # 0 /\ k - 1 = m /\ m \in 0 .. m + 1 /\ m # m + 1
          BY <3>1
        <4>3. g[k - 1] = f[m]
          BY <2>2, <4>2
        <4> QED
          BY <3>1, <4>1, <4>2, <4>3
      <3>2. CASE k # m + 1
        <4>1. k \in 0 .. m
          BY <3>2
        <4>2. g[k] = f[k]
          BY <2>2, <3>2
        <4>3. f[k] = IF k = 0 THEN <<>> ELSE Insert(q, rows, f[k - 1], k)
          BY <2>3, <4>1
        <4>4. k # 0 => k - 1 \in 0 .. m + 1 /\ k - 1 # m + 1
          BY <4>1
        <4>5. k # 0 => g[k - 1] = f[k - 1]
          BY <2>2, <4>4
        <4> QED
          BY <4>2, <4>3, <4>5
      <3> QED
        BY <3>1, <3>2
    <2>5. g = [k \in 0 .. m + 1 |-> g[k]]
      BY <2>2
    <2>6. Builds(q, rows, g, m + 1)
      BY <2>4, <2>5 DEF Builds
    <2> QED
      BY <2>6
  <1> HIDE DEF T
  <1>3. Nat \subseteq T
    BY <1>1, <1>2, NatInd
  <1> QED
    BY <1>3 DEF T

\* The positions after n steps of the sort.
Placed(q, rows, n) == (CHOOSE f : Builds(q, rows, f, Len(rows)))[n]

\* A row goes in behind the last one that it does not precede.
LEMMA InsertSplices ==
  ASSUME NEW q, NEW rows \in Seq(Row), NEW i \in DOMAIN rows,
         NEW s \in [1 .. i - 1 -> 1 .. i - 1]
  PROVE  \E b \in 0 .. i - 1 :
           /\ Insert(q, rows, s, i) = Spliced(s, i, b)
           /\ \A k \in 1 .. i - 1 : k > b => <<i, s[k]>> \in Ahead(q, rows)
           /\ b # 0 => <<i, s[b]>> \notin Ahead(q, rows)
  <1> DEFINE S == {k \in DOMAIN s : ~Precedes(q, rows[i], rows[s[k]])}
             b == Greatest(S)
  <1>1. i \in Nat /\ i >= 1 /\ DOMAIN rows = 1 .. Len(rows) /\ Len(rows) \in Nat
    OBVIOUS
  <1>2. DOMAIN s = 1 .. i - 1 /\ i - 1 \in Nat /\ Len(s) = i - 1
    BY <1>1
  <1>3. \A k \in 1 .. i - 1 : k \in S <=> <<i, s[k]>> \notin Ahead(q, rows)
    <2> TAKE k \in 1 .. i - 1
    <2>1. s[k] \in DOMAIN rows
      BY <1>1
    <2> QED
      BY <1>2, <2>1 DEF Ahead
  <1>4. S \in SUBSET (1 .. i - 1)
    BY <1>2
  <1> HIDE DEF S
  <1>5. /\ b \in 0 .. i - 1
        /\ S = {} => b = 0
        /\ S # {} => b \in S /\ \A k \in S : k <= b
    BY <1>2, <1>4, GreatestPosition
  <1>6. Insert(q, rows, s, i) = Spliced(s, i, b)
    <2>1. Insert(q, rows, s, i)
            = [k \in 1 .. Len(s) + 1 |-> IF k <= b THEN s[k]
                                         ELSE IF k = b + 1 THEN i ELSE s[k - 1]]
      BY DEF Insert, S
    <2>2. Len(s) + 1 = i
      BY <1>1, <1>2
    <2> QED
      BY <2>1, <2>2 DEF Spliced
  <1> HIDE DEF b
  <1>7. \A k \in 1 .. i - 1 : k > b => <<i, s[k]>> \in Ahead(q, rows)
    <2> TAKE k \in 1 .. i - 1
    <2> HAVE k > b
    <2>1. k \notin S
      BY <1>1, <1>5
    <2> QED
      BY <1>3, <2>1
  <1>8. b # 0 => b \in 1 .. i - 1 /\ b \in S
    BY <1>1, <1>5
  <1> QED
    BY <1>3, <1>5, <1>6, <1>7, <1>8

\* Each step inserts the next row.
LEMMA PlacedByInsert ==
  ASSUME NEW q, NEW rows \in Seq(Row)
  PROVE  \A k \in 0 .. Len(rows) :
           Placed(q, rows, k) = IF k = 0 THEN <<>>
                                ELSE Insert(q, rows, Placed(q, rows, k - 1), k)
  <1> DEFINE f == CHOOSE f : Builds(q, rows, f, Len(rows))
  <1>1. Builds(q, rows, f, Len(rows))
    BY BuildsExists
  <1>2. \A k : Placed(q, rows, k) = f[k]
    BY DEF Placed
  <1> HIDE DEF f
  <1>3. f = [k \in 0 .. Len(rows) |-> IF k = 0 THEN <<>> ELSE Insert(q, rows, f[k - 1], k)]
    BY <1>1 DEF Builds
  <1>4. \A k \in 0 .. Len(rows) :
          f[k] = IF k = 0 THEN <<>> ELSE Insert(q, rows, f[k - 1], k)
    BY <1>3
  <1> QED
    BY <1>2, <1>4

\* The sort loses no row and repeats none, whatever the comparison says.
LEMMA SortPermutes ==
  ASSUME NEW q, NEW rows \in Seq(Row)
  PROVE  Permuted(Placed(q, rows, Len(rows)), Len(rows))
  <1> DEFINE N == Len(rows)
             T == {n \in Nat : n <= N => Permuted(Placed(q, rows, n), n)}
  <1>1. N \in Nat /\ DOMAIN rows = 1 .. N
    OBVIOUS
  <1>2. \A k \in 0 .. N :
          Placed(q, rows, k) = IF k = 0 THEN <<>>
                               ELSE Insert(q, rows, Placed(q, rows, k - 1), k)
    BY PlacedByInsert
  <1>3. 0 \in T
    <2>1. Placed(q, rows, 0) = <<>>
      BY <1>1, <1>2
    <2>2. Permuted(<<>>, 0)
      BY DEF Permuted
    <2> QED
      BY <2>1, <2>2
  <1>4. ASSUME NEW n \in Nat, n \in T
        PROVE  n + 1 \in T
    <2> SUFFICES ASSUME n + 1 <= N
                 PROVE  Permuted(Placed(q, rows, n + 1), n + 1)
      OBVIOUS
    <2> DEFINE i == n + 1
               s == Placed(q, rows, n)
    <2>1. i \in Nat \ {0} /\ i \in DOMAIN rows /\ i - 1 = n /\ i # 0 /\ i \in 0 .. N
      BY <1>1
    <2>2. Permuted(s, i - 1)
      BY <1>4, <2>1
    <2>3. Placed(q, rows, i) = Insert(q, rows, s, i)
      BY <1>2, <2>1
    <2> HIDE DEF i, s
    <2>4. s \in [1 .. i - 1 -> 1 .. i - 1]
      BY <2>2 DEF Permuted
    <2>5. PICK b \in 0 .. i - 1 :
            /\ Insert(q, rows, s, i) = Spliced(s, i, b)
            /\ \A k \in 1 .. i - 1 : k > b => <<i, s[k]>> \in Ahead(q, rows)
            /\ b # 0 => <<i, s[b]>> \notin Ahead(q, rows)
      BY <2>1, <2>4, InsertSplices
    <2>6. Permuted(Spliced(s, i, b), i)
      BY <2>1, <2>2, <2>5, SplicePermutes
    <2>7. Permuted(Placed(q, rows, i), i)
      BY <2>3, <2>5, <2>6
    <2> QED
      BY <2>7 DEF i
  <1> HIDE DEF T
  <1>5. Nat \subseteq T
    BY <1>3, <1>4, NatInd
  <1> QED
    BY <1>1, <1>5 DEF T

\* So what comes out are rows.
LEMMA SortedRows ==
  ASSUME NEW q, NEW rows \in Seq(Row)
  PROVE  Sorted(q, rows) \in Seq(Row)
  <1> DEFINE N == Len(rows)
             perm == Placed(q, rows, N)
  <1>1. N \in Nat /\ DOMAIN rows = 1 .. N /\ \A k \in 1 .. N : rows[k] \in Row
    OBVIOUS
  <1>2. Sorted(q, rows) = [k \in 1 .. N |-> rows[perm[k]]]
    BY <1>1 DEF Sorted, Placed, Builds
  <1>3. Permuted(perm, N)
    BY SortPermutes
  <1> HIDE DEF perm, N
  <1>4. \A k \in 1 .. N : rows[perm[k]] \in Row
    BY <1>1, <1>3 DEF Permuted
  <1> QED
    BY <1>1, <1>2, <1>4

\* After n steps the first n rows are in order.
LEMMA SortArranges ==
  ASSUME NEW q, NEW rows \in Seq(Row), WeakOrder(Ahead(q, rows), Len(rows))
  PROVE  Arranged(Ahead(q, rows), Placed(q, rows, Len(rows)), Len(rows))
  <1> DEFINE N == Len(rows)
             T == {n \in Nat : n <= N => Arranged(Ahead(q, rows), Placed(q, rows, n), n)}
  <1>1. N \in Nat /\ DOMAIN rows = 1 .. N
    OBVIOUS
  <1>2. \A k \in 0 .. N :
          Placed(q, rows, k) = IF k = 0 THEN <<>>
                               ELSE Insert(q, rows, Placed(q, rows, k - 1), k)
    BY PlacedByInsert
  <1>3. 0 \in T
    <2>1. Placed(q, rows, 0) = <<>>
      BY <1>1, <1>2
    <2>2. Arranged(Ahead(q, rows), <<>>, 0)
      BY DEF Arranged, Permuted
    <2> QED
      BY <2>1, <2>2
  <1>4. ASSUME NEW n \in Nat, n \in T
        PROVE  n + 1 \in T
    <2> SUFFICES ASSUME n + 1 <= N
                 PROVE  Arranged(Ahead(q, rows), Placed(q, rows, n + 1), n + 1)
      OBVIOUS
    <2> DEFINE i == n + 1
               s == Placed(q, rows, n)
    <2>1. i \in 1 .. N /\ i \in DOMAIN rows /\ i - 1 = n /\ i # 0 /\ i \in 0 .. N
      BY <1>1
    <2>2. Arranged(Ahead(q, rows), s, i - 1)
      BY <1>4, <2>1
    <2>3. Placed(q, rows, i) = Insert(q, rows, s, i)
      BY <1>2, <2>1
    <2> HIDE DEF i, s
    <2>4. s \in [1 .. i - 1 -> 1 .. i - 1]
      BY <2>2 DEF Arranged, Permuted
    <2>5. PICK b \in 0 .. i - 1 :
            /\ Insert(q, rows, s, i) = Spliced(s, i, b)
            /\ \A k \in 1 .. i - 1 : k > b => <<i, s[k]>> \in Ahead(q, rows)
            /\ b # 0 => <<i, s[b]>> \notin Ahead(q, rows)
      BY <2>1, <2>4, InsertSplices
    <2>6. Arranged(Ahead(q, rows), Spliced(s, i, b), i)
      BY <1>1, <2>1, <2>2, <2>5, InsertArranges
    <2>7. Arranged(Ahead(q, rows), Placed(q, rows, i), i)
      BY <2>3, <2>5, <2>6
    <2> QED
      BY <2>7 DEF i
  <1> HIDE DEF T
  <1>5. Nat \subseteq T
    BY <1>3, <1>4, NatInd
  <1> QED
    BY <1>1, <1>5 DEF T

\* Two cells that are equal do not come before each other.
LEMMA EqualTies ==
  ASSUME NEW x \in Range(Texts), NEW y \in Range(Texts), Equal(x, y)
  PROVE  ~Below(x, y) /\ ~Below(y, x) /\ (x = Blank \/ y = Blank => x = y)
  <1>1. Number[Blank] = NaN
    BY TextsAssumption
  <1>2. CASE Number[x] # NaN /\ Number[y] # NaN
    <2>1. Number[x] \in Int /\ Number[x] = Number[y]
      BY <1>2, TextsAssumption DEF Equal
    <2>2. ~(Number[x] < Number[y]) /\ ~(Number[y] < Number[x])
      BY <2>1
    <2>3. x # Blank /\ y # Blank
      BY <1>1, <1>2
    <2> QED
      BY <1>2, <2>2, <2>3 DEF Below
  <1>3. CASE ~(Number[x] # NaN /\ Number[y] # NaN)
    <2>1. x = y
      BY <1>3 DEF Equal
    <2>2. Find(Texts, x) \in 0 .. Len(Texts) /\ Len(Texts) \in Nat
      BY TextsAssumption, FindPosition
    <2>3. ~(Rank(x) < Rank(x))
      BY <2>2 DEF Rank
    <2> QED
      BY <1>3, <2>1, <2>3 DEF Below
  <1> QED
    BY <1>2, <1>3

\* The positions of the rows.
LEMMA RowCount ==
  ASSUME prev \in Seq(Row)
  PROVE  DOMAIN prev = 1 .. Len(prev) /\ Len(prev) \in Nat
  OBVIOUS

\* What the insertion sort gives is what OrderSound says.
LEMMA SortedInOrder ==
  ASSUME prev \in Seq(Row), st.order.dir # "" => data = Sorted(in, prev)
  PROVE  OrderSound
  <1> DEFINE N == Len(prev)
             perm == Placed(in, prev, N)
  <1>1. DOMAIN prev = 1 .. N /\ N \in Nat
    BY RowCount
  <1> SUFFICES ASSUME st.order.dir # ""
               PROVE  \E at \in [DOMAIN prev -> DOMAIN prev] :
      /\ \A p, q \in DOMAIN at : at[p] = at[q] => p = q
      /\ data = [k \in DOMAIN at |-> prev[at[k]]]
      /\ Uniform(prev) => \A p, q \in DOMAIN at : p < q =>
           LET x == OrderCell(data[p])
               y == OrderCell(data[q])
           IN  /\ InOrder(x, y)
               /\ Equal(x, y) => at[p] < at[q]
    BY DEF OrderSound
  <1>2. data = [k \in 1 .. N |-> prev[perm[k]]]
    BY <1>1 DEF Sorted, Placed, Builds
  <1>3. Permuted(perm, N)
    BY SortPermutes
  <1>4. Uniform(prev) =>
          /\ WeakOrder(Ahead(in, prev), N)
          /\ \A i \in DOMAIN prev : OrderCell(prev[i]) \in Range(Texts)
          /\ \A i, j \in DOMAIN prev :
               <<i, j>> \in Ahead(in, prev) <=>
                 LET x == OrderCell(prev[i])
                     y == OrderCell(prev[j])
                 IN  IF x = Blank \/ y = Blank
                     THEN x # y /\ (x = Blank <=> NullsFirst(in))
                     ELSE IF st.order.dir = "DESC" THEN Below(y, x) ELSE Below(x, y)
    BY UniformOrders
  <1>5. Uniform(prev) => Arranged(Ahead(in, prev), perm, N)
    BY <1>4, SortArranges
  <1> HIDE DEF N, perm
  <1>6. ASSUME Uniform(prev), NEW p \in 1 .. N, NEW q \in 1 .. N, p < q
        PROVE  LET x == OrderCell(data[p])
                   y == OrderCell(data[q])
               IN  /\ InOrder(x, y)
                   /\ Equal(x, y) => perm[p] < perm[q]
    <2> DEFINE i == perm[p]
               j == perm[q]
               x == OrderCell(prev[i])
               y == OrderCell(prev[j])
    <2>1. data[p] = prev[i] /\ data[q] = prev[j]
      BY <1>2
    <2>2. i \in DOMAIN prev /\ j \in DOMAIN prev
      BY <1>1, <1>3 DEF Permuted
    <2>3. /\ <<j, i>> \notin Ahead(in, prev)
          /\ <<i, j>> \in Ahead(in, prev) \/ i < j
      BY <1>5, <1>6 DEF Arranged
    <2>4. /\ x \in Range(Texts) /\ y \in Range(Texts)
          /\ <<i, j>> \in Ahead(in, prev) <=>
               IF x = Blank \/ y = Blank
               THEN x # y /\ (x = Blank <=> NullsFirst(in))
               ELSE IF st.order.dir = "DESC" THEN Below(y, x) ELSE Below(x, y)
          /\ <<j, i>> \in Ahead(in, prev) <=>
               IF y = Blank \/ x = Blank
               THEN y # x /\ (y = Blank <=> NullsFirst(in))
               ELSE IF st.order.dir = "DESC" THEN Below(x, y) ELSE Below(y, x)
      BY <1>4, <1>6, <2>2
    <2> HIDE DEF i, j, x, y
    <2>5. Equal(x, y) => <<i, j>> \notin Ahead(in, prev)
      BY <2>4, EqualTies
    <2>6. /\ InOrder(x, y)
          /\ Equal(x, y) => i < j
      BY <2>3, <2>4, <2>5 DEF InOrder
    <2> QED
      BY <2>1, <2>6 DEF i, j, x, y
  <1>7. DOMAIN perm = 1 .. N /\ perm \in [DOMAIN prev -> DOMAIN prev]
    BY <1>1, <1>3 DEF Permuted
  <1> perm \in [DOMAIN prev -> DOMAIN prev]
    BY <1>7
  <1> WITNESS perm \in [DOMAIN prev -> DOMAIN prev]
  <1> QED
    BY <1>2, <1>3, <1>6, <1>7 DEF Permuted

-----------------------------------------------------------------------------
(* DISTINCT ON. *)

\* One to one between the positions of a list means that each is met.
LEMMA PermutedOnto ==
  ASSUME NEW n \in Nat, NEW s, Permuted(s, n)
  PROVE  \A i \in 1 .. n : \E p \in 1 .. n : s[p] = i
  <1>1. 1 \in Int /\ n \in Int
    OBVIOUS
  <1>2. IsFiniteSet(1 .. n)
    BY <1>1, FS_Interval
  <1>3. s \in Injection(1 .. n, 1 .. n)
    BY DEF Permuted, Injection, IsInjective
  <1>4. s \in Surjection(1 .. n, 1 .. n)
    BY <1>2, <1>3, FS_Injection
  <1> QED
    BY <1>4 DEF Surjection

\* The statement has an ORDER BY.
Sorting == st.order.dir # ""

\* What DISTINCT ON is given is in order.
OrderedRows(rows) ==
  Uniform(rows) => \A p, q \in DOMAIN rows :
                     p < q => InOrder(OrderCell(rows[p]), OrderCell(rows[q]))

LEMMA SortedIsOrdered ==
  ASSUME prev \in Seq(Row), data = Sorted(in, prev), Sorting, stage = "distinct"
  PROVE  OrderedRows(data)
  <1>1. DOMAIN prev = 1 .. Len(prev) /\ Len(prev) \in Nat
    BY RowCount
  <1>2. OrderSound
    BY SortedInOrder
  <1>3. PICK perm :
          /\ perm \in [DOMAIN prev -> DOMAIN prev]
          /\ \A p, q \in DOMAIN perm : perm[p] = perm[q] => p = q
          /\ data = [k \in DOMAIN perm |-> prev[perm[k]]]
          /\ Uniform(prev) => \A p, q \in DOMAIN perm : p < q =>
               LET x == OrderCell(data[p])
                   y == OrderCell(data[q])
               IN  /\ InOrder(x, y)
                   /\ Equal(x, y) => perm[p] < perm[q]
    BY <1>2 DEF OrderSound, Sorting
  <1>4. DOMAIN perm = DOMAIN prev /\ DOMAIN data = DOMAIN prev
    BY <1>3
  <1>5. Permuted(perm, Len(prev))
    BY <1>1, <1>3, <1>4 DEF Permuted
  <1>6. Range(data) = Range(prev)
    <2>1. \A i \in DOMAIN prev : \E p \in DOMAIN prev : perm[p] = i
      <3>1. PICK n \in Nat : n = Len(prev)
        BY <1>1
      <3>2. Permuted(perm, n)
        BY <1>5, <3>1
      <3>3. \A i \in 1 .. n : \E p \in 1 .. n : perm[p] = i
        BY <3>2, PermutedOnto
      <3> QED
        BY <1>1, <3>1, <3>3
    <2>2. \A p \in DOMAIN prev : perm[p] \in DOMAIN prev /\ data[p] = prev[perm[p]]
      BY <1>3, <1>4
    <2>3. ASSUME NEW i \in DOMAIN prev
          PROVE  prev[i] \in Range(data)
      <3>1. PICK p \in DOMAIN prev : perm[p] = i
        BY <2>1
      <3>2. p \in DOMAIN data /\ data[p] = prev[i]
        BY <1>4, <2>2, <3>1
      <3> QED
        BY <3>2 DEF Range
    <2>4. Range(data) \subseteq Range(prev)
      <3> SUFFICES ASSUME NEW p \in DOMAIN data
                   PROVE  data[p] \in Range(prev)
        BY DEF Range
      <3>1. perm[p] \in DOMAIN prev /\ data[p] = prev[perm[p]]
        BY <1>4, <2>2
      <3> QED
        BY <3>1 DEF Range
    <2>5. Range(prev) \subseteq Range(data)
      BY <2>3 DEF Range
    <2> QED
      BY <2>4, <2>5
  <1>7. Uniform(data) => Uniform(prev)
    BY <1>6 DEF Uniform
  <1> QED
    BY <1>3, <1>4, <1>7 DEF OrderedRows

\* What the loop builds up: the rows kept of the first n.
KeepsOf(q, rows, f, n) ==
  f = [k \in 0 .. n |->
         IF k = 0 THEN <<>>
         ELSE IF \E m \in DOMAIN f[k - 1] :
                   DistinctKey(q, f[k - 1][m]) = DistinctKey(q, rows[k])
              THEN f[k - 1]
              ELSE Append(f[k - 1], rows[k])]

\* One turn of the loop.
Turn(q, rows, kept, k) ==
  IF \E m \in DOMAIN kept : DistinctKey(q, kept[m]) = DistinctKey(q, rows[k])
  THEN kept ELSE Append(kept, rows[k])

LEMMA KeepsByTurn ==
  ASSUME NEW q, NEW rows, NEW f, NEW n \in Nat
  PROVE  KeepsOf(q, rows, f, n) <=>
           f = [k \in 0 .. n |-> IF k = 0 THEN <<>> ELSE Turn(q, rows, f[k - 1], k)]
  BY DEF KeepsOf, Turn

\* The definition of FirstOfEach has a solution.
LEMMA KeepsExists ==
  ASSUME NEW q, NEW rows, NEW n \in Nat
  PROVE  \E f : KeepsOf(q, rows, f, n)
  <1> DEFINE T == {m \in Nat : \E f : KeepsOf(q, rows, f, m)}
  <1>1. 0 \in T
    <2> DEFINE g == [k \in 0 .. 0 |-> <<>>]
    <2>1. g = [k \in 0 .. 0 |-> IF k = 0 THEN <<>> ELSE Turn(q, rows, g[k - 1], k)]
      <3>1. \A k \in 0 .. 0 : k = 0
        OBVIOUS
      <3> QED
        BY <3>1
    <2> HIDE DEF g
    <2>2. KeepsOf(q, rows, g, 0)
      BY <2>1, KeepsByTurn
    <2> QED
      BY <2>2
  <1>2. ASSUME NEW m \in Nat, m \in T
        PROVE  m + 1 \in T
    <2>1. PICK f : KeepsOf(q, rows, f, m)
      BY <1>2
    <2> DEFINE last == Turn(q, rows, f[m], m + 1)
               g == [k \in 0 .. m + 1 |-> IF k = m + 1 THEN last ELSE f[k]]
    <2>2. g = [k \in 0 .. m + 1 |-> IF k = m + 1 THEN last ELSE f[k]]
      OBVIOUS
    <2>3. f = [k \in 0 .. m |-> IF k = 0 THEN <<>> ELSE Turn(q, rows, f[k - 1], k)]
      BY <2>1, KeepsByTurn
    <2> HIDE DEF g
    <2>4. ASSUME NEW k \in 0 .. m + 1
          PROVE  g[k] = IF k = 0 THEN <<>> ELSE Turn(q, rows, g[k - 1], k)
      <3>1. CASE k = m + 1
        <4>1. g[k] = last
          BY <2>2, <3>1
        <4>2. k # 0 /\ k - 1 = m /\ m \in 0 .. m + 1 /\ m # m + 1
          BY <3>1
        <4>3. g[k - 1] = f[m]
          BY <2>2, <4>2
        <4> QED
          BY <3>1, <4>1, <4>2, <4>3
      <3>2. CASE k # m + 1
        <4>1. k \in 0 .. m
          BY <3>2
        <4>2. g[k] = f[k]
          BY <2>2, <3>2
        <4>3. f[k] = IF k = 0 THEN <<>> ELSE Turn(q, rows, f[k - 1], k)
          BY <2>3, <4>1
        <4>4. k # 0 => k - 1 \in 0 .. m + 1 /\ k - 1 # m + 1
          BY <4>1
        <4>5. k # 0 => g[k - 1] = f[k - 1]
          BY <2>2, <4>4
        <4> QED
          BY <4>2, <4>3, <4>5
      <3> QED
        BY <3>1, <3>2
    <2>5. g = [k \in 0 .. m + 1 |-> g[k]]
      BY <2>2
    <2>6. KeepsOf(q, rows, g, m + 1)
      <3>1. m + 1 \in Nat
        OBVIOUS
      <3>2. g = [k \in 0 .. m + 1 |-> IF k = 0 THEN <<>> ELSE Turn(q, rows, g[k - 1], k)]
        BY <2>4, <2>5
      <3> QED
        BY <3>1, <3>2, KeepsByTurn
    <2> QED
      BY <2>6
  <1> HIDE DEF T
  <1>3. Nat \subseteq T
    BY <1>1, <1>2, NatInd
  <1> QED
    BY <1>3 DEF T

\* at says which of the first n rows are kept: one for each key, before every
\* other row of its key.
Holding(q, rows, kept, at, n) ==
  /\ kept \in Seq(Row)
  /\ at \in [DOMAIN kept -> 1 .. n]
  /\ \A k \in DOMAIN kept : kept[k] = rows[at[k]]
  /\ \A k, m \in DOMAIN kept :
       k < m => at[k] < at[m] /\ DistinctKey(q, kept[k]) # DistinctKey(q, kept[m])
  /\ \A i \in 1 .. n : \E k \in DOMAIN kept :
       at[k] <= i /\ DistinctKey(q, kept[k]) = DistinctKey(q, rows[i])

\* A turn of the loop keeps it so.
LEMMA TurnHolds ==
  ASSUME NEW q, NEW rows \in Seq(Row), NEW n \in Nat, n + 1 \in DOMAIN rows,
         NEW kept, NEW at, Holding(q, rows, kept, at, n)
  PROVE  \E to : Holding(q, rows, Turn(q, rows, kept, n + 1), to, n + 1)
  <1> DEFINE new == Turn(q, rows, kept, n + 1)
  <1>1. rows[n + 1] \in Row /\ kept \in Seq(Row)
    BY DEF Holding
  <1>2. CASE \E m \in DOMAIN kept : DistinctKey(q, kept[m]) = DistinctKey(q, rows[n + 1])
    <2>1. new = kept
      BY <1>2 DEF Turn
    <2>2. at \in [DOMAIN kept -> 1 .. n + 1]
      BY DEF Holding
    <2>3. ASSUME NEW i \in 1 .. n + 1
          PROVE  \E k \in DOMAIN kept :
                   at[k] <= i /\ DistinctKey(q, kept[k]) = DistinctKey(q, rows[i])
      <3>1. CASE i \in 1 .. n
        BY <3>1 DEF Holding
      <3>2. CASE i = n + 1
        <4>1. PICK m \in DOMAIN kept : DistinctKey(q, kept[m]) = DistinctKey(q, rows[n + 1])
          BY <1>2
        <4>2. at[m] \in 1 .. n
          BY DEF Holding
        <4>3. at[m] <= i
          BY <3>2, <4>2
        <4> QED
          BY <3>2, <4>1, <4>3
      <3> QED
        BY <3>1, <3>2
    <2>4. Holding(q, rows, kept, at, n + 1)
      BY <2>2, <2>3 DEF Holding
    <2> HIDE DEF new
    <2> QED
      BY <2>1, <2>4 DEF new
  <1>3. CASE ~\E m \in DOMAIN kept : DistinctKey(q, kept[m]) = DistinctKey(q, rows[n + 1])
    <2> DEFINE L == Len(kept)
               to == [k \in 1 .. L + 1 |-> IF k = L + 1 THEN n + 1 ELSE at[k]]
    <2>1. new = Append(kept, rows[n + 1])
      BY <1>3 DEF Turn
    <2>2. /\ L \in Nat /\ DOMAIN kept = 1 .. L
          /\ new \in Seq(Row) /\ DOMAIN new = 1 .. L + 1
          /\ new[L + 1] = rows[n + 1]
          /\ \A k \in 1 .. L : new[k] = kept[k]
      BY <1>1, <2>1
    <2>3. /\ to[L + 1] = n + 1
          /\ \A k \in 1 .. L : to[k] = at[k] /\ at[k] \in 1 .. n
      BY <2>2 DEF Holding
    <2>4. to \in [1 .. L + 1 -> 1 .. n + 1]
      <3> SUFFICES ASSUME NEW k \in 1 .. L + 1
                   PROVE  to[k] \in 1 .. n + 1
        OBVIOUS
      <3> HIDE DEF L, to
      <3>1. k = L + 1 \/ k \in 1 .. L
        BY <2>2
      <3>2. n + 1 \in 1 .. n + 1 /\ \A i \in 1 .. n : i \in 1 .. n + 1
        OBVIOUS
      <3> QED
        BY <2>3, <3>1, <3>2
    <2> HIDE DEF new, L, to
    <2>5. \A k \in 1 .. L + 1 : new[k] = rows[to[k]]
      <3>1. \A k \in 1 .. L + 1 : k = L + 1 \/ k \in 1 .. L
        BY <2>2
      <3>2. \A k \in 1 .. L : kept[k] = rows[at[k]]
        BY <2>2 DEF Holding
      <3> QED
        BY <2>2, <2>3, <3>1, <3>2
    <2>6. ASSUME NEW k \in 1 .. L + 1, NEW m \in 1 .. L + 1, k < m
          PROVE  to[k] < to[m] /\ DistinctKey(q, new[k]) # DistinctKey(q, new[m])
      <3>1. k \in 1 .. L
        BY <2>2, <2>6
      <3>2. CASE m = L + 1
        <4>1. new[m] = rows[n + 1] /\ new[k] = kept[k]
          BY <2>2, <3>1, <3>2
        <4>2. DistinctKey(q, kept[k]) # DistinctKey(q, rows[n + 1])
          BY <1>3, <2>2, <3>1
        <4>3. to[k] < to[m]
          BY <2>3, <3>1, <3>2
        <4> QED
          BY <4>1, <4>2, <4>3
      <3>3. CASE m \in 1 .. L
        <4>1. at[k] < at[m] /\ DistinctKey(q, kept[k]) # DistinctKey(q, kept[m])
          BY <2>2, <2>6, <3>1, <3>3 DEF Holding
        <4> QED
          BY <2>2, <2>3, <3>1, <3>3, <4>1
      <3> QED
        BY <2>2, <3>2, <3>3
    <2>7. ASSUME NEW i \in 1 .. n + 1
          PROVE  \E k \in 1 .. L + 1 :
                   to[k] <= i /\ DistinctKey(q, new[k]) = DistinctKey(q, rows[i])
      <3>1. CASE i = n + 1
        <4>1. L + 1 \in 1 .. L + 1 /\ to[L + 1] <= i
          BY <2>2, <2>3, <3>1
        <4> QED
          BY <2>2, <3>1, <4>1
      <3>2. CASE i \in 1 .. n
        <4>1. PICK k \in 1 .. L : at[k] <= i /\ DistinctKey(q, kept[k]) = DistinctKey(q, rows[i])
          BY <2>2, <3>2 DEF Holding
        <4>2. k \in 1 .. L + 1 /\ to[k] <= i
          BY <2>2, <2>3, <4>1
        <4> QED
          BY <2>2, <4>1, <4>2
      <3> QED
        BY <3>1, <3>2
    <2>8. Holding(q, rows, new, to, n + 1)
      BY <2>2, <2>4, <2>5, <2>6, <2>7 DEF Holding
    <2> QED
      BY <2>8 DEF new
  <1> QED
    BY <1>2, <1>3

\* What dedupDistinctOn leaves.
LEMMA FirstOfEachHolds ==
  ASSUME NEW q, NEW rows \in Seq(Row)
  PROVE  \E at : Holding(q, rows, FirstOfEach(q, rows), at, Len(rows))
  <1> DEFINE N == Len(rows)
             f == CHOOSE f : KeepsOf(q, rows, f, N)
             T == {n \in Nat : n <= N => \E at : Holding(q, rows, f[n], at, n)}
  <1>1. N \in Nat /\ DOMAIN rows = 1 .. N
    OBVIOUS
  <1>2. KeepsOf(q, rows, f, N)
    BY <1>1, KeepsExists
  <1>3. FirstOfEach(q, rows) = f[N]
    BY DEF FirstOfEach, KeepsOf
  <1> HIDE DEF f, N
  <1>4. \A k \in 0 .. N : f[k] = IF k = 0 THEN <<>> ELSE Turn(q, rows, f[k - 1], k)
    <2>1. f = [k \in 0 .. N |-> IF k = 0 THEN <<>> ELSE Turn(q, rows, f[k - 1], k)]
      BY <1>1, <1>2, KeepsByTurn
    <2> QED
      BY <2>1
  <1>5. 0 \in T
    <2>1. f[0] = <<>>
      BY <1>1, <1>4
    <2>2. <<>> \in Seq(Row) /\ DOMAIN <<>> = {}
      OBVIOUS
    <2>3. Holding(q, rows, <<>>, <<>>, 0)
      BY <2>2 DEF Holding
    <2> QED
      BY <2>1, <2>3
  <1>6. ASSUME NEW n \in Nat, n \in T
        PROVE  n + 1 \in T
    <2> SUFFICES ASSUME n + 1 <= N
                 PROVE  \E at : Holding(q, rows, f[n + 1], at, n + 1)
      OBVIOUS
    <2>1. n <= N /\ n + 1 \in DOMAIN rows /\ n + 1 \in 0 .. N /\ n + 1 # 0 /\ n + 1 - 1 = n
      BY <1>1
    <2>2. PICK at : Holding(q, rows, f[n], at, n)
      BY <1>6, <2>1
    <2>3. f[n + 1] = Turn(q, rows, f[n], n + 1)
      BY <1>4, <2>1
    <2>4. \E to : Holding(q, rows, Turn(q, rows, f[n], n + 1), to, n + 1)
      BY <2>1, <2>2, TurnHolds
    <2> QED
      BY <2>3, <2>4
  <1> HIDE DEF T
  <1>7. Nat \subseteq T
    BY <1>5, <1>6, NatInd
  <1>8. \E at : Holding(q, rows, f[N], at, N)
    BY <1>1, <1>7 DEF T
  <1> QED
    BY <1>3, <1>8 DEF N

\* A row may stand before one with its own cell.
LEMMA InOrderItself ==
  ASSUME NEW x \in Range(Texts)
  PROVE  InOrder(x, x)
  BY EqualTies DEF InOrder, Equal

\* Of rows in order the loop keeps what DISTINCT ON asks for.
LEMMA FirstOfEachKeeps ==
  ASSUME prev \in Seq(Row), st.distinctOn # <<>> => data = FirstOfEach(in, prev),
         Sorting => OrderedRows(prev)
  PROVE  DistinctSound
  <1> DEFINE Ordered == Sorting /\ Uniform(prev)
  <1> SUFFICES ASSUME st.distinctOn # <<>>
               PROVE  /\ Range(data) \subseteq Range(prev)
                      /\ \A k, m \in DOMAIN data :
                           k < m =>
                             /\ DistinctKey(in, data[k]) # DistinctKey(in, data[m])
                             /\ Ordered => InOrder(OrderCell(data[k]), OrderCell(data[m]))
                      /\ \A row \in Range(prev) : \E k \in DOMAIN data :
                           /\ DistinctKey(in, data[k]) = DistinctKey(in, row)
                           /\ Ordered => InOrder(OrderCell(data[k]), OrderCell(row))
    BY DEF DistinctSound, Sorting
  <1>1. DOMAIN prev = 1 .. Len(prev) /\ Len(prev) \in Nat
    BY RowCount
  <1>2. PICK at : Holding(in, prev, data, at, Len(prev))
    BY FirstOfEachHolds
  <1>3. \A k \in DOMAIN data : at[k] \in DOMAIN prev /\ data[k] = prev[at[k]]
    BY <1>1, <1>2 DEF Holding
  <1>4. Ordered => \A p, q \in DOMAIN prev :
                     p < q => InOrder(OrderCell(prev[p]), OrderCell(prev[q]))
    BY DEF OrderedRows
  <1>5. Ordered => \A p \in DOMAIN prev : InOrder(OrderCell(prev[p]), OrderCell(prev[p]))
    BY UniformOrders, InOrderItself
  <1> HIDE DEF Ordered
  <1>9. \A k \in DOMAIN data : \A i \in 1 .. Len(prev) :
          at[k] <= i => at[k] < i \/ at[k] = i
    BY <1>1, <1>3
  <1>6. Range(data) \subseteq Range(prev)
    BY <1>3 DEF Range
  <1>7. ASSUME NEW k \in DOMAIN data, NEW m \in DOMAIN data, k < m
        PROVE  /\ DistinctKey(in, data[k]) # DistinctKey(in, data[m])
               /\ Ordered => InOrder(OrderCell(data[k]), OrderCell(data[m]))
    <2>1. at[k] < at[m] /\ DistinctKey(in, data[k]) # DistinctKey(in, data[m])
      BY <1>2, <1>7 DEF Holding
    <2> QED
      BY <1>3, <1>4, <2>1
  <1>8. ASSUME NEW row \in Range(prev)
        PROVE  \E k \in DOMAIN data :
                 /\ DistinctKey(in, data[k]) = DistinctKey(in, row)
                 /\ Ordered => InOrder(OrderCell(data[k]), OrderCell(row))
    <2>1. PICK i \in 1 .. Len(prev) : row = prev[i]
      BY <1>1 DEF Range
    <2>2. PICK k \in DOMAIN data :
            at[k] <= i /\ DistinctKey(in, data[k]) = DistinctKey(in, prev[i])
      BY <1>2 DEF Holding
    <2>3. at[k] < i \/ at[k] = i
      BY <1>9, <2>2
    <2>4. Ordered => InOrder(OrderCell(data[k]), OrderCell(prev[i]))
      BY <1>1, <1>3, <1>4, <1>5, <2>3
    <2> QED
      BY <2>1, <2>2, <2>4
  <1> QED
    BY <1>6, <1>7, <1>8

-----------------------------------------------------------------------------
(* The stages. *)

\* The rows are rows of texts until they are counted or printed.
RowsKept ==
  /\ in \in Inputs
  /\ prev \in Seq(Row)
  /\ stage \notin {"done", "failed"} => data \in Seq(Row)

\* The rows are what the last stage made of the ones before it, and a statement
\* that counts has no other stages.
StageDone ==
  /\ stage = "join" => data = in.l.rows
  /\ stage = "where" /\ st.join # "NONE" => data = HashJoin(First, Second, st.on, JoinType)
  /\ stage \in {"group", "order"} /\ st.conds # <<>> => data = Filter(in, prev)
  /\ stage \in {"order", "distinct", "page", "project"} => ~st.aggregate
  /\ stage = "distinct" /\ st.order.dir # "" => data = Sorted(in, prev)
  /\ stage = "page" => /\ st.distinctOn # <<>> => data = FirstOfEach(in, prev)
                       /\ Sorting => OrderedRows(prev)
  /\ stage = "project" => /\ End(in, prev) >= Offset(in, prev)
                          /\ data = SubSeq(prev, Offset(in, prev) + 1, End(in, prev))
  /\ stage = "done" /\ st.aggregate => data = Counts(in, prev)

EngineInv == RowsKept /\ StageDone

\* Every execution starts from the rows of the left table.
LEMMA StartInv == Start => EngineInv
  <1> SUFFICES ASSUME Start
               PROVE  EngineInv
    OBVIOUS
  <1>1. RowsKept
    <2>1. in.l.rows \in Seq(Row)
      BY InputsAssumption DEF Start
    <2>2. <<>> \in Seq(Row)
      OBVIOUS
    <2> QED
      BY <2>1, <2>2 DEF Start, RowsKept
  <1>2. StageDone
    BY DEF Start, StageDone
  <1> QED
    BY <1>1, <1>2 DEF EngineInv

\* Rows that are taken from rows.
LEMMA PickedRows ==
  ASSUME NEW q, NEW rows \in Seq(Row)
  PROVE  Filter(q, rows) \in Seq(Row) /\ FirstOfEach(q, rows) \in Seq(Row)
  <1> DEFINE K == {i \in DOMAIN rows : Passes(q, rows[i])}
  <1>1. K \in SUBSET DOMAIN rows /\ Filter(q, rows) = Picked(rows, K)
    BY DEF Filter
  <1> HIDE DEF K
  <1>2. Filter(q, rows) \in Seq(Row)
    BY <1>1, PickedInOrder
  <1>3. FirstOfEach(q, rows) \in Seq(Row)
    BY FirstOfEachHolds DEF Holding
  <1> QED
    BY <1>2, <1>3

\* The join: its sides are those of the property also where they are swapped.
LEMMA JoinInv ==
  ASSUME EngineInv, Join
  PROVE  EngineInv'
  <1>1. in \in Inputs /\ stage = "join" /\ data \in Seq(Row) /\ in' = in
    BY DEF EngineInv, RowsKept, Join, Go
  <1>2. stage' = "where" /\ prev' = data
    BY DEF Join, Go
  <1>3. /\ data' \in Seq(Row)
        /\ st.join # "NONE" => data' = HashJoin(First, Second, st.on, JoinType)
    <2>1. CASE st.join = "NONE"
      BY <1>1, <2>1 DEF Join, Go
    <2>2. CASE st.join # "NONE"
      <3>1. data' = HashJoin(First, Second, st.on, JoinType)
        BY <2>2 DEF Join, Go, First, Second, JoinType
      <3>2. /\ First.rows \in Seq(Row) /\ First.header \in Seq(Range(First.header))
            /\ Second.rows \in Seq(Row) /\ Second.header \in Seq(Range(Second.header))
        BY <1>1, Sides
      <3>3. HashJoin(First, Second, st.on, JoinType) \in Seq(Row)
        BY <3>2, JoinRows
      <3> QED
        BY <3>1, <3>3
    <2> QED
      BY <2>1, <2>2
  <1>4. RowsKept'
    BY <1>1, <1>2, <1>3 DEF RowsKept
  <1>5. StageDone'
    BY <1>1, <1>2, <1>3 DEF StageDone, st, First, Second, JoinType
  <1> QED
    BY <1>4, <1>5 DEF EngineInv

\* The filter, or none where there is no WHERE.
LEMMA WhereInv ==
  ASSUME EngineInv, WhereStage
  PROVE  EngineInv'
  <1>1. in \in Inputs /\ data \in Seq(Row) /\ in' = in /\ prev' = data
    BY DEF EngineInv, RowsKept, WhereStage, Go
  <1>2. /\ stage' = IF st.aggregate THEN "group" ELSE "order"
        /\ data' = IF st.conds = <<>> THEN data ELSE Filter(in, data)
    BY DEF WhereStage, Go
  <1>3. data' \in Seq(Row)
    BY <1>1, <1>2, PickedRows
  <1>4. RowsKept'
    BY <1>1, <1>3 DEF RowsKept
  <1>5. StageDone'
    BY <1>1, <1>2 DEF StageDone, st
  <1> QED
    BY <1>4, <1>5 DEF EngineInv

\* A statement that counts ends with its groups, or fails on a missing column.
LEMMA GroupInv ==
  ASSUME EngineInv, Group
  PROVE  EngineInv'
  <1>1. in \in Inputs /\ data \in Seq(Row) /\ in' = in /\ prev' = data
    BY DEF EngineInv, RowsKept, Group, Go
  <1>2. stage' = "failed" \/ (stage' = "done" /\ data' = Counts(in, data))
    BY DEF Group, Go
  <1>3. RowsKept'
    BY <1>1, <1>2 DEF RowsKept
  <1>4. StageDone'
    BY <1>1, <1>2 DEF StageDone
  <1> QED
    BY <1>3, <1>4 DEF EngineInv

\* The sort, or none where there is no ORDER BY.
LEMMA OrderInv ==
  ASSUME EngineInv, Order
  PROVE  EngineInv'
  <1>1. /\ in \in Inputs /\ data \in Seq(Row) /\ in' = in /\ prev' = data
        /\ ~st.aggregate
    BY DEF EngineInv, RowsKept, StageDone, Order, Go
  <1>2. stage' = "distinct" /\ data' = IF st.order.dir = "" THEN data ELSE Sorted(in, data)
    BY DEF Order, Go
  <1>3. data' \in Seq(Row)
    BY <1>1, <1>2, SortedRows
  <1>4. RowsKept'
    BY <1>1, <1>3 DEF RowsKept
  <1>5. StageDone'
    BY <1>1, <1>2 DEF StageDone, st
  <1> QED
    BY <1>4, <1>5 DEF EngineInv

\* DISTINCT ON, after which the rows are still rows.
LEMMA DistinctInv ==
  ASSUME EngineInv, Distinct
  PROVE  EngineInv'
  <1>1. /\ in \in Inputs /\ data \in Seq(Row) /\ in' = in /\ prev' = data
        /\ ~st.aggregate
    BY DEF EngineInv, RowsKept, StageDone, Distinct, Go
  <1>6. Sorting => OrderedRows(data)
    BY SortedIsOrdered DEF EngineInv, RowsKept, StageDone, Distinct, Sorting
  <1>7. (Sorting => OrderedRows(prev))'
    BY <1>1, <1>6 DEF Sorting, OrderedRows, Uniform, InOrder, OrderCell, st
  <1>2. /\ stage' = "page"
        /\ data' = IF st.distinctOn = <<>> THEN data ELSE FirstOfEach(in, data)
    BY DEF Distinct, Go
  <1>3. data' \in Seq(Row)
    BY <1>1, <1>2, PickedRows
  <1>4. RowsKept'
    BY <1>1, <1>3 DEF RowsKept
  <1>5. StageDone'
    BY <1>1, <1>2, <1>7 DEF StageDone, st
  <1> QED
    BY <1>4, <1>5 DEF EngineInv

\* The page, whose ends are in order where it does not fail.
LEMMA PageInv ==
  ASSUME EngineInv, Page
  PROVE  EngineInv'
  <1>1. /\ in \in Inputs /\ data \in Seq(Row) /\ in' = in /\ prev' = data
        /\ ~st.aggregate
    BY DEF EngineInv, RowsKept, StageDone, Page, Go
  <1>2. CASE End(in, data) < Offset(in, data)
    <2>1. stage' = "failed"
      BY <1>2 DEF Page, Go
    <2> QED
      BY <1>1, <2>1 DEF EngineInv, RowsKept, StageDone
  <1>3. CASE ~(End(in, data) < Offset(in, data))
    <2>1. /\ stage' = "project"
          /\ data' = SubSeq(data, Offset(in, data) + 1, End(in, data))
      BY <1>3 DEF Page, Go
    <2>2. End(in, data) >= Offset(in, data)
      <3>1. End(in, data) \in Int /\ Offset(in, data) \in Nat
        BY <1>1, PageNumbers
      <3> QED
        BY <1>3, <3>1
    <2>3. data' \in Seq(Row)
      BY <1>1, <2>1, <2>2, PageRows
    <2>4. RowsKept'
      BY <1>1, <2>3 DEF RowsKept
    <2>5. StageDone'
      BY <1>1, <2>1, <2>2 DEF StageDone, st
    <2> QED
      BY <2>4, <2>5 DEF EngineInv
  <1> QED
    BY <1>2, <1>3

\* After the projection, nothing is said of a statement that does not count.
LEMMA ProjectInv ==
  ASSUME EngineInv, Project
  PROVE  EngineInv'
  <1>1. /\ in \in Inputs /\ data \in Seq(Row) /\ in' = in /\ prev' = data
        /\ ~st.aggregate
    BY DEF EngineInv, RowsKept, StageDone, Project, Go
  <1>2. stage' \in {"done", "failed"}
    BY DEF Project, Go
  <1> QED
    BY <1>1, <1>2 DEF EngineInv, RowsKept, StageDone, st

\* Every step keeps the invariant.
LEMMA StepInv == EngineInv /\ [Step]_engine => EngineInv'
  <1> SUFFICES ASSUME EngineInv, [Step]_engine
               PROVE  EngineInv'
    OBVIOUS
  <1>1. CASE UNCHANGED engine
    <2>1. (OrderedRows(prev)' <=> OrderedRows(prev)) /\ (Sorting' <=> Sorting)
      BY <1>1 DEF engine, Sorting, OrderedRows, Uniform, InOrder, OrderCell, st
    <2>2. RowsKept'
      BY <1>1 DEF engine, EngineInv, RowsKept
    <2>3. StageDone'
      BY <1>1, <2>1 DEF engine, EngineInv, StageDone, st, First, Second, JoinType
    <2> QED
      BY <2>2, <2>3 DEF EngineInv
  <1>2. CASE Over
    BY <1>1, <1>2 DEF Over
  <1> QED
    BY <1>1, <1>2, JoinInv, WhereInv, GroupInv, OrderInv, DistinctInv, PageInv, ProjectInv
    DEF Step

\* At every stage the rows are the whole result of the stage before it.
THEOREM StagesRunWhole == Execution => []EngineInv
  BY StartInv, StepInv, PTL DEF Execution

\* A join gives each matching pair of rows once, an outer join the rows without
\* a partner as well, and nothing else.
THEOREM JoinAlwaysExact == Execution => []JoinExact
  <1>1. EngineInv => JoinExact
    <2> SUFFICES ASSUME EngineInv, stage = "where"
                 PROVE  JoinExact
      BY DEF JoinExact
    <2> QED
      BY JoinGives DEF EngineInv, RowsKept, StageDone
  <1> QED
    BY <1>1, StagesRunWhole, PTL

\* The index of a filter never shows.
THEOREM FilterAlwaysSound == Execution => []FilterSound
  <1>1. EngineInv => FilterSound
    <2> SUFFICES ASSUME EngineInv, stage \in {"group", "order"}
                 PROVE  FilterSound
      BY DEF FilterSound
    <2> QED
      BY FilterKeeps DEF EngineInv, RowsKept, StageDone
  <1> QED
    BY <1>1, StagesRunWhole, PTL

\* ORDER BY loses no row, repeats none, and orders them over a uniform column.
THEOREM OrderAlwaysSound == Execution => []OrderSound
  <1>1. EngineInv => OrderSound
    <2> SUFFICES ASSUME EngineInv, stage = "distinct"
                 PROVE  OrderSound
      BY DEF OrderSound
    <2> QED
      BY SortedInOrder DEF EngineInv, RowsKept, StageDone
  <1> QED
    BY <1>1, StagesRunWhole, PTL

\* DISTINCT ON keeps one row of each key, the one that ORDER BY asks for.
THEOREM DistinctAlwaysSound == Execution => []DistinctSound
  <1>1. EngineInv => DistinctSound
    <2> SUFFICES ASSUME EngineInv, stage = "page"
                 PROVE  DistinctSound
      BY DEF DistinctSound
    <2> QED
      BY FirstOfEachKeeps DEF EngineInv, RowsKept, StageDone
  <1> QED
    BY <1>1, StagesRunWhole, PTL

\* A page shorter than its limit is the last, and has the rows from OFFSET on.
THEOREM ShortPageAlwaysLast == Execution => []ShortPageIsLast
  <1>1. EngineInv => ShortPageIsLast
    <2> SUFFICES ASSUME EngineInv, stage = "project"
                 PROVE  ShortPageIsLast
      BY DEF ShortPageIsLast
    <2> QED
      BY PageShort DEF EngineInv, RowsKept, StageDone
  <1> QED
    BY <1>1, StagesRunWhole, PTL

\* Every row is counted in the group of its key, and in no other.
THEOREM AlwaysCountedOnce == Execution => []EachCountedOnce
  <1>1. EngineInv => EachCountedOnce
    <2> SUFFICES ASSUME EngineInv, stage = "done"
                 PROVE  EachCountedOnce
      BY DEF EachCountedOnce
    <2> QED
      BY CountsOnce DEF EngineInv, RowsKept, StageDone
  <1> QED
    BY <1>1, StagesRunWhole, PTL

=============================================================================
