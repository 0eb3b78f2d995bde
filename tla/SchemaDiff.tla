----------------------------- MODULE SchemaDiff -----------------------------
(* The field by field comparison of two scans, src/internal/diff/diff.go.    *)
(* A name is the sequence of its parts ("user" "_" "id").  A list of changes *)
(* is a set here: the code reads Go maps and sorts by names that need not    *)
(* differ, so that the order is open.                                        *)
EXTENDS Integers, Sequences, FiniteSets, Functions

CONSTANTS Lower,       \* what ToLower changes: part of a name -> part
          NormalType,  \* normalizeType, where it changes a type
          Flags        \* the attributes of a column but its name and type

Fold(name) == [i \in 1 .. Len(name) |->
                 IF name[i] \in DOMAIN Lower THEN Lower[name[i]] ELSE name[i]]

Normal(type) == IF type \in DOMAIN NormalType THEN NormalType[type] ELSE type

\* A list as the map that diffColumns, diffIndexes and diffFKs make of it: of
\* two entries whose names differ in case only the later one is kept.
ByName(list) ==
  [n \in {Fold(list[i].name) : i \in 1 .. Len(list)} |->
     list[CHOOSE i \in 1 .. Len(list) :
            /\ Fold(list[i].name) = n
            /\ \A j \in i + 1 .. Len(list) : Fold(list[j].name) # n]]

-----------------------------------------------------------------------------

\* A value is the sequence of the texts that stand in it; the empty one says
\* that the column is not there.
ColumnChange(name, field, old, new) ==
  [name |-> name, field |-> field, old |-> old, new |-> new]

TypeOf(c) == <<c.type, c.at["nullable"]>>

\* (Mutant: a changed default is not looked at.)
MutCompareColumnFields(old, new) ==
  (IF Normal(old.type) = Normal(new.type) THEN {}
   ELSE {ColumnChange(old.name, "type", <<old.type>>, <<new.type>>)})
    \cup {ColumnChange(old.name, f, <<old.at[f]>>, <<new.at[f]>>) :
            f \in {g \in Flags \ {"default"} : old.at[g] # new.at[g]}}

CompareColumnFields(old, new) ==
  (IF Normal(old.type) = Normal(new.type) THEN {}
   ELSE {ColumnChange(old.name, "type", <<old.type>>, <<new.type>>)})
    \cup {ColumnChange(old.name, f, <<old.at[f]>>, <<new.at[f]>>) :
            f \in {g \in Flags : old.at[g] # new.at[g]}}

DiffColumns(old, new) ==
  LET o == ByName(old)
      n == ByName(new)
  IN  {ColumnChange(o[c].name, "type", TypeOf(o[c]), <<>>) : c \in DOMAIN o \ DOMAIN n}
        \cup {ColumnChange(n[c].name, "type", <<>>, TypeOf(n[c])) : c \in DOMAIN n \ DOMAIN o}
        \cup UNION {CompareColumnFields(o[c], n[c]) : c \in DOMAIN o \cap DOMAIN n}

\* What is compared of an index, and of a foreign key; a key's database and
\* its actions on delete and update are not.
IndexBody(x) == [columns |-> x.columns, unique |-> x.unique, type |-> x.type]
KeyBody(f) == [columns |-> f.columns, refTable |-> f.refTable, refColumns |-> f.refColumns]

\* diffIndexes and diffFKs.
DiffNamed(old, new, Body(_)) ==
  LET o == ByName(old)
      n == ByName(new)
  IN  {[name |-> o[k].name, status |-> "removed", old |-> {Body(o[k])}, new |-> {}] :
         k \in DOMAIN o \ DOMAIN n}
        \cup {[name |-> n[k].name, status |-> "added", old |-> {}, new |-> {Body(n[k])}] :
                k \in DOMAIN n \ DOMAIN o}
        \cup {[name |-> n[k].name, status |-> "changed", old |-> {Body(o[k])},
               new |-> {Body(n[k])}] :
                k \in {j \in DOMAIN o \cap DOMAIN n : Body(o[j]) # Body(n[j])}}

DiffTables(old, new) ==
  [columns |-> DiffColumns(old.columns, new.columns),
   indexes |-> DiffNamed(old.indexes, new.indexes, IndexBody),
   fks     |-> DiffNamed(old.fks, new.fks, KeyBody)]

Unchanged == [columns |-> {}, indexes |-> {}, fks |-> {}]

\* The keys of DiffUniverse: instance/db/table, cut again at the first two
\* slashes (keyInstance, keyDB, extractTable).
PathOf(k) == k[1] \o <<"/">> \o k[2] \o <<"/">> \o k[3]

Cut(path) ==
  LET first == CHOOSE i \in 1 .. Len(path) : /\ path[i] = "/"
                                            /\ \A j \in 1 .. i - 1 : path[j] # "/"
      next  == CHOOSE i \in first + 1 .. Len(path) :
                 /\ path[i] = "/"
                 /\ \A j \in first + 1 .. i - 1 : path[j] # "/"
  IN  <<SubSeq(path, 1, first - 1), SubSeq(path, first + 1, next - 1),
        SubSeq(path, next + 1, Len(path))>>

\* The columns of a table that came or went, each with all that is told of it;
\* the indexes and keys are not told.
AllColumns(t) ==
  {<<c.name, <<c.type, c.at["nullable"], c.at["default"], c.at["comment"], c.at["is_primary"]>>>> :
     c \in Range(t.columns)}

ColumnsGone(t) ==
  [Unchanged EXCEPT !.columns = {ColumnChange(c[1], "type", c[2], <<>>) : c \in AllColumns(t)}]
ColumnsCame(t) ==
  [Unchanged EXCEPT !.columns = {ColumnChange(c[1], "type", <<>>, c[2]) : c \in AllColumns(t)}]

TableDiff(path, status, changes) == [table |-> Cut(path), status |-> status, changes |-> changes]

\* old and new map paths to tables.
DiffUniverse(old, new) ==
  {TableDiff(k, "removed", ColumnsGone(old[k])) : k \in DOMAIN old \ DOMAIN new}
    \cup {TableDiff(k, "added", ColumnsCame(new[k])) : k \in DOMAIN new \ DOMAIN old}
    \cup {TableDiff(k, "changed", DiffTables(old[k], new[k])) :
            k \in {j \in DOMAIN old \cap DOMAIN new :
                     DiffTables(old[j], new[j]) # Unchanged}}
=============================================================================
