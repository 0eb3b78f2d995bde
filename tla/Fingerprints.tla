---------------------------- MODULE Fingerprints ----------------------------
(* The data of internal/cache: what a scan found, what the fingerprint store
   remembers, and the comparisons `collect --cache` and `diff` make between
   them.  A table is a key ("instance/db/table"), its schema a member of
   Schema; the three hashes of a fingerprint are the single value Fp[schema],
   and what the field-level comparison of internal/diff looks at is
   Fields[schema].  Row counts and timestamps take part in no comparison.

   A map of the code is a function on all keys (or labels) whose value is
   None where the map has no entry.                                        *)

CONSTANTS Key,        \* table keys, "instance/db/table"
          Schema,     \* table definitions
          Hash,       \* values of (ColHash, IndexHash, FKHash)
          Fp,         \* Fp[s]: the hashes of a table with schema s
          Field,      \* values of what DiffTables compares
          Fields,     \* Fields[s]: what DiffTables sees of schema s
          Label,      \* version labels
          None        \* "the map has no such entry"

\* diff.DiffUniverse, one status per table key: "" is a row without a status
\* (a table of both scans that lacks a snapshot), None is no row.
Status == {"added", "removed", "changed", ""}

ASSUME FingerprintAssumption ==
  /\ Fp \in [Schema -> Hash]
  /\ Fields \in [Schema -> Field]
  /\ None \notin Schema \cup Hash \cup Status

\* The result of a scan: the schema of every table that was collected.  A
\* table that was dropped and a table whose instance could not be reached look
\* the same.
Universe == [Key -> Schema \cup {None}]

Entries   == [Key -> Hash \cup {None}]
Snapshots == [Key -> Schema \cup {None}]

VersionEntry == [fps : Entries, snaps : Snapshots]

Store == [entries : Entries, snaps : Snapshots,
          versions : [Label -> VersionEntry \cup {None}]]

\* LoadStore's store when there is no file, or a file it cannot parse.
EmptyStore == [entries  |-> [k \in Key |-> None],
               snaps    |-> [k \in Key |-> None],
               versions |-> [v \in Label |-> None]]

\* A v0.1.0 cache file, a plain array of fingerprints: no snapshots, no
\* versions.
LegacyStore(e) == [EmptyStore EXCEPT !.entries = e]

Keys(f) == {k \in DOMAIN f : f[k] # None}

\* ComputeUniverse: the fingerprint of every table of a universe.
ComputeUniverse(u) == [k \in Key |-> IF u[k] = None THEN None ELSE Fp[u[k]]]

-----------------------------------------------------------------------------
(* Store operations, in memory. *)

\* What Update leaves of one table's map entry: only the scanned tables are
\* written, nothing is deleted.
OverwrittenBy(old, new) == [k \in Key |-> IF new[k] = None THEN old[k] ELSE new[k]]

\* A mutant of Updated: the snapshot of a table that is already known is kept.
UpdatedKeepingSnapshots(st, u) ==
  [st EXCEPT !.entries = OverwrittenBy(st.entries, ComputeUniverse(u)),
             !.snaps   = OverwrittenBy(u, st.snaps)]

Updated(st, u) ==
  [st EXCEPT !.entries = OverwrittenBy(st.entries, ComputeUniverse(u)),
             !.snaps   = OverwrittenBy(st.snaps, u)]

\* SaveVersion: the current entries and snapshots under a label, replacing
\* what the label named before.
Versioned(st, v) ==
  [st EXCEPT !.versions[v] = [fps |-> st.entries, snaps |-> st.snaps]]

-----------------------------------------------------------------------------
(* Comparisons. *)

\* Store.Diff: the table-level delta of a scan against the store.
Diff(st, u) ==
  LET fps == ComputeUniverse(u)
  IN  [added   |-> Keys(fps) \ Keys(st.entries),
       removed |-> Keys(st.entries) \ Keys(fps),
       changed |-> {k \in Keys(fps) \cap Keys(st.entries) :
                      fps[k] # st.entries[k]}]

Delta == [added : SUBSET Key, removed : SUBSET Key, changed : SUBSET Key]

IsEmptyDelta(d) == d.added \cup d.removed \cup d.changed = {}

\* diff.DiffUniverse, one status per table key.
DiffUniverse(oldKeys, newKeys, oldSnaps, newSnaps) ==
  [k \in Key |->
     CASE k \in oldKeys /\ k \notin newKeys -> "removed"
       [] k \notin oldKeys /\ k \in newKeys -> "added"
       [] k \in oldKeys /\ k \in newKeys ->
            IF oldSnaps[k] = None \/ newSnaps[k] = None THEN ""
            ELSE IF Fields[oldSnaps[k]] # Fields[newSnaps[k]] THEN "changed"
            ELSE None
       [] OTHER -> None]

\* A mutant of DiffDetailed: it is called after Update.
DiffDetailedTooLate(st, u) ==
  DiffUniverse(Keys(Updated(st, u).entries), Keys(u), Updated(st, u).snaps, u)

\* Store.DiffDetailed: the store's snapshots against a scan.
DiffDetailed(st, u) == DiffUniverse(Keys(st.entries), Keys(u), st.snaps, u)

\* A mutant of DiffSince: the two sides are swapped.
DiffSinceSwapped(st, v) ==
  DiffUniverse(Keys(st.entries), Keys(st.versions[v].fps),
               st.snaps, st.versions[v].snaps)

\* Store.DiffSince: a stored version against the store's current state.
DiffSince(st, v) ==
  DiffUniverse(Keys(st.versions[v].fps), Keys(st.entries),
               st.versions[v].snaps, st.snaps)

=============================================================================
