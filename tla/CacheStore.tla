----------------------------- MODULE CacheStore -----------------------------
(* The fingerprint cache file of `dbexplain collect --cache F` and every
   process that works on it: each loads the file, reports what changed, merges
   its scan into the store and saves, then labels the result as a version and
   saves again.  A save writes F.tmp (the same name for every process) and
   renames it over F; it can fail, and the process can die between any two
   steps.                                                                   *)
EXTENDS Fingerprints, Integers

CONSTANTS Proc,       \* processes running collect on one cache file
          NoFile,     \* the name is not in the directory
          Empty,      \* a file that was truncated and not yet written
          Garbled,    \* a file no reader can parse: cut short, or two writers' mix
          MaxScans    \* bound: collect runs started in a behaviour

ASSUME FileAssumption ==
  /\ {NoFile, Empty, Garbled} \cap Store = {}
  /\ NoFile \notin {Empty, Garbled}
  /\ Empty # Garbled
  /\ NoFile \notin Delta
  /\ MaxScans \in Nat

VARIABLES platform,   \* runtime.GOOS: Windows removes the target of a rename
          cacheFile,  \* what the name F holds
          tmpFile,    \* what the name F.tmp holds
          fd,         \* fd[p]: where the file p is writing can be found now
          pc,         \* pc[p]: the step p takes next
          univ,       \* univ[p]: what p's scan found
          store,      \* store[p]: p's *cache.Store
          unread,     \* history: p's store was begun without the file it is for
          label,      \* label[p]: p's --version-label, or its timestamp
          saving,     \* saving[p]: which of its two saves p is in
          deltaFile,  \* what F_delta.json holds
          diffFile,   \* what F_diff.json holds
          scans,      \* how many runs have started
          lastTables  \* history: the tables of the last scan saved (all, if none)

vars == <<platform, cacheFile, tmpFile, fd, pc, univ, store, unread, label,
          saving, deltaFile, diffFile, scans, lastTables>>

disk   == <<cacheFile, tmpFile, fd, lastTables>>
memory == <<univ, store, unread, label, saving>>
report == <<deltaFile, diffFile>>

NoScan == [k \in Key |-> None]

NoRows == [k \in Key |-> None]

Init ==
  /\ platform \in {"posix", "windows"}
  /\ cacheFile \in {NoFile} \cup {LegacyStore(e) : e \in Entries}
  /\ tmpFile = NoFile
  /\ fd = [p \in Proc |-> "none"]
  /\ pc = [p \in Proc |-> "idle"]
  /\ univ = [p \in Proc |-> NoScan]
  /\ store = [p \in Proc |-> EmptyStore]
  /\ unread = [p \in Proc |-> FALSE]
  /\ label = [p \in Proc |-> None]
  /\ saving = [p \in Proc |-> "update"]
  /\ deltaFile = NoFile
  /\ diffFile = NoRows
  /\ scans = 0
  /\ lastTables = Key

-----------------------------------------------------------------------------

\* The collection is over: u holds the tables of the instances that answered.
Scan(p) ==
  /\ pc[p] = "idle"
  /\ scans < MaxScans
  /\ scans' = scans + 1
  /\ \E u \in Universe, v \in Label :
       /\ univ' = [univ EXCEPT ![p] = u]
       /\ label' = [label EXCEPT ![p] = v]
  /\ pc' = [pc EXCEPT ![p] = "load"]
  /\ UNCHANGED <<platform, disk, store, unread, saving, report>>

\* What a file that was read gives: a missing file is an empty store; so is one
\* that does not parse, whose error handleCollect logs as "starting fresh".
Loaded(f) == IF f \in {NoFile, Empty, Garbled} THEN EmptyStore ELSE f

Load(p) ==
  /\ pc[p] = "load"
  /\ store' = [store EXCEPT ![p] = Loaded(cacheFile)]
  /\ pc' = [pc EXCEPT ![p] = "delta"]
  /\ UNCHANGED <<platform, disk, univ, unread, label, saving, report, scans>>

\* The file is there and ReadFile fails (no permission, a read error): LoadStore
\* returns its empty store beside the error, and the run goes on with it.
LoadFails(p) ==
  /\ pc[p] = "load"
  /\ cacheFile # NoFile
  /\ store' = [store EXCEPT ![p] = EmptyStore]
  /\ unread' = [unread EXCEPT ![p] = TRUE]
  /\ pc' = [pc EXCEPT ![p] = "delta"]
  /\ UNCHANGED <<platform, disk, univ, label, saving, report, scans>>

\* An empty delta leaves F_delta.json and F_diff.json as they are.
WriteDelta(p) ==
  /\ pc[p] = "delta"
  /\ LET d == Diff(store[p], univ[p])
     IN  IF IsEmptyDelta(d)
         THEN /\ pc' = [pc EXCEPT ![p] = "update"]
              /\ UNCHANGED deltaFile
         ELSE /\ pc' = [pc EXCEPT ![p] = "detail"]
              /\ deltaFile' = d
  /\ UNCHANGED <<platform, disk, memory, diffFile, scans>>

WriteDetail(p) ==
  /\ pc[p] = "detail"
  /\ LET rows == DiffDetailed(store[p], univ[p])
     IN  diffFile' = IF rows = NoRows THEN diffFile ELSE rows
  /\ pc' = [pc EXCEPT ![p] = "update"]
  /\ UNCHANGED <<platform, disk, memory, deltaFile, scans>>

\* Store.Update up to its Save.
Update(p) ==
  /\ pc[p] = "update"
  /\ store' = [store EXCEPT ![p] = Updated(@, univ[p])]
  /\ saving' = [saving EXCEPT ![p] = "update"]
  /\ pc' = [pc EXCEPT ![p] = "open"]
  /\ UNCHANGED <<platform, disk, univ, unread, label, report, scans>>

\* Store.SaveVersion up to its Save: it runs whatever became of the first.
SaveVersion(p) ==
  /\ pc[p] = "version"
  /\ store' = [store EXCEPT ![p] = Versioned(@, label[p])]
  /\ saving' = [saving EXCEPT ![p] = "version"]
  /\ pc' = [pc EXCEPT ![p] = "open"]
  /\ UNCHANGED <<platform, disk, univ, unread, label, report, scans>>

-----------------------------------------------------------------------------
(* Store.Save *)

\* The process ends, one way or another, and its memory goes with it.
Exit(p) ==
  /\ univ' = [univ EXCEPT ![p] = NoScan]
  /\ store' = [store EXCEPT ![p] = EmptyStore]
  /\ unread' = [unread EXCEPT ![p] = FALSE]
  /\ label' = [label EXCEPT ![p] = None]
  /\ saving' = [saving EXCEPT ![p] = "update"]

\* Where a save that has returned leaves its caller: Update's error is logged
\* and SaveVersion runs next; after SaveVersion the run is over.  Once a store
\* is saved, the file is what the store was begun with and more.
AfterSave(p, saved) ==
  IF saving[p] = "update"
  THEN /\ pc' = [pc EXCEPT ![p] = "version"]
       /\ unread' = [unread EXCEPT ![p] = @ /\ ~saved]
       /\ UNCHANGED <<univ, store, label, saving>>
  ELSE /\ pc' = [pc EXCEPT ![p] = "idle"]
       /\ Exit(p)

\* A mutant of OpenTmp: the cache file itself is written in place.
OpenInPlace(p) ==
  /\ pc[p] = "open"
  /\ cacheFile' = Empty
  /\ tmpFile' = Empty
  /\ fd' = [fd EXCEPT ![p] = "cache"]
  /\ pc' = [pc EXCEPT ![p] = "write"]
  /\ UNCHANGED <<platform, lastTables, memory, report, scans>>

\* os.WriteFile's open: O_CREATE|O_TRUNC on F.tmp, which another process may
\* have open as well.
OpenTmp(p) ==
  /\ pc[p] = "open"
  /\ tmpFile' = Empty
  /\ fd' = [fd EXCEPT ![p] = "tmp"]
  /\ pc' = [pc EXCEPT ![p] = "write"]
  /\ UNCHANGED <<platform, cacheFile, lastTables, memory, report, scans>>

\* What a file holds once st is written from its start.  Another process's
\* bytes are overwritten as far as st reaches: what is left is st only if it
\* is not the shorter one.
Written(old, st) == IF old \in {Empty, st} THEN {st} ELSE {st, Garbled}

\* The write goes to the file p opened, under whatever name it has now.
WriteTmp(p) ==
  /\ pc[p] = "write"
  /\ \/ /\ fd[p] = "tmp"
        /\ tmpFile' \in Written(tmpFile, store[p])
        /\ UNCHANGED cacheFile
     \/ /\ fd[p] = "cache"
        /\ cacheFile' \in Written(cacheFile, store[p])
        /\ UNCHANGED tmpFile
     \/ /\ fd[p] = "gone"
        /\ UNCHANGED <<cacheFile, tmpFile>>
  /\ fd' = [fd EXCEPT ![p] = "none"]
  /\ pc' = [pc EXCEPT ![p] = IF platform = "windows" THEN "remove" ELSE "rename"]
  /\ UNCHANGED <<platform, lastTables, memory, report, scans>>

\* The write fails (a full disk) with the file as it was or half written, and
\* Save returns the error.
WriteFails(p) ==
  /\ pc[p] = "write"
  /\ fd[p] = "tmp"
  /\ tmpFile' \in {tmpFile, Garbled}
  /\ fd' = [fd EXCEPT ![p] = "none"]
  /\ AfterSave(p, FALSE)
  /\ UNCHANGED <<platform, cacheFile, lastTables, report, scans>>

RemoveTarget(p) ==
  /\ pc[p] = "remove"
  /\ cacheFile' = NoFile
  /\ fd' = [q \in Proc |-> IF fd[q] = "cache" THEN "gone" ELSE fd[q]]
  /\ pc' = [pc EXCEPT ![p] = "rename"]
  /\ UNCHANGED <<platform, tmpFile, lastTables, memory, report, scans>>

\* os.Rename(F.tmp, F).  If another process renamed it first there is no F.tmp
\* and Save returns the error.  A process that has F.tmp open goes on writing
\* to what is now F.
Rename(p) ==
  /\ pc[p] = "rename"
  /\ IF tmpFile = NoFile
     THEN UNCHANGED disk
     ELSE /\ cacheFile' = tmpFile
          /\ tmpFile' = NoFile
          /\ fd' = [q \in Proc |-> CASE fd[q] = "cache" -> "gone"
                                     [] fd[q] = "tmp" -> "cache"
                                     [] OTHER -> fd[q]]
          /\ lastTables' = Keys(univ[p])
  /\ AfterSave(p, tmpFile # NoFile)
  /\ UNCHANGED <<platform, report, scans>>

\* The process is killed; its open file is closed as it is.
Crash(p) ==
  /\ pc[p] # "idle"
  /\ pc' = [pc EXCEPT ![p] = "idle"]
  /\ fd' = [fd EXCEPT ![p] = "none"]
  /\ Exit(p)
  /\ UNCHANGED <<platform, cacheFile, tmpFile, lastTables, report, scans>>

-----------------------------------------------------------------------------

Save(p) == OpenTmp(p) \/ WriteTmp(p) \/ WriteFails(p) \/ RemoveTarget(p) \/ Rename(p)

Step(p) == \/ Scan(p) \/ Load(p) \/ LoadFails(p) \/ WriteDelta(p)
           \/ WriteDetail(p) \/ Update(p) \/ SaveVersion(p) \/ Save(p) \/ Crash(p)

Next == \E p \in Proc : Step(p)

Spec == Init /\ [][Next]_vars

-----------------------------------------------------------------------------
(* Properties *)

Whole(f) == f \notin {NoFile, Empty, Garbled}

TypeOK ==
  /\ platform \in {"posix", "windows"}
  /\ cacheFile \in Store \cup {NoFile, Empty, Garbled}
  /\ tmpFile \in Store \cup {NoFile, Empty, Garbled}
  /\ fd \in [Proc -> {"none", "tmp", "cache", "gone"}]
  /\ pc \in [Proc -> {"idle", "load", "delta", "detail", "update", "version",
                      "open", "write", "remove", "rename"}]
  /\ univ \in [Proc -> Universe]
  /\ store \in [Proc -> Store]
  /\ unread \in [Proc -> BOOLEAN]
  /\ label \in [Proc -> Label \cup {None}]
  /\ saving \in [Proc -> {"update", "version"}]
  /\ deltaFile \in Delta \cup {NoFile}
  /\ diffFile \in [Key -> Status \cup {None}]
  /\ scans \in 0 .. MaxScans
  /\ lastTables \in SUBSET Key

\* "Save persists the store to disk atomically": on a POSIX system no crash
\* and no failed write ever leaves a cache file that is cut short.
CacheAlwaysWhole == platform = "posix" => cacheFile \notin {Empty, Garbled}

Agree(entries, snaps) ==
  \A k \in Key : snaps[k] # None => entries[k] = Fp[snaps[k]]

Consistent(st) ==
  /\ Agree(st.entries, st.snaps)
  /\ \A v \in Label : st.versions[v] # None =>
       Agree(st.versions[v].fps, st.versions[v].snaps)

\* In the file, and in each of its versions, a table's fingerprint is the
\* fingerprint of its snapshot: the two maps Update and SaveVersion write one
\* after the other never come from different scans.  A v0.1.0 entry has no
\* snapshot.
SnapshotsAgree == Whole(cacheFile) => Consistent(cacheFile)

\* F_diff.json tells the same story as the F_delta.json of its run: the same
\* tables added and removed, and a row for each changed table.
ReportsAgree ==
  [][diffFile' # diffFile =>
       \A k \in Key :
         /\ k \in deltaFile.added <=> diffFile'[k] = "added"
         /\ k \in deltaFile.removed <=> diffFile'[k] = "removed"
         /\ k \in deltaFile.changed => diffFile'[k] \in {"changed", ""}]_vars

\* `diff --since v` on the cache file: a row "added" for exactly the tables the
\* version lacks, and a row for every table whose fingerprint has changed since.
\* The rows come from snapshots, the fingerprints from the maps beside them.
SinceReportsChanges ==
  Whole(cacheFile) =>
    \A v \in Label : cacheFile.versions[v] # None =>
      LET rows == DiffSince(cacheFile, v)
          past == cacheFile.versions[v].fps
          now  == cacheFile.entries
      IN  \A k \in Key :
            /\ rows[k] = "added" <=> past[k] = None /\ now[k] # None
            /\ past[k] # None /\ now[k] # None /\ past[k] # now[k] =>
                 rows[k] \in {"changed", ""}

\* When the second save of a run reaches the disk, the version it is labelled
\* with holds every table of the run's scan as the scan found it, whether or
\* not the first save succeeded.
VersionHoldsScan ==
  [][\A p \in Proc :
       (pc[p] = "rename" /\ saving[p] = "version" /\ cacheFile' # cacheFile) =>
         \A k \in Keys(univ[p]) :
           /\ cacheFile'.versions[label[p]].snaps[k] = univ[p][k]
           /\ cacheFile'.versions[label[p]].fps[k] = Fp[univ[p][k]]]_vars

\* The file as a history of scans.  On Windows, where Save removes the old
\* file first, nothing is promised: the mapping is constant there.
History == INSTANCE CacheHistory WITH
             file  <- IF platform = "posix" THEN Loaded(cacheFile) ELSE EmptyStore,
             blind <- platform = "posix" /\ \E p \in Proc : unread[p]

\* One process at a time: through crashes at any step and failed writes, the
\* file only ever gains whole scans and whole versions, and loses what it had
\* only to a run that could not read it.
ImplementsHistory == History!Spec

\* "Store persists fingerprints, snapshots, and version history across runs"
\* (cache.go:148): on a POSIX system a version that is in the file stays there.
VersionsPersist ==
  [][platform = "posix" /\ Whole(cacheFile) =>
       \A v \in Label :
         cacheFile.versions[v] # None =>
           Whole(cacheFile') /\ cacheFile'.versions[v] # None]_vars

\* What the comment of Delta says, "what changed between two scans": a table
\* is reported as removed only if the scan before this one had it.
DeltaBetweenScans ==
  [][deltaFile' # deltaFile =>
       deltaFile'.removed \subseteq lastTables]_vars

=============================================================================
