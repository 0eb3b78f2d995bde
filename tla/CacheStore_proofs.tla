------------------------- MODULE CacheStore_proofs -------------------------
(* What holds of the cache file for every number of processes, tables,
   schemas and labels; and, for one process at a time, what Save promises.  *)
EXTENDS CacheStore, TLAPS

-----------------------------------------------------------------------------
(* The operations on stores, as data. *)

\* The store of a missing or unreadable file is a store.
LEMMA EmptyStoreType == EmptyStore \in Store
  BY DEF EmptyStore, Store, Entries, Snapshots

\* A v0.1.0 file is a store, without snapshots or versions.
LEMMA LegacyStoreType ==
  ASSUME NEW e \in Entries
  PROVE  LegacyStore(e) \in Store
  BY DEF LegacyStore, EmptyStore, Store, Entries, Snapshots

\* The fingerprints of a scan are entries.
LEMMA ComputeUniverseType ==
  ASSUME NEW u \in Universe
  PROVE  ComputeUniverse(u) \in Entries
  BY FingerprintAssumption DEF ComputeUniverse, Universe, Entries

\* Update keeps a store a store.
LEMMA UpdatedType ==
  ASSUME NEW st \in Store, NEW u \in Universe
  PROVE  Updated(st, u) \in Store
  <1>1. OverwrittenBy(st.entries, ComputeUniverse(u)) \in Entries
    BY ComputeUniverseType DEF OverwrittenBy, Store, Entries
  <1>2. OverwrittenBy(st.snaps, u) \in Snapshots
    BY DEF OverwrittenBy, Store, Universe, Snapshots
  <1> QED
    BY <1>1, <1>2 DEF Updated, Store

\* SaveVersion keeps a store a store.
LEMMA VersionedType ==
  ASSUME NEW st \in Store, NEW v \in Label
  PROVE  Versioned(st, v) \in Store
  <1>1. [fps |-> st.entries, snaps |-> st.snaps] \in VersionEntry
    BY DEF VersionEntry, Store
  <1> QED
    BY <1>1 DEF Versioned, Store

\* A delta is three sets of tables.
LEMMA DiffType ==
  ASSUME NEW st \in Store, NEW u \in Universe
  PROVE  Diff(st, u) \in Delta
  BY ComputeUniverseType DEF Diff, Delta, Keys, Entries, Store

\* DiffUniverse gives each table a status or no row.
LEMMA DiffDetailedType ==
  ASSUME NEW st \in Store, NEW u \in Universe
  PROVE  DiffDetailed(st, u) \in [Key -> Status \cup {None}]
  BY DEF DiffDetailed, DiffUniverse, Status

\* What a load returns is a store, whatever the file holds.
LEMMA LoadedType ==
  ASSUME NEW f \in Store \cup {NoFile, Empty, Garbled}
  PROVE  Loaded(f) \in Store
  BY EmptyStoreType DEF Loaded

\* Update keeps fingerprints and snapshots consistent.
LEMMA UpdatedConsistent ==
  ASSUME NEW st \in Store, NEW u \in Universe, Consistent(st)
  PROVE  Consistent(Updated(st, u))
  <1>1. Agree(Updated(st, u).entries, Updated(st, u).snaps)
    BY FingerprintAssumption
    DEF Consistent, Agree, Updated, OverwrittenBy, ComputeUniverse, Store,
        Entries, Snapshots, Universe
  <1>2. Updated(st, u).versions = st.versions
    BY DEF Updated, Store
  <1> QED
    BY <1>1, <1>2 DEF Consistent

\* SaveVersion keeps fingerprints and snapshots consistent.
LEMMA VersionedConsistent ==
  ASSUME NEW st \in Store, NEW v \in Label, Consistent(st)
  PROVE  Consistent(Versioned(st, v))
  <1> DEFINE e == [fps |-> st.entries, snaps |-> st.snaps]
  <1>1. Versioned(st, v).entries = st.entries /\ Versioned(st, v).snaps = st.snaps
    BY DEF Versioned, Store
  <1>2. \A w \in Label : Versioned(st, v).versions[w] =
                           IF w = v THEN e ELSE st.versions[w]
    BY DEF Versioned, Store
  <1>3. Agree(e.fps, e.snaps)
    BY DEF Consistent
  <1> QED
    BY <1>1, <1>2, <1>3 DEF Consistent

\* A store without snapshots and versions is consistent.
LEMMA BareConsistent ==
  /\ Consistent(EmptyStore)
  /\ \A e \in Entries : Consistent(LegacyStore(e))
  BY DEF Consistent, Agree, EmptyStore, LegacyStore

-----------------------------------------------------------------------------
(* Type correctness. *)

LEMMA InitTypeOK == Init => TypeOK
  BY EmptyStoreType, LegacyStoreType, FileAssumption
  DEF Init, TypeOK, NoScan, NoRows, Universe

\* The memory of a process that ended has the type of a fresh one.
LEMMA ExitType ==
  ASSUME TypeOK, NEW p \in Proc, Exit(p)
  PROVE  /\ univ' \in [Proc -> Universe]
         /\ store' \in [Proc -> Store]
         /\ unread' \in [Proc -> BOOLEAN]
         /\ label' \in [Proc -> Label \cup {None}]
         /\ saving' \in [Proc -> {"update", "version"}]
  <1>1. NoScan \in Universe
    BY DEF NoScan, Universe
  <1> QED
    BY <1>1, EmptyStoreType DEF TypeOK, Exit

\* So has whatever a save that returned leaves behind.
LEMMA AfterSaveType ==
  ASSUME TypeOK, NEW p \in Proc, NEW saved \in BOOLEAN, AfterSave(p, saved)
  PROVE  /\ pc' \in [Proc -> {"idle", "load", "delta", "detail", "update",
                              "version", "open", "write", "remove", "rename"}]
         /\ univ' \in [Proc -> Universe]
         /\ store' \in [Proc -> Store]
         /\ unread' \in [Proc -> BOOLEAN]
         /\ label' \in [Proc -> Label \cup {None}]
         /\ saving' \in [Proc -> {"update", "version"}]
  <1>1. CASE saving[p] = "update"
    BY <1>1 DEF AfterSave, TypeOK, memory
  <1>2. CASE saving[p] # "update"
    BY <1>2, ExitType DEF AfterSave, TypeOK
  <1> QED
    BY <1>1, <1>2

\* The label is chosen before it is used.
LabelChosen == \A p \in Proc : pc[p] # "idle" => label[p] \in Label

LEMMA NextTypeOK ==
  ASSUME TypeOK, LabelChosen, [Next]_vars
  PROVE  TypeOK'
  <1>1. CASE UNCHANGED vars
    BY <1>1 DEF TypeOK, vars
  <1>2. ASSUME NEW p \in Proc, Step(p)
        PROVE  TypeOK'
    <2>1. CASE Scan(p)
      BY <2>1, FileAssumption DEF Scan, TypeOK, disk, report
    <2>2. CASE Load(p)
      BY <2>2, LoadedType DEF Load, TypeOK, disk, report
    <2>13. CASE LoadFails(p)
      BY <2>13, EmptyStoreType DEF LoadFails, TypeOK, disk, report
    <2>3. CASE WriteDelta(p)
      <3>1. Diff(store[p], univ[p]) \in Delta
        BY DiffType DEF TypeOK
      <3> QED
        BY <2>3, <3>1 DEF WriteDelta, TypeOK, disk, memory
    <2>4. CASE WriteDetail(p)
      <3>1. DiffDetailed(store[p], univ[p]) \in [Key -> Status \cup {None}]
        BY DiffDetailedType DEF TypeOK
      <3> QED
        BY <2>4, <3>1 DEF WriteDetail, TypeOK, disk, memory
    <2>5. CASE Update(p)
      <3>1. Updated(store[p], univ[p]) \in Store
        BY UpdatedType DEF TypeOK
      <3> QED
        BY <2>5, <3>1 DEF Update, TypeOK, disk, report
    <2>6. CASE SaveVersion(p)
      <3>1. Versioned(store[p], label[p]) \in Store
        BY <2>6, VersionedType DEF TypeOK, SaveVersion, LabelChosen
      <3> QED
        BY <2>6, <3>1 DEF SaveVersion, TypeOK, disk, report
    <2>7. CASE OpenTmp(p)
      BY <2>7 DEF OpenTmp, TypeOK, memory, report
    <2>8. CASE WriteTmp(p)
      BY <2>8 DEF WriteTmp, Written, TypeOK, memory, report
    <2>9. CASE WriteFails(p)
      BY <2>9, AfterSaveType DEF WriteFails, TypeOK, report
    <2>10. CASE RemoveTarget(p)
      BY <2>10 DEF RemoveTarget, TypeOK, memory, report
    <2>11. CASE Rename(p)
      <3>1. Keys(univ[p]) \in SUBSET Key
        BY DEF Keys, TypeOK, Universe
      <3>2. PICK saved \in BOOLEAN : AfterSave(p, saved)
        BY <2>11 DEF Rename, AfterSave
      <3> QED
        BY <2>11, <3>1, <3>2, AfterSaveType DEF Rename, TypeOK, disk, report
    <2>12. CASE Crash(p)
      BY <2>12, ExitType DEF Crash, TypeOK, report
    <2> QED
      BY <1>2, <2>1, <2>2, <2>3, <2>4, <2>5, <2>6, <2>7, <2>8, <2>9, <2>10,
         <2>11, <2>12, <2>13
      DEF Step, Save
  <1> QED
    BY <1>1, <1>2 DEF Next

LEMMA NextLabelChosen ==
  ASSUME TypeOK, LabelChosen, [Next]_vars
  PROVE  LabelChosen'
  <1>1. CASE UNCHANGED vars
    BY <1>1 DEF LabelChosen, vars
  <1>2. ASSUME NEW p \in Proc, Step(p)
        PROVE  LabelChosen'
    <2>1. CASE Scan(p)
      BY <2>1 DEF Scan, TypeOK, LabelChosen
    <2>2. CASE Load(p) \/ LoadFails(p) \/ WriteDelta(p) \/ WriteDetail(p)
                 \/ Update(p) \/ SaveVersion(p)
      BY <2>2 DEF Load, LoadFails, WriteDelta, WriteDetail, Update, SaveVersion, memory,
                  TypeOK, LabelChosen
    <2>3. CASE OpenTmp(p) \/ WriteTmp(p) \/ RemoveTarget(p)
      BY <2>3 DEF OpenTmp, WriteTmp, RemoveTarget, memory, TypeOK, LabelChosen
    <2>4. CASE WriteFails(p) \/ Rename(p)
      BY <2>4 DEF WriteFails, Rename, AfterSave, Exit, memory, TypeOK, LabelChosen
    <2>5. CASE Crash(p)
      BY <2>5 DEF Crash, Exit, TypeOK, LabelChosen
    <2> QED
      BY <1>2, <2>1, <2>2, <2>3, <2>4, <2>5 DEF Step, Save
  <1> QED
    BY <1>1, <1>2 DEF Next

\* Every variable keeps its type, for any number of processes on the file.
THEOREM TypeCorrect == Spec => []TypeOK
  <1>1. Init => TypeOK /\ LabelChosen
    BY InitTypeOK DEF Init, LabelChosen
  <1>2. TypeOK /\ LabelChosen /\ [Next]_vars => TypeOK' /\ LabelChosen'
    BY NextTypeOK, NextLabelChosen
  <1> QED
    BY <1>1, <1>2, PTL DEF Spec


-----------------------------------------------------------------------------
(* Fingerprints and snapshots.  SnapshotsAgree speaks of the cache file only;
   it holds because every store in memory and every whole temporary file is
   consistent as well.                                                      *)

ConsistentEverywhere ==
  /\ \A p \in Proc : Consistent(store[p])
  /\ Whole(cacheFile) => Consistent(cacheFile)
  /\ Whole(tmpFile) => Consistent(tmpFile)

LEMMA NextConsistent ==
  ASSUME TypeOK, LabelChosen, ConsistentEverywhere, [Next]_vars
  PROVE  ConsistentEverywhere'
  <1>1. CASE UNCHANGED vars
    BY <1>1 DEF ConsistentEverywhere, vars
  <1>2. ASSUME NEW p \in Proc, Step(p)
        PROVE  ConsistentEverywhere'
    <2> USE DEF ConsistentEverywhere
    <2>1. CASE Scan(p) \/ WriteDelta(p) \/ WriteDetail(p)
      BY <2>1 DEF Scan, WriteDelta, WriteDetail, disk, memory
    <2>2. CASE Load(p)
      <3>1. Consistent(Loaded(cacheFile))
        BY BareConsistent DEF Loaded, Whole
      <3> QED
        BY <2>2, <3>1 DEF Load, disk, TypeOK
    <2>10. CASE LoadFails(p)
      BY <2>10, BareConsistent DEF LoadFails, disk, TypeOK
    <2>3. CASE Update(p)
      <3>1. Consistent(Updated(store[p], univ[p]))
        BY UpdatedConsistent DEF TypeOK
      <3> QED
        BY <2>3, <3>1 DEF Update, disk, TypeOK
    <2>4. CASE SaveVersion(p)
      <3>1. Consistent(Versioned(store[p], label[p]))
        BY <2>4, VersionedConsistent DEF TypeOK, LabelChosen, SaveVersion
      <3> QED
        BY <2>4, <3>1 DEF SaveVersion, disk, TypeOK
    <2>5. CASE OpenTmp(p)
      BY <2>5 DEF OpenTmp, memory, Whole
    <2>6. CASE WriteTmp(p)
      BY <2>6 DEF WriteTmp, Written, memory, Whole
    <2>7. CASE WriteFails(p) \/ Rename(p)
      <3>1. \A q \in Proc : Consistent(store'[q])
        BY <2>7, BareConsistent DEF WriteFails, Rename, AfterSave, Exit, memory, TypeOK
      <3> QED
        BY <2>7, <3>1 DEF WriteFails, Rename, disk, Whole
    <2>8. CASE RemoveTarget(p)
      BY <2>8 DEF RemoveTarget, memory, Whole
    <2>9. CASE Crash(p)
      BY <2>9, BareConsistent DEF Crash, Exit, TypeOK
    <2> QED
      BY <1>2, <2>1, <2>2, <2>3, <2>4, <2>5, <2>6, <2>7, <2>8, <2>9, <2>10
      DEF Step, Save
  <1> QED
    BY <1>1, <1>2 DEF Next

\* A cache file that parses never pairs a fingerprint with another scan's
\* snapshot, however many processes write it and wherever they die.
THEOREM SnapshotsAlwaysAgree == Spec => []SnapshotsAgree
  <1>1. Init => TypeOK /\ LabelChosen /\ ConsistentEverywhere
    <2>1. Init => ConsistentEverywhere
      BY BareConsistent DEF Init, ConsistentEverywhere, Whole
    <2> QED
      BY <2>1, InitTypeOK DEF Init, LabelChosen
  <1>2. TypeOK /\ LabelChosen /\ ConsistentEverywhere /\ [Next]_vars
          => TypeOK' /\ LabelChosen' /\ ConsistentEverywhere'
    BY NextTypeOK, NextLabelChosen, NextConsistent
  <1>3. ConsistentEverywhere => SnapshotsAgree
    BY DEF ConsistentEverywhere, SnapshotsAgree
  <1> QED
    BY <1>1, <1>2, <1>3, PTL DEF Spec

-----------------------------------------------------------------------------
(* One process at a time on a POSIX system.  Alone is the inductive invariant:
   it follows the store of the one process from what it began with, the file or
   nothing, to the file it is about to rename.  Where the first save may have
   failed, the store may be ahead of the file by that scan.                 *)

OneProcess == \A p, q \in Proc : p = q

\* What p's store was begun with.
Begun(p) == IF unread[p] THEN EmptyStore ELSE Loaded(cacheFile)

\* What p's store is when it is labelled: the scan is in it, and also in the
\* file if the first save succeeded.
ScannedBy(p) == {Updated(Begun(p), univ[p])} \cup
                IF unread[p] THEN {} ELSE {Loaded(cacheFile)}

AloneAt(p) ==
  /\ fd[p] \in {"none", "tmp"}
  /\ fd[p] = "tmp" <=> pc[p] = "write"
  /\ pc[p] # "remove"
  /\ pc[p] \in {"idle", "load"} => ~unread[p]
  /\ pc[p] \in {"delta", "detail", "update"} => store[p] = Begun(p)
  /\ pc[p] = "version" => store[p] \in ScannedBy(p)
  /\ (pc[p] \in {"open", "write", "rename"} /\ saving[p] = "update") =>
       store[p] = Updated(Begun(p), univ[p])
  /\ (pc[p] \in {"open", "write", "rename"} /\ saving[p] = "version") =>
       store[p] \in {Versioned(st, label[p]) : st \in ScannedBy(p)}
  /\ pc[p] = "write" => tmpFile = Empty
  /\ pc[p] = "rename" => tmpFile = store[p]

Alone ==
  platform = "posix" => /\ cacheFile \notin {Empty, Garbled}
                        /\ \A p \in Proc : AloneAt(p)

\* A store is not one of the names for a file that is not whole.
LEMMA StoreIsWhole ==
  ASSUME NEW st \in Store
  PROVE  Loaded(st) = st /\ st \notin {NoFile, Empty, Garbled}
  BY FileAssumption DEF Loaded

LEMMA NextAlone ==
  ASSUME OneProcess, TypeOK, LabelChosen, Alone, [Next]_vars
  PROVE  Alone'
  <1> SUFFICES ASSUME platform' = "posix"
               PROVE  /\ cacheFile' \notin {Empty, Garbled}
                      /\ \A p \in Proc : AloneAt(p)'
    BY DEF Alone
  <1>1. CASE UNCHANGED vars
    BY <1>1 DEF Alone, AloneAt, Begun, ScannedBy, vars
  <1>2. ASSUME NEW p \in Proc, Step(p)
        PROVE  /\ cacheFile' \notin {Empty, Garbled}
               /\ AloneAt(p)'
    <2>1. platform = "posix" /\ AloneAt(p) /\ cacheFile \notin {Empty, Garbled}
      BY <1>2 DEF Alone, Step, Save, Scan, Load, LoadFails, WriteDelta, WriteDetail, Update,
                  SaveVersion, OpenTmp, WriteTmp, WriteFails, RemoveTarget,
                  Rename, Crash
    <2> USE <2>1 DEF AloneAt, Begun, ScannedBy
    <2>2. CASE Scan(p)
      BY <2>2 DEF Scan, TypeOK, disk
    <2>3. CASE Load(p)
      BY <2>3 DEF Load, TypeOK, disk
    <2>13. CASE LoadFails(p)
      BY <2>13 DEF LoadFails, TypeOK, disk
    <2>4. CASE WriteDelta(p) \/ WriteDetail(p)
      BY <2>4 DEF WriteDelta, WriteDetail, TypeOK, disk, memory
    <2>5. CASE Update(p)
      BY <2>5 DEF Update, TypeOK, disk
    <2>6. CASE SaveVersion(p)
      BY <2>6 DEF SaveVersion, TypeOK, disk
    <2>7. CASE OpenTmp(p)
      BY <2>7 DEF OpenTmp, TypeOK, memory
    <2>8. CASE WriteTmp(p)
      BY <2>8 DEF WriteTmp, Written, TypeOK, memory
    <2>9. CASE WriteFails(p)
      BY <2>9 DEF WriteFails, AfterSave, Exit, TypeOK, memory
    <2>10. CASE RemoveTarget(p)
      BY <2>10 DEF RemoveTarget
    <2>11. CASE Rename(p)
      <3>1. tmpFile = store[p] /\ store[p] \in Store
        BY <2>11 DEF Rename, TypeOK
      <3>2. cacheFile' = store[p] /\ Loaded(cacheFile') = store[p]
        BY <2>11, <3>1, StoreIsWhole DEF Rename
      <3> QED
        BY <2>11, <3>1, <3>2, StoreIsWhole DEF Rename, AfterSave, Exit, TypeOK, memory
    <2>12. CASE Crash(p)
      BY <2>12 DEF Crash, Exit, TypeOK
    <2> QED
      BY <1>2, <2>2, <2>3, <2>4, <2>5, <2>6, <2>7, <2>8, <2>9, <2>10, <2>11,
         <2>12, <2>13
      DEF Step, Save
  <1> QED
    BY <1>1, <1>2 DEF Next, OneProcess

LEMMA InitAlone == Init => Alone
  <1> SUFFICES ASSUME Init, platform = "posix"
               PROVE  /\ cacheFile \notin {Empty, Garbled}
                      /\ \A p \in Proc : AloneAt(p)
    BY DEF Alone
  <1>1. cacheFile \notin {Empty, Garbled}
    BY FileAssumption, LegacyStoreType DEF Init
  <1>2. \A p \in Proc : AloneAt(p)
    BY DEF Init, AloneAt
  <1> QED
    BY <1>1, <1>2

AloneInv == TypeOK /\ LabelChosen /\ Alone

LEMMA AloneInvariant == OneProcess => (Spec => []AloneInv)
  <1> SUFFICES ASSUME OneProcess
               PROVE  Spec => []AloneInv
    OBVIOUS
  <1>1. Init => AloneInv
    BY InitTypeOK, InitAlone DEF Init, LabelChosen, AloneInv
  <1>2. AloneInv /\ [Next]_vars => AloneInv'
    BY NextTypeOK, NextLabelChosen, NextAlone DEF AloneInv
  <1> QED
    BY <1>1, <1>2, PTL DEF Spec

\* With one process at a time no crash and no failed write leaves a cache file
\* that is cut short: the temporary file is whole before it takes the name.
THEOREM SaveIsAtomic == OneProcess => (Spec => []CacheAlwaysWhole)
  <1>1. AloneInv => CacheAlwaysWhole
    BY DEF AloneInv, Alone, CacheAlwaysWhole
  <1> QED
    BY <1>1, AloneInvariant, PTL

\* The operators History reaches through its own copy of Fingerprints.
LEMMA HistoryOperators ==
  /\ History!EmptyStore = EmptyStore
  /\ History!Universe = Universe
  /\ History!Entries = Entries
  /\ \A e : History!LegacyStore(e) = LegacyStore(e)
  /\ \A st, u : History!Updated(st, u) = Updated(st, u)
  /\ \A st, v : History!Versioned(st, v) = Versioned(st, v)
  <1>1. History!EmptyStore = EmptyStore
    BY DEF History!EmptyStore, EmptyStore
  <1>2. History!Universe = Universe /\ History!Entries = Entries
    BY DEF History!Universe, Universe, History!Entries, Entries
  <1>3. \A e : History!LegacyStore(e) = LegacyStore(e)
    BY <1>1 DEF History!LegacyStore, LegacyStore
  <1>4. \A st, u : History!Updated(st, u) = Updated(st, u)
    BY DEF History!Updated, Updated, History!OverwrittenBy, OverwrittenBy,
           History!ComputeUniverse, ComputeUniverse
  <1>5. \A st, v : History!Versioned(st, v) = Versioned(st, v)
    BY DEF History!Versioned, Versioned
  <1> QED
    BY <1>1, <1>2, <1>3, <1>4, <1>5

\* The history as the one process on a POSIX system sees it.
HistoryFile  == IF platform = "posix" THEN Loaded(cacheFile) ELSE EmptyStore
HistoryBlind == platform = "posix" /\ \E p \in Proc : unread[p]

\* The one process's own flag is the history's.
LEMMA BlindIsOwn ==
  ASSUME OneProcess, NEW p \in Proc
  PROVE  platform = "posix" => (HistoryBlind <=> unread[p])
  BY DEF OneProcess, HistoryBlind

\* A rename by the one process is a step of the history.
LEMMA RenameImplements ==
  ASSUME AloneInv, AloneInv', OneProcess, NEW p \in Proc, Rename(p),
         platform = "posix", tmpFile # NoFile
  PROVE  History!Next
  <1>1. /\ cacheFile' = store[p]
        /\ platform' = "posix"
        /\ store[p] \in Store
        /\ univ[p] \in Universe
        /\ label[p] \in Label
        /\ AloneAt(p)
        /\ pc[p] = "rename"
        /\ ~unread'[p]
    BY DEF Rename, AfterSave, Exit, AloneInv, Alone, AloneAt, TypeOK, LabelChosen
  <1>2. HistoryFile' = store[p] /\ HistoryFile = Loaded(cacheFile)
    BY <1>1, StoreIsWhole DEF HistoryFile
  <1>3. (HistoryBlind <=> unread[p]) /\ (HistoryBlind' <=> FALSE)
    BY <1>1, BlindIsOwn DEF OneProcess, HistoryBlind
  <1>4. (IF HistoryBlind THEN EmptyStore ELSE HistoryFile) = Begun(p)
    BY <1>2, <1>3 DEF Begun
  <1>5. HistoryBlind \in BOOLEAN /\ HistoryBlind' = FALSE
    BY <1>3 DEF HistoryBlind
  <1> PICK u \in Universe, v \in Label : u = univ[p] /\ v = label[p]
    BY <1>1
  <1>6. CASE saving[p] = "update"
    <2>1. store[p] = Updated(Begun(p), univ[p])
      BY <1>1, <1>6 DEF AloneAt
    <2>2. History!Record(u)
      BY <1>2, <1>4, <1>5, <2>1, HistoryOperators
      DEF History!Record, History!Known, HistoryFile, HistoryBlind
    <2> QED
      BY <2>2, HistoryOperators DEF History!Next
  <1>7. CASE saving[p] = "version"
    <2>1. \/ store[p] = Versioned(Updated(Begun(p), univ[p]), label[p])
          \/ ~unread[p] /\ store[p] = Versioned(Loaded(cacheFile), label[p])
      BY <1>1, <1>7 DEF AloneAt, ScannedBy
    <2>2. CASE store[p] = Versioned(Updated(Begun(p), univ[p]), label[p])
      <3>1. History!RecordAndTag(u, v)
        BY <1>2, <1>4, <1>5, <2>2, HistoryOperators
        DEF History!RecordAndTag, History!Known, HistoryFile, HistoryBlind
      <3> QED
        BY <1>1, <3>1, HistoryOperators DEF History!Next
    <2>3. CASE ~unread[p] /\ store[p] = Versioned(Loaded(cacheFile), label[p])
      <3>1. History!Tag(v)
        BY <1>2, <1>3, <1>5, <2>3, HistoryOperators
        DEF History!Tag, HistoryFile, HistoryBlind
      <3> QED
        BY <1>1, <3>1, HistoryOperators DEF History!Next
    <2> QED
      BY <2>1, <2>2, <2>3
  <1> QED
    BY <1>6, <1>7 DEF AloneInv, TypeOK

\* What does not touch the file leaves the history alone, or makes the process
\* blind or ends it.
LEMMA QuietStepImplements ==
  ASSUME platform' = platform, cacheFile' = cacheFile
  PROVE  [History!Next]_<<HistoryFile, HistoryBlind>>
  <1>1. HistoryFile' = HistoryFile
    BY DEF HistoryFile, Loaded
  <1>2. HistoryBlind \in BOOLEAN /\ HistoryBlind' \in BOOLEAN
    BY DEF HistoryBlind
  <1>3. CASE HistoryBlind' = HistoryBlind
    BY <1>1, <1>3
  <1>4. CASE HistoryBlind /\ ~HistoryBlind'
    <2>1. History!Restored
      BY <1>1, <1>2, <1>4 DEF History!Restored, HistoryFile, HistoryBlind
    <2> QED
      BY <2>1 DEF History!Next
  <1>5. CASE ~HistoryBlind /\ HistoryBlind'
    <2>1. History!Blinded
      BY <1>1, <1>2, <1>5 DEF History!Blinded, HistoryFile, HistoryBlind
    <2> QED
      BY <2>1 DEF History!Next
  <1> QED
    BY <1>2, <1>3, <1>4, <1>5

\* Each step is a step of the history of scans and versions, or none.
LEMMA StepImplements ==
  ASSUME AloneInv, AloneInv', [Next]_vars, OneProcess
  PROVE  [History!Next]_<<HistoryFile, HistoryBlind>>
  <1>1. platform' = platform
    BY DEF Next, Step, Save, Scan, Load, LoadFails, WriteDelta, WriteDetail, Update,
           SaveVersion, OpenTmp, WriteTmp, WriteFails, RemoveTarget, Rename,
           Crash, vars
  <1>2. CASE platform # "posix"
    BY <1>1, <1>2 DEF HistoryFile, HistoryBlind
  <1>3. CASE cacheFile' = cacheFile
    BY <1>1, <1>3, QuietStepImplements
  <1>4. ASSUME NEW p \in Proc, Step(p), platform = "posix"
        PROVE  \/ cacheFile' = cacheFile
               \/ Rename(p) /\ tmpFile # NoFile
    <2>1. AloneAt(p)
      BY <1>4 DEF AloneInv, Alone
    <2> QED
      BY <1>4, <2>1
      DEF AloneAt, Step, Save, Scan, Load, LoadFails, WriteDelta, WriteDetail,
          Update, SaveVersion, OpenTmp, WriteTmp, WriteFails, RemoveTarget,
          Rename, Crash, disk
  <1>5. ASSUME NEW p \in Proc, Step(p), platform = "posix"
        PROVE  [History!Next]_<<HistoryFile, HistoryBlind>>
    BY <1>3, <1>4, <1>5, RenameImplements
  <1>6. CASE UNCHANGED vars
    BY <1>3, <1>6 DEF vars
  <1> QED
    BY <1>2, <1>5, <1>6 DEF Next

\* With one process at a time the file is a history of whole scans and
\* versions, which only a run that could not read it begins again, for every
\* number of tables, schemas and labels.
THEOREM StoreImplementsHistory == OneProcess => (Spec => ImplementsHistory)
  <1> SUFFICES ASSUME OneProcess
               PROVE  Spec => History!Spec
    BY DEF ImplementsHistory
  <1>1. Init => History!Init
    <2>1. Init => HistoryBlind = FALSE
      BY DEF Init, HistoryBlind
    <2>2. Init => HistoryFile \in {EmptyStore} \cup {LegacyStore(e) : e \in Entries}
      BY StoreIsWhole, LegacyStoreType DEF Init, HistoryFile, Loaded
    <2> QED
      BY <2>1, <2>2, HistoryOperators DEF History!Init, HistoryFile, HistoryBlind
  <1>2. AloneInv /\ AloneInv' /\ [Next]_vars => [History!Next]_(History!vars)
    BY StepImplements DEF History!vars, HistoryFile, HistoryBlind
  <1> QED
    BY <1>1, <1>2, AloneInvariant, PTL DEF Spec, History!Spec

-----------------------------------------------------------------------------
(* What is reported.  The rows of F_diff.json come from the snapshots, those
   of F_delta.json from the fingerprints.  That a changed fingerprint shows as
   changed fields is a matter of the two functions: the hashes of cache.go are
   taken of names, types and lists that diff.go compares as well, as long as
   no two columns, indexes or foreign keys of a table have one name but for
   case, and no type is padded with blanks.                                 *)

FieldsTellFp == \A s, t \in Schema : Fields[s] = Fields[t] => Fp[s] = Fp[t]

\* The tables a comparison finds, whatever the snapshots say.
LEMMA DiffUniverseRows ==
  ASSUME NEW old, NEW new, NEW oldSnaps, NEW newSnaps, NEW k \in Key
  PROVE  /\ DiffUniverse(old, new, oldSnaps, newSnaps)[k] = "added"
              <=> k \in new /\ k \notin old
         /\ DiffUniverse(old, new, oldSnaps, newSnaps)[k] = "removed"
              <=> k \in old /\ k \notin new
  <1> DEFINE row == DiffUniverse(old, new, oldSnaps, newSnaps)[k]
  <1> USE FingerprintAssumption DEF Status, DiffUniverse
  <1>1. CASE k \in old /\ k \notin new
    <2>1. row = "removed"
      BY <1>1
    <2> QED
      BY <1>1, <2>1
  <1>2. CASE k \notin old /\ k \in new
    <2>1. row = "added"
      BY <1>2
    <2> QED
      BY <1>2, <2>1
  <1>3. CASE k \in old /\ k \in new
    <2>1. row \in {"changed", "", None}
      BY <1>3
    <2> QED
      BY <1>3, <2>1
  <1>4. CASE k \notin old /\ k \notin new
    <2>1. row = None
      BY <1>4
    <2> QED
      BY <1>4, <2>1
  <1> QED
    BY <1>1, <1>2, <1>3, <1>4

\* A table of both sides whose fingerprints differ has a row, when each side's
\* fingerprint is that of its snapshot.
LEMMA DiffUniverseChanged ==
  ASSUME NEW past \in Entries, NEW pastSnaps \in Snapshots, Agree(past, pastSnaps),
         NEW now \in Entries, NEW nowSnaps \in Snapshots, Agree(now, nowSnaps),
         NEW k \in Key, past[k] # None, now[k] # None, past[k] # now[k]
  PROVE  FieldsTellFp =>
           DiffUniverse(Keys(past), Keys(now), pastSnaps, nowSnaps)[k] \in {"changed", ""}
  <1> HAVE FieldsTellFp
  <1>1. k \in Keys(past) /\ k \in Keys(now)
    BY DEF Keys, Entries
  <1>2. CASE pastSnaps[k] = None \/ nowSnaps[k] = None
    BY <1>1, <1>2 DEF DiffUniverse
  <1>3. CASE pastSnaps[k] # None /\ nowSnaps[k] # None
    <2>1. pastSnaps[k] \in Schema /\ nowSnaps[k] \in Schema
      BY <1>3 DEF Snapshots
    <2>2. Fields[pastSnaps[k]] # Fields[nowSnaps[k]]
      BY <1>3, <2>1 DEF FieldsTellFp, Agree
    <2> QED
      BY <1>1, <1>3, <2>2 DEF DiffUniverse
  <1> QED
    BY <1>2, <1>3

\* `diff --since` misses no change of a table, on any file that parses, however
\* many processes have written it.
THEOREM SinceAlwaysReports == FieldsTellFp => (Spec => []SinceReportsChanges)
  <1> DEFINE Inv == TypeOK /\ LabelChosen /\ ConsistentEverywhere
  <1> SUFFICES ASSUME FieldsTellFp
               PROVE  Spec => []SinceReportsChanges
    OBVIOUS
  <1>1. Init => Inv
    <2>1. Init => ConsistentEverywhere
      BY BareConsistent DEF Init, ConsistentEverywhere, Whole
    <2> QED
      BY <2>1, InitTypeOK DEF Init, LabelChosen
  <1>2. Inv /\ [Next]_vars => Inv'
    BY NextTypeOK, NextLabelChosen, NextConsistent
  <1>3. Inv => SinceReportsChanges
    <2> SUFFICES ASSUME TypeOK, ConsistentEverywhere, Whole(cacheFile),
                        NEW v \in Label, cacheFile.versions[v] # None,
                        NEW k \in Key
                 PROVE  LET rows == DiffSince(cacheFile, v)
                            past == cacheFile.versions[v].fps
                            now  == cacheFile.entries
                        IN  /\ rows[k] = "added" <=> past[k] = None /\ now[k] # None
                            /\ past[k] # None /\ now[k] # None /\ past[k] # now[k] =>
                                 rows[k] \in {"changed", ""}
      BY DEF SinceReportsChanges
    <2>1. cacheFile \in Store /\ Consistent(cacheFile)
      BY DEF TypeOK, Whole, ConsistentEverywhere
    <2> DEFINE ver == cacheFile.versions[v]
    <2>2. ver \in VersionEntry /\ Agree(ver.fps, ver.snaps)
      BY <2>1 DEF Store, Consistent
    <2>3. /\ cacheFile.entries \in Entries /\ cacheFile.snaps \in Snapshots
          /\ ver.fps \in Entries /\ ver.snaps \in Snapshots
      BY <2>1, <2>2 DEF Store, VersionEntry
    <2>4. /\ k \in Keys(ver.fps) <=> ver.fps[k] # None
          /\ k \in Keys(cacheFile.entries) <=> cacheFile.entries[k] # None
      BY <2>3 DEF Keys, Entries
    <2>5. DiffSince(cacheFile, v)[k] = "added" <=>
            ver.fps[k] = None /\ cacheFile.entries[k] # None
      <3>1. DiffUniverse(Keys(ver.fps), Keys(cacheFile.entries),
                         ver.snaps, cacheFile.snaps)[k] = "added"
              <=> k \in Keys(cacheFile.entries) /\ k \notin Keys(ver.fps)
        BY DiffUniverseRows
      <3> QED
        BY <2>4, <3>1 DEF DiffSince
    <2>6. ASSUME ver.fps[k] # None, cacheFile.entries[k] # None,
                 ver.fps[k] # cacheFile.entries[k]
          PROVE  DiffSince(cacheFile, v)[k] \in {"changed", ""}
      <3>1. Agree(cacheFile.entries, cacheFile.snaps)
        BY <2>1 DEF Consistent
      <3>2. DiffUniverse(Keys(ver.fps), Keys(cacheFile.entries),
                         ver.snaps, cacheFile.snaps)[k] \in {"changed", ""}
        <4> HIDE DEF ver
        <4> QED
          BY <2>2, <2>3, <2>6, <3>1, DiffUniverseChanged
      <3> QED
        BY <3>2 DEF DiffSince
    <2> QED
      BY <2>5, <2>6
  <1> QED
    BY <1>1, <1>2, <1>3, PTL DEF Spec

-----------------------------------------------------------------------------
(* One run after another, on either platform. *)

\* Between its two reports a run holds the store that the first was made of.
DeltaIsOwn ==
  \A p \in Proc : pc[p] = "detail" => deltaFile = Diff(store[p], univ[p])

LEMMA NextDeltaIsOwn ==
  ASSUME OneProcess, TypeOK, DeltaIsOwn, [Next]_vars
  PROVE  DeltaIsOwn'
  <1>1. CASE UNCHANGED vars
    BY <1>1 DEF DeltaIsOwn, vars
  <1>2. ASSUME NEW p \in Proc, Step(p)
        PROVE  pc'[p] = "detail" => deltaFile' = Diff(store'[p], univ'[p])
    BY <1>2
    DEF TypeOK, Step, Save, Scan, Load, LoadFails, WriteDelta, WriteDetail, Update,
        SaveVersion, OpenTmp, WriteTmp, WriteFails, RemoveTarget, Rename,
        Crash, AfterSave, Exit, memory
  <1> QED
    BY <1>1, <1>2 DEF Next, OneProcess, DeltaIsOwn

\* The delta and the rows of one comparison say the same of every table.
LEMMA DetailedAgrees ==
  ASSUME FieldsTellFp, NEW st \in Store, NEW u \in Universe, Consistent(st),
         NEW k \in Key
  PROVE  LET d == Diff(st, u)
             row == DiffDetailed(st, u)[k]
         IN  /\ k \in d.added <=> row = "added"
             /\ k \in d.removed <=> row = "removed"
             /\ k \in d.changed => row \in {"changed", ""}
  <1> DEFINE fps == ComputeUniverse(u)
  <1>1. /\ k \in Keys(fps) <=> k \in Keys(u)
        /\ k \in Keys(u) <=> u[k] # None
        /\ k \in Keys(st.entries) <=> st.entries[k] # None
        /\ u \in Snapshots /\ st.snaps \in Snapshots
        /\ u[k] # None => fps[k] = Fp[u[k]]
    BY FingerprintAssumption
    DEF Keys, ComputeUniverse, Universe, Snapshots, Store, Entries
  <1>2. /\ k \in Diff(st, u).added <=> k \in Keys(fps) /\ k \notin Keys(st.entries)
        /\ k \in Diff(st, u).removed <=> k \in Keys(st.entries) /\ k \notin Keys(fps)
        /\ k \in Diff(st, u).changed <=>
             k \in Keys(fps) /\ k \in Keys(st.entries) /\ fps[k] # st.entries[k]
    BY DEF Diff
  <1>3. k \in Diff(st, u).changed => DiffDetailed(st, u)[k] \in {"changed", ""}
    <2>1. SUFFICES ASSUME k \in Diff(st, u).changed
                   PROVE  DiffDetailed(st, u)[k] \in {"changed", ""}
      OBVIOUS
    <2>2. Agree(st.entries, st.snaps) /\ Agree(fps, u)
      BY <1>1 DEF Consistent, Agree, ComputeUniverse
    <2>3. k \in Keys(st.entries) /\ k \in Keys(u) /\ st.entries[k] # fps[k]
      BY <1>1, <1>2, <2>1
    <2>4. fps \in Entries /\ st.entries \in Entries /\ fps[k] # None /\ st.entries[k] # None
      BY <1>1, <2>3, ComputeUniverseType DEF Store, Keys
    <2>5. DiffUniverse(Keys(st.entries), Keys(fps), st.snaps, u)[k] \in {"changed", ""}
      <3> HIDE DEF fps
      <3> QED
        BY <1>1, <2>2, <2>3, <2>4, DiffUniverseChanged
    <2>6. Keys(fps) = Keys(u)
      <3>1. DOMAIN fps = Key /\ DOMAIN u = Key
        BY DEF ComputeUniverse, Universe
      <3>2. \A x \in Key : fps[x] # None <=> u[x] # None
        BY FingerprintAssumption DEF ComputeUniverse, Universe
      <3> QED
        BY <3>1, <3>2 DEF Keys
    <2> QED
      BY <2>5, <2>6 DEF DiffDetailed
  <1>4. /\ DiffDetailed(st, u)[k] = "added"
              <=> k \in Keys(u) /\ k \notin Keys(st.entries)
        /\ DiffDetailed(st, u)[k] = "removed"
              <=> k \in Keys(st.entries) /\ k \notin Keys(u)
    BY DiffUniverseRows DEF DiffDetailed
  <1> QED
    BY <1>1, <1>2, <1>3, <1>4

\* With one process at a time the two files a run writes tell the same story,
\* for every number of tables and schemas.
THEOREM ReportsAlwaysAgree == (OneProcess /\ FieldsTellFp) => (Spec => ReportsAgree)
  <1> DEFINE Inv == TypeOK /\ LabelChosen /\ ConsistentEverywhere /\ DeltaIsOwn
             Told == diffFile' # diffFile =>
                       \A k \in Key :
                         /\ k \in deltaFile.added <=> diffFile'[k] = "added"
                         /\ k \in deltaFile.removed <=> diffFile'[k] = "removed"
                         /\ k \in deltaFile.changed => diffFile'[k] \in {"changed", ""}
  <1> SUFFICES ASSUME OneProcess, FieldsTellFp
               PROVE  Spec => ReportsAgree
    OBVIOUS
  <1>1. Init => Inv
    <2>1. Init => ConsistentEverywhere
      BY BareConsistent DEF Init, ConsistentEverywhere, Whole
    <2> QED
      BY <2>1, InitTypeOK DEF Init, LabelChosen, DeltaIsOwn
  <1>2. Inv /\ [Next]_vars => Inv'
    BY NextTypeOK, NextLabelChosen, NextConsistent, NextDeltaIsOwn
  <1>3. Inv /\ [Next]_vars => [Told]_vars
    <2> SUFFICES ASSUME Inv, [Next]_vars, diffFile' # diffFile, NEW k \in Key
                 PROVE  /\ k \in deltaFile.added <=> diffFile'[k] = "added"
                        /\ k \in deltaFile.removed <=> diffFile'[k] = "removed"
                        /\ k \in deltaFile.changed => diffFile'[k] \in {"changed", ""}
      OBVIOUS
    <2>1. PICK p \in Proc : WriteDetail(p)
      BY DEF vars, Next, Step, Save, Scan, Load, LoadFails, WriteDelta, Update,
             SaveVersion, OpenTmp, WriteTmp, WriteFails, RemoveTarget, Rename,
             Crash, report
    <2>2. /\ deltaFile = Diff(store[p], univ[p])
          /\ diffFile' = DiffDetailed(store[p], univ[p])
          /\ store[p] \in Store /\ univ[p] \in Universe
          /\ Consistent(store[p])
      BY <2>1 DEF WriteDetail, DeltaIsOwn, ConsistentEverywhere, TypeOK
    <2> QED
      BY <2>2, DetailedAgrees
  <1> QED
    BY <1>1, <1>2, <1>3, PTL DEF Spec, ReportsAgree

-----------------------------------------------------------------------------
(* The version a run saves.  From Update on, the store of the process holds
   the scan, and the second save publishes that store.                      *)

HoldsScan(st, u) ==
  \A k \in Keys(u) : st.snaps[k] = u[k] /\ st.entries[k] = Fp[u[k]]

CarriesAt(p) ==
  /\ fd[p] = IF pc[p] = "write" THEN "tmp" ELSE "none"
  /\ pc[p] \in {"version", "open", "write", "remove", "rename"} =>
       HoldsScan(store[p], univ[p])
  /\ (pc[p] \in {"open", "write", "remove", "rename"} /\ saving[p] = "version") =>
       store[p].versions[label[p]] = [fps |-> store[p].entries, snaps |-> store[p].snaps]
  /\ pc[p] = "write" => tmpFile = Empty
  /\ pc[p] \in {"remove", "rename"} => tmpFile = store[p]

Carries == \A p \in Proc : CarriesAt(p)

LEMMA UpdatedHoldsScan ==
  ASSUME NEW st \in Store, NEW u \in Universe
  PROVE  HoldsScan(Updated(st, u), u)
  BY FingerprintAssumption
  DEF HoldsScan, Updated, OverwrittenBy, ComputeUniverse, Keys, Store, Universe

LEMMA VersionedHoldsScan ==
  ASSUME NEW st \in Store, NEW v \in Label, NEW u, HoldsScan(st, u)
  PROVE  LET new == Versioned(st, v)
         IN  /\ HoldsScan(new, u)
             /\ new.versions[v] = [fps |-> new.entries, snaps |-> new.snaps]
  <1>1. /\ Versioned(st, v).entries = st.entries
        /\ Versioned(st, v).snaps = st.snaps
        /\ Versioned(st, v).versions[v] = [fps |-> st.entries, snaps |-> st.snaps]
    BY DEF Versioned, Store
  <1> QED
    BY <1>1 DEF HoldsScan

LEMMA NextCarries ==
  ASSUME OneProcess, TypeOK, LabelChosen, Carries, [Next]_vars
  PROVE  Carries'
  <1>1. CASE UNCHANGED vars
    BY <1>1 DEF Carries, CarriesAt, vars
  <1>2. ASSUME NEW p \in Proc, Step(p)
        PROVE  CarriesAt(p)'
    <2> USE DEF CarriesAt, TypeOK
    <2>1. CarriesAt(p)
      BY DEF Carries
    <2>2. CASE Scan(p) \/ Load(p) \/ LoadFails(p) \/ WriteDelta(p) \/ WriteDetail(p)
      BY <2>1, <2>2 DEF Scan, Load, LoadFails, WriteDelta, WriteDetail, disk, memory
    <2>3. CASE Update(p)
      <3>1. HoldsScan(Updated(store[p], univ[p]), univ[p])
        BY UpdatedHoldsScan
      <3> QED
        BY <2>1, <2>3, <3>1 DEF Update, disk
    <2>4. CASE SaveVersion(p)
      <3> DEFINE st == Versioned(store[p], label[p])
      <3>1. store[p] \in Store /\ label[p] \in Label /\ HoldsScan(store[p], univ[p])
        BY <2>1, <2>4 DEF SaveVersion, LabelChosen
      <3>2. /\ HoldsScan(st, univ[p])
            /\ st.versions[label[p]] = [fps |-> st.entries, snaps |-> st.snaps]
        BY <3>1, VersionedHoldsScan
      <3> HIDE DEF st
      <3>3. store'[p] = st
        BY <2>4 DEF SaveVersion, st
      <3> QED
        BY <2>1, <2>4, <3>2, <3>3 DEF SaveVersion, disk
    <2>5. CASE OpenTmp(p)
      BY <2>1, <2>5 DEF OpenTmp, memory
    <2>6. CASE WriteTmp(p)
      BY <2>1, <2>6 DEF WriteTmp, Written, memory
    <2>7. CASE WriteFails(p)
      BY <2>1, <2>7 DEF WriteFails, AfterSave, Exit, memory
    <2>8. CASE RemoveTarget(p)
      BY <2>1, <2>8 DEF RemoveTarget, memory
    <2>9. CASE Rename(p)
      BY <2>1, <2>9 DEF Rename, AfterSave, Exit, disk, memory
    <2>10. CASE Crash(p)
      BY <2>1, <2>10 DEF Crash, Exit
    <2> QED
      BY <1>2, <2>2, <2>3, <2>4, <2>5, <2>6, <2>7, <2>8, <2>9, <2>10 DEF Step, Save
  <1> QED
    BY <1>1, <1>2 DEF Next, OneProcess, Carries

\* With one process at a time a version that reaches the disk holds all of the
\* scan it is made of, on either platform and whatever became of the first save.
THEOREM VersionAlwaysHoldsScan == OneProcess => (Spec => VersionHoldsScan)
  <1> DEFINE Inv == TypeOK /\ LabelChosen /\ Carries
             Held == \A p \in Proc :
                       (pc[p] = "rename" /\ saving[p] = "version" /\ cacheFile' # cacheFile) =>
                         \A k \in Keys(univ[p]) :
                           /\ cacheFile'.versions[label[p]].snaps[k] = univ[p][k]
                           /\ cacheFile'.versions[label[p]].fps[k] = Fp[univ[p][k]]
  <1> SUFFICES ASSUME OneProcess
               PROVE  Spec => VersionHoldsScan
    OBVIOUS
  <1>1. Init => Inv
    BY InitTypeOK DEF Init, LabelChosen, Carries, CarriesAt
  <1>2. Inv /\ [Next]_vars => Inv'
    BY NextTypeOK, NextLabelChosen, NextCarries
  <1>3. Inv /\ [Next]_vars => [Held]_vars
    <2> SUFFICES ASSUME Inv, [Next]_vars, NEW p \in Proc, pc[p] = "rename",
                        saving[p] = "version", cacheFile' # cacheFile,
                        NEW k \in Keys(univ[p])
                 PROVE  /\ cacheFile'.versions[label[p]].snaps[k] = univ[p][k]
                        /\ cacheFile'.versions[label[p]].fps[k] = Fp[univ[p][k]]
      OBVIOUS
    <2>1. Rename(p)
      <3>1. Step(p)
        BY DEF vars, Next, OneProcess
      <3> QED
        BY <3>1 DEF Step, Save, Scan, Load, LoadFails, WriteDelta, WriteDetail, Update,
                    SaveVersion, OpenTmp, WriteTmp, WriteFails, RemoveTarget,
                    Crash
    <2>2. cacheFile' = store[p] /\ CarriesAt(p)
      BY <2>1 DEF Rename, disk, Carries, CarriesAt
    <2>3. /\ store[p].versions[label[p]] = [fps |-> store[p].entries, snaps |-> store[p].snaps]
          /\ HoldsScan(store[p], univ[p])
      BY <2>1, <2>2 DEF CarriesAt
    <2> QED
      BY <2>2, <2>3 DEF HoldsScan
  <1> QED
    BY <1>1, <1>2, <1>3, PTL DEF Spec, VersionHoldsScan

=============================================================================
