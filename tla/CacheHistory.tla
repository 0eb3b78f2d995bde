---------------------------- MODULE CacheHistory ----------------------------
(* What a fingerprint cache promises to the one process at a time that uses
   it: a value that only ever changes, in one step, by recording a whole scan,
   by labelling its current state as a version, or by both.  What was recorded
   is kept, whatever happens to the process in between, unless the process
   could not read it: such a process is blind until it ends or saves, and what
   it saves is a history that begins with its own scan.                      *)
EXTENDS Fingerprints

VARIABLES file, blind

vars == <<file, blind>>

Init ==
  /\ file \in {EmptyStore} \cup {LegacyStore(e) : e \in Entries}
  /\ blind = FALSE

\* The value cannot be read; a blind process ends without having saved.
Blinded  == ~blind /\ blind' = TRUE /\ UNCHANGED file
Restored == blind /\ blind' = FALSE /\ UNCHANGED file

\* What the process knows of the value.
Known == IF blind THEN EmptyStore ELSE file

Record(u) ==
  /\ file' = Updated(Known, u)
  /\ blind' = FALSE

\* A blind process has recorded its scan by the time it labels.
Tag(v) ==
  /\ ~blind
  /\ file' = Versioned(file, v)
  /\ UNCHANGED blind

RecordAndTag(u, v) ==
  /\ file' = Versioned(Updated(Known, u), v)
  /\ blind' = FALSE

Next == \/ Blinded \/ Restored
        \/ \E u \in Universe : Record(u)
        \/ \E v \in Label : Tag(v)
        \/ \E u \in Universe, v \in Label : RecordAndTag(u, v)

Spec == Init /\ [][Next]_vars

=============================================================================
