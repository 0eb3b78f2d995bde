-------------------------- MODULE QueryExec_proofs --------------------------
(* What holds of the query pipeline for every number of processes, sources
   and statements.                                                          *)
EXTENDS QueryExec, FiniteSetTheorems, TLAPS

-----------------------------------------------------------------------------
(* Type correctness.  The number of a pipeline stays in its range because a
   statement sets aside as many numbers as it has sources.                  *)

IdBound == \A p \in Proc : cur[p].id + Cardinality(todo[p]) <= MaxPipelines

\* A set of sources is finite, and reading one leaves one less.
LEMMA SourcesLeft ==
  ASSUME NEW S \in SUBSET Source
  PROVE  /\ Cardinality(S) \in Nat
         /\ \A s \in S : Cardinality(S \ {s}) = Cardinality(S) - 1
         /\ S # {} => Cardinality(S) > 0
         /\ Cardinality({}) = 0
  <1>1. IsFiniteSet(S)
    BY ExecAssumption, FS_Subset
  <1>2. Cardinality(S) \in Nat
    BY <1>1, FS_CardinalityType
  <1>3. \A s \in S : Cardinality(S \ {s}) = Cardinality(S) - 1
    BY <1>1, FS_RemoveElement
  <1>4. Cardinality({}) = 0 /\ (Cardinality(S) = 0 <=> S = {})
    BY <1>1, FS_EmptySet
  <1> QED
    BY <1>2, <1>3, <1>4

\* Every error leaves the process idle or ended, with no source to read.
LEMMA FailType ==
  ASSUME TypeOK, NEW p \in Proc,
         NEW why \in {"rejected", "NO_CONNECTOR", "CONCURRENT_LIMIT",
                      "QUERY_NOT_SUPPORTED", "QUERY_ERROR", "QUERY_TIMEOUT"},
         Fail(p, why) \/ Exit(p, why)
  PROVE  /\ pc' \in [Proc -> {"idle", "next", "check", "locked", "select", "exited"}]
         /\ todo' \in [Proc -> SUBSET Source]
         /\ gathered' \in [Proc -> SUBSET Task]
         /\ tasks' \subseteq Task
         /\ answers' \subseteq Answer
         /\ verdict' \in [Proc -> {"none", "printed", "rejected", "NO_CONNECTOR",
                                   "CONCURRENT_LIMIT", "QUERY_NOT_SUPPORTED",
                                   "QUERY_ERROR", "QUERY_TIMEOUT"}]
         /\ todo' = [todo EXCEPT ![p] = {}]
         /\ gathered' = [gathered EXCEPT ![p] = {}]
         /\ verdict' = [verdict EXCEPT ![p] = why]
         /\ pc' \in {[pc EXCEPT ![p] = "idle"], [pc EXCEPT ![p] = "exited"]}
         /\ p \notin Repl => pc' = [pc EXCEPT ![p] = "exited"]
  <1>1. CASE Exit(p, why)
    BY <1>1 DEF Exit, Error, TypeOK
  <1>2. CASE Fail(p, why) /\ p \in Repl
    BY <1>2 DEF Fail, Error, TypeOK
  <1> QED
    BY <1>1, <1>2 DEF Fail

\* The label of a source is a label.
LEMMA LabelOfSource == \A t \in Task : t.src \in Source /\ t.src.label \in Label
  BY ExecAssumption DEF Task

LEMMA InitTypeOK == Init => TypeOK /\ IdBound
  <1> SUFFICES ASSUME Init PROVE TypeOK /\ IdBound
    OBVIOUS
  <1>1. \A p \in Proc : NoTask(p) \in Task /\ NoTask(p).id = 0
    BY ExecAssumption DEF NoTask, Task
  <1>2. TypeOK
    BY <1>1, ExecAssumption DEF Init, TypeOK
  <1>3. IdBound
    BY <1>1, SourcesLeft, ExecAssumption DEF Init, IdBound
  <1> QED
    BY <1>2, <1>3

LEMMA NextTypeOK ==
  ASSUME TypeOK, IdBound, [Next]_vars
  PROVE  TypeOK' /\ IdBound'
  <1> USE DEF TypeOK
  <1>1. CASE UNCHANGED vars
    BY <1>1 DEF vars, IdBound
  <1>2. ASSUME NEW p \in Proc, Begin(p)
        PROVE  TypeOK' /\ IdBound'
    <2>1. PICK S \in Plans : /\ cur[p].id + Cardinality(S) <= MaxPipelines
                             /\ stmt' = [stmt EXCEPT ![p] = S]
                             /\ todo' = [todo EXCEPT ![p] = S]
      BY <1>2 DEF Begin
    <2>2. S \subseteq Source
      BY <2>1 DEF Plans
    <2>3. since' \in [Proc -> 0 .. MaxPipelines]
      BY <1>2 DEF Begin, Task
    <2>4. TypeOK'
      BY <1>2, <2>1, <2>2, <2>3 DEF Begin
    <2> QED
      BY <1>2, <2>1, <2>4 DEF Begin, IdBound
  <1>3. ASSUME NEW p \in Proc, NextSource(p) \/ ReadFile(p)
        PROVE  TypeOK' /\ IdBound'
    <2>1. PICK s \in todo[p] :
            /\ cur' = [cur EXCEPT ![p] = [proc |-> p, id |-> cur[p].id + 1, src |-> s]]
            /\ todo' = [todo EXCEPT ![p] = @ \ {s}]
            /\ \/ gathered' = gathered
               \/ gathered' = [gathered EXCEPT ![p] =
                     @ \cup {[proc |-> p, id |-> cur[p].id + 1, src |-> s]}]
      BY <1>3 DEF NextSource, ReadFile
    <2> DEFINE t == [proc |-> p, id |-> cur[p].id + 1, src |-> s]
    <2>2. /\ Cardinality(todo[p]) \in Nat
          /\ Cardinality(todo[p] \ {s}) = Cardinality(todo[p]) - 1
          /\ Cardinality(todo[p]) > 0
      BY SourcesLeft
    <2>3. cur[p].id \in Nat /\ cur[p].id + Cardinality(todo[p]) <= MaxPipelines
      BY DEF IdBound, Task
    <2>4. t \in Task
      BY <2>2, <2>3, ExecAssumption DEF Task
    <2>5. TypeOK'
      BY <1>3, <2>1, <2>4 DEF NextSource, ReadFile
    <2>6. /\ cur'[p].id = cur[p].id + 1
          /\ todo'[p] = todo[p] \ {s}
          /\ \A q \in Proc \ {p} : cur'[q] = cur[q] /\ todo'[q] = todo[q]
      BY <2>1
    <2>7. cur'[p].id + Cardinality(todo'[p]) <= MaxPipelines
      BY <2>2, <2>3, <2>6
    <2>8. IdBound'
      BY <2>6, <2>7 DEF IdBound
    <2> QED
      BY <2>5, <2>8
  <1>4. ASSUME NEW p \in Proc,
               \/ NoConnector(p) \/ FileFails(p) \/ Reject(p) \/ Unsupported(p)
               \/ ReceiveError(p) \/ Timeout(p) \/ JoinFails(p)
               \/ (Lock(p) /\ Fail(p, "CONCURRENT_LIMIT") /\ UNCHANGED held)
        PROVE  TypeOK' /\ IdBound'
    <2>1. \E why \in {"rejected", "NO_CONNECTOR", "CONCURRENT_LIMIT",
                      "QUERY_NOT_SUPPORTED", "QUERY_ERROR", "QUERY_TIMEOUT"} :
            Fail(p, why) \/ Exit(p, why)
      BY <1>4 DEF NoConnector, FileFails, Reject, Unsupported, ReceiveError,
                  Timeout, JoinFails
    <2>2. UNCHANGED <<stmt, since, cur>> /\ (UNCHANGED held \/ Release(p))
      BY <1>4 DEF NoConnector, FileFails, Reject, Unsupported, ReceiveError,
                  Timeout, JoinFails, Lock
    <2>3. held' \in [Proc -> SUBSET Label]
      BY <2>2 DEF Release
    <2>4. /\ TypeOK'
          /\ todo' = [todo EXCEPT ![p] = {}]
      BY <2>1, <2>2, <2>3, FailType
    <2>5. \A q \in Proc : cur[q].id \in Nat /\ Cardinality(todo[q]) \in Nat
      BY SourcesLeft DEF Task
    <2>6. IdBound'
      BY <2>2, <2>4, <2>5, SourcesLeft, ExecAssumption DEF IdBound
    <2> QED
      BY <2>4, <2>6
  <1>5. ASSUME NEW p \in Proc, Lock(p), ~Fail(p, "CONCURRENT_LIMIT")
        PROVE  TypeOK' /\ IdBound'
    BY <1>5, LabelOfSource DEF Lock, IdBound
  <1>6. ASSUME NEW p \in Proc, Spawn(p)
        PROVE  TypeOK' /\ IdBound'
    BY <1>6 DEF Spawn, IdBound
  <1>7. ASSUME NEW p \in Proc, Receive(p)
        PROVE  TypeOK' /\ IdBound'
    <2>1. \A a \in Inbox(p) : a.task \in Task
      BY DEF Inbox, Answer
    <2> QED
      BY <1>7, <2>1 DEF Receive, Release, IdBound
  <1>8. ASSUME NEW p \in Proc, Finish(p)
        PROVE  TypeOK' /\ IdBound'
    BY <1>8 DEF Finish, IdBound
  <1>9. ASSUME NEW t \in tasks, TaskEnds(t)
        PROVE  TypeOK' /\ IdBound'
    BY <1>9 DEF TaskEnds, Answer, IdBound
  <1>10. ASSUME NEW p \in Proc, Lock(p), Fail(p, "CONCURRENT_LIMIT")
         PROVE  TypeOK' /\ IdBound'
    <2>1. CASE UNCHANGED held
      BY <1>4, <1>10, <2>1
    <2>2. CASE held' # held
      BY <1>10, <2>2, LabelOfSource DEF Lock, IdBound
    <2> QED
      BY <2>1, <2>2
  <1> QED
    BY <1>1, <1>2, <1>3, <1>4, <1>5, <1>6, <1>7, <1>8, <1>9, <1>10
    DEF Next, Pipeline

\* Every variable of the pipeline keeps its type; in particular what a
\* statement has gathered are tasks, never the raw answers of the channels.
THEOREM TypeCorrect == Spec => []TypeOK
  <1>1. Spec => [](TypeOK /\ IdBound)
    BY InitTypeOK, NextTypeOK, PTL DEF Spec
  <1> QED
    BY <1>1, PTL

-----------------------------------------------------------------------------
(* A statement is never refused by its own lock: what a process holds is the
   label of the pipeline it is in, from Lock to the way out, and nothing else. *)

HeldIsOwn ==
  \A p \in Proc :
    held[p] = IF p \notin Repl /\ pc[p] \in {"locked", "select"}
              THEN {cur[p].src.label} ELSE {}

LEMMA InitHeld == Init => HeldIsOwn /\ NeverRefused
  BY DEF Init, HeldIsOwn, NeverRefused

LEMMA NextHeld ==
  ASSUME TypeOK, HeldIsOwn, NeverRefused, [Next]_vars
  PROVE  HeldIsOwn' /\ NeverRefused'
  <1> USE DEF HeldIsOwn, NeverRefused
  <1>1. CASE UNCHANGED vars
    BY <1>1 DEF vars
  <1>2. ASSUME NEW p \in Proc, Begin(p) \/ ReadFile(p) \/ Finish(p)
        PROVE  HeldIsOwn' /\ NeverRefused'
    <2>1. /\ \/ UNCHANGED pc /\ pc[p] = "next"
             \/ pc' \in {[pc EXCEPT ![p] = q] : q \in {"next", "idle", "exited"}}
          /\ pc[p] \in {"idle", "next"}
          /\ UNCHANGED held
          /\ \A q \in Proc \ {p} : cur'[q] = cur[q]
          /\ verdict' \in {verdict, [verdict EXCEPT ![p] = "none"],
                          [verdict EXCEPT ![p] = "printed"]}
      BY <1>2 DEF TypeOK, Begin, ReadFile, Finish
    <2> QED
      BY <2>1 DEF TypeOK
  <1>3. ASSUME NEW p \in Proc, NextSource(p) \/ Spawn(p)
        PROVE  HeldIsOwn' /\ NeverRefused'
    BY <1>3 DEF TypeOK, NextSource, Spawn
  <1>4. ASSUME NEW p \in Proc, Receive(p)
        PROVE  HeldIsOwn' /\ NeverRefused'
    <2>1. held[p] \ {cur[p].src.label} = {}
      OBVIOUS
    <2> QED
      BY <1>4, <2>1 DEF TypeOK, Receive, Release
  <1>5. ASSUME NEW p \in Proc, Lock(p)
        PROVE  HeldIsOwn' /\ NeverRefused'
    <2>1. held[p] = {} /\ cur[p].src.label \notin held[p]
      BY <1>5 DEF Lock
    <2>2. /\ pc' = [pc EXCEPT ![p] = "locked"]
          /\ UNCHANGED <<cur, verdict>>
          /\ held' = IF p \in Repl THEN held
                     ELSE [held EXCEPT ![p] = {cur[p].src.label}]
      BY <1>5, <2>1 DEF Lock
    <2> QED
      BY <2>1, <2>2 DEF TypeOK
  <1>6. ASSUME NEW p \in Proc,
               \/ NoConnector(p) \/ FileFails(p) \/ Reject(p) \/ Unsupported(p)
               \/ ReceiveError(p) \/ Timeout(p) \/ JoinFails(p)
        PROVE  HeldIsOwn' /\ NeverRefused'
    <2>1. \E why \in {"rejected", "NO_CONNECTOR", "QUERY_NOT_SUPPORTED",
                      "QUERY_ERROR", "QUERY_TIMEOUT"} :
            Fail(p, why) \/ Exit(p, why)
      BY <1>6 DEF NoConnector, FileFails, Reject, Unsupported, ReceiveError,
                  Timeout, JoinFails
    <2>2. /\ pc' \in {[pc EXCEPT ![p] = "idle"], [pc EXCEPT ![p] = "exited"]}
          /\ \E why \in {"rejected", "NO_CONNECTOR", "QUERY_NOT_SUPPORTED",
                         "QUERY_ERROR", "QUERY_TIMEOUT"} :
               verdict' = [verdict EXCEPT ![p] = why]
      BY <2>1, FailType
    <2>3. cur' = cur /\ held' = [held EXCEPT ![p] = {}]
      <3>1. held[p] \ {cur[p].src.label} = {}
        OBVIOUS
      <3>2. CASE UNCHANGED held /\ pc[p] \in {"next", "check"}
        BY <1>6, <3>2 DEF TypeOK, NoConnector, FileFails, Reject, Unsupported,
                          ReceiveError, Timeout, JoinFails
      <3>3. CASE Release(p)
        BY <1>6, <3>1, <3>3 DEF Release, NoConnector, FileFails, Reject,
                                Unsupported, ReceiveError, Timeout, JoinFails
      <3> QED
        BY <1>6, <3>2, <3>3 DEF NoConnector, FileFails, Reject, Unsupported,
                                ReceiveError, Timeout, JoinFails
    <2> QED
      BY <2>2, <2>3 DEF TypeOK
  <1>7. ASSUME NEW t \in tasks, TaskEnds(t)
        PROVE  HeldIsOwn' /\ NeverRefused'
    BY <1>7 DEF TaskEnds
  <1> QED
    BY <1>1, <1>2, <1>3, <1>4, <1>5, <1>6, <1>7 DEF Next, Pipeline

\* No statement is ever refused with CONCURRENT_LIMIT, whatever ways its
\* pipelines end in and however many sources of one label it reads.
THEOREM NeverRefusedAlways == Spec => []NeverRefused
  <1>1. Spec => [](TypeOK /\ IdBound /\ HeldIsOwn /\ NeverRefused)
    BY InitTypeOK, NextTypeOK, InitHeld, NextHeld, PTL DEF Spec
  <1> QED
    BY <1>1, PTL

-----------------------------------------------------------------------------
(* What is printed is whole.  A statement's sources are those still to be read,
   the one being read and those gathered; and the tasks of the last two carry
   numbers that no earlier statement of the process has given out.          *)

\* The tasks whose rows the statement of p has or waits for.
Reading(p) ==
  gathered[p] \cup IF pc[p] \in {"check", "locked", "select"} THEN {cur[p]} ELSE {}

Accounted(p) ==
  /\ \A s \in Source :
       s \in stmt[p] <=> s \in todo[p] \/ \E t \in Reading(p) : t.src = s
  /\ \A t \in Reading(p) :
       t.src \notin todo[p] /\ t.proc = p /\ since[p] < t.id /\ t.id <= cur[p].id
  /\ \A t, u \in Reading(p) : t.src = u.src => t = u

InProgress(p) == pc[p] \notin {"idle", "exited"}

PrintOK(p) ==
  /\ InProgress(p) => verdict[p] = "none" /\ since[p] <= cur[p].id
  /\ InProgress(p) \/ verdict[p] = "printed" => Accounted(p)
  /\ verdict[p] = "printed" => todo[p] = {}

PrintInv == \A p \in Proc : PrintOK(p)

LEMMA InitPrint == Init => PrintInv
  BY DEF Init, PrintInv, PrintOK, InProgress

\* A step of one process leaves the statements of the others alone.
LEMMA OthersPrint ==
  ASSUME PrintInv, NEW p \in Proc, PrintOK(p)',
         \A q \in Proc \ {p} :
           /\ pc'[q] = pc[q] /\ stmt'[q] = stmt[q] /\ since'[q] = since[q]
           /\ todo'[q] = todo[q] /\ cur'[q] = cur[q]
           /\ gathered'[q] = gathered[q] /\ verdict'[q] = verdict[q]
  PROVE  PrintInv'
  BY DEF PrintInv, PrintOK, InProgress, Accounted, Reading

LEMMA NextPrint ==
  ASSUME TypeOK, PrintInv, [Next]_vars
  PROVE  PrintInv'
  <1>1. CASE UNCHANGED vars
    BY <1>1 DEF vars, PrintInv, PrintOK, InProgress, Accounted, Reading
  <1>2. ASSUME NEW p \in Proc, Begin(p)
        PROVE  PrintInv'
    <2>1. PICK S \in Plans : /\ stmt' = [stmt EXCEPT ![p] = S]
                             /\ todo' = [todo EXCEPT ![p] = S]
      BY <1>2 DEF Begin
    <2>2. Reading(p)' = {} /\ todo'[p] = stmt'[p]
      BY <1>2, <2>1 DEF TypeOK, Begin, Reading
    <2>3. /\ since'[p] = cur'[p].id /\ cur'[p].id \in Nat
          /\ verdict'[p] = "none"
      BY <1>2 DEF TypeOK, Begin, Task
    <2>4. PrintOK(p)'
      BY <2>2, <2>3 DEF PrintOK, Accounted
    <2> QED
      BY <1>2, <2>1, <2>4, OthersPrint DEF TypeOK, Begin
  <1>3. ASSUME NEW p \in Proc, NextSource(p) \/ ReadFile(p)
        PROVE  PrintInv'
    <2>1. PICK s \in todo[p] :
            /\ cur' = [cur EXCEPT ![p] = [proc |-> p, id |-> cur[p].id + 1, src |-> s]]
            /\ todo' = [todo EXCEPT ![p] = @ \ {s}]
            /\ \/ gathered' = gathered /\ pc' = [pc EXCEPT ![p] = "check"]
               \/ /\ gathered' = [gathered EXCEPT ![p] =
                       @ \cup {[proc |-> p, id |-> cur[p].id + 1, src |-> s]}]
                  /\ pc' = pc
      BY <1>3 DEF NextSource, ReadFile
    <2>2. pc[p] = "next" /\ UNCHANGED <<stmt, since, verdict>>
      BY <1>3 DEF NextSource, ReadFile
    <2> DEFINE t == [proc |-> p, id |-> cur[p].id + 1, src |-> s]
    <2>3. /\ Reading(p) = gathered[p]
          /\ Reading(p)' = gathered[p] \cup {t}
          /\ cur'[p] = t /\ todo'[p] = todo[p] \ {s}
      BY <2>1, <2>2 DEF TypeOK, Reading
    <2>4. /\ Accounted(p) /\ verdict[p] = "none" /\ since[p] <= cur[p].id
          /\ cur[p].id \in Nat /\ since[p] \in Nat /\ s \in Source
      BY <2>2, ExecAssumption DEF PrintInv, PrintOK, InProgress, TypeOK, Task
    <2>5. \A u \in gathered[p] : u.id \in Nat /\ u.src \in Source
      BY DEF TypeOK, Task
    <2>6. \A u \in gathered[p] :
            u.src \notin todo[p] /\ u.proc = p /\ since[p] < u.id /\ u.id <= cur[p].id
      BY <2>3, <2>4 DEF Accounted
    <2>7. \A q \in Source :
            q \in stmt'[p] <=> q \in todo'[p] \/ \E u \in Reading(p)' : u.src = q
      BY <2>2, <2>3, <2>4 DEF Accounted
    <2>8. \A u \in Reading(p)' :
            u.src \notin todo'[p] /\ u.proc = p /\ since'[p] < u.id /\ u.id <= cur'[p].id
      BY <2>2, <2>3, <2>4, <2>5, <2>6
    <2>9. \A u, w \in Reading(p)' : u.src = w.src => u = w
      BY <2>3, <2>4, <2>6 DEF Accounted
    <2>10. Accounted(p)'
      BY <2>7, <2>8, <2>9 DEF Accounted
    <2>11. PrintOK(p)'
      BY <2>2, <2>3, <2>4, <2>10 DEF PrintOK
    <2> QED
      BY <2>1, <2>2, <2>11, OthersPrint DEF TypeOK
  <1>4. ASSUME NEW p \in Proc,
               \/ NoConnector(p) \/ FileFails(p) \/ Reject(p) \/ Unsupported(p)
               \/ ReceiveError(p) \/ Timeout(p) \/ JoinFails(p)
               \/ (Lock(p) /\ Fail(p, "CONCURRENT_LIMIT"))
        PROVE  PrintInv'
    <2>1. \E why \in {"rejected", "NO_CONNECTOR", "CONCURRENT_LIMIT",
                      "QUERY_NOT_SUPPORTED", "QUERY_ERROR", "QUERY_TIMEOUT"} :
            Fail(p, why) \/ Exit(p, why)
      BY <1>4 DEF NoConnector, FileFails, Reject, Unsupported, ReceiveError,
                  Timeout, JoinFails
    <2>2. UNCHANGED <<stmt, since, cur>>
      BY <1>4 DEF NoConnector, FileFails, Reject, Unsupported, ReceiveError,
                  Timeout, JoinFails, Lock
    <2>3. PICK why \in {"rejected", "NO_CONNECTOR", "CONCURRENT_LIMIT",
                        "QUERY_NOT_SUPPORTED", "QUERY_ERROR", "QUERY_TIMEOUT"} :
            /\ todo' = [todo EXCEPT ![p] = {}]
            /\ gathered' = [gathered EXCEPT ![p] = {}]
            /\ verdict' = [verdict EXCEPT ![p] = why]
            /\ pc' \in {[pc EXCEPT ![p] = "idle"], [pc EXCEPT ![p] = "exited"]}
      BY <2>1, FailType
    <2>4. PrintOK(p)'
      BY <2>3 DEF PrintOK, InProgress, TypeOK
    <2> QED
      BY <2>2, <2>3, <2>4, OthersPrint DEF TypeOK
  <1>5. ASSUME NEW p \in Proc,
               Spawn(p) \/ (Lock(p) /\ ~Fail(p, "CONCURRENT_LIMIT"))
        PROVE  PrintInv'
    <2>1. /\ pc[p] \in {"check", "locked"}
          /\ pc' \in {[pc EXCEPT ![p] = "locked"], [pc EXCEPT ![p] = "select"]}
          /\ UNCHANGED <<stmt, since, todo, cur, gathered, verdict>>
      BY <1>5 DEF Spawn, Lock
    <2>2. Reading(p)' = Reading(p) /\ InProgress(p)
      BY <2>1 DEF Reading, InProgress, TypeOK
    <2>3. PrintOK(p)'
      BY <2>1, <2>2 DEF PrintInv, PrintOK, Accounted
    <2> QED
      BY <2>1, <2>3, OthersPrint DEF TypeOK
  <1>6. ASSUME NEW p \in Proc, Receive(p)
        PROVE  PrintInv'
    <2>1. /\ pc[p] = "select" /\ pc' = [pc EXCEPT ![p] = "next"]
          /\ gathered' = [gathered EXCEPT ![p] = @ \cup {cur[p]}]
          /\ UNCHANGED <<stmt, since, todo, cur, verdict>>
      BY <1>6 DEF Receive, Inbox
    <2>2. Reading(p)' = Reading(p) /\ InProgress(p)
      BY <2>1 DEF Reading, InProgress, TypeOK
    <2>3. PrintOK(p)'
      BY <2>1, <2>2 DEF PrintInv, PrintOK, Accounted
    <2> QED
      BY <2>1, <2>3, OthersPrint DEF TypeOK
  <1>7. ASSUME NEW p \in Proc, Finish(p)
        PROVE  PrintInv'
    <2>1. /\ pc[p] = "next" /\ todo[p] = {}
          /\ pc' \in {[pc EXCEPT ![p] = "idle"], [pc EXCEPT ![p] = "exited"]}
          /\ verdict' = [verdict EXCEPT ![p] = "printed"]
          /\ UNCHANGED <<stmt, since, todo, cur, gathered>>
      BY <1>7 DEF Finish
    <2>2. Reading(p)' = Reading(p) /\ InProgress(p)
      BY <2>1 DEF Reading, InProgress, TypeOK
    <2>3. PrintOK(p)'
      BY <2>1, <2>2 DEF PrintInv, PrintOK, Accounted, InProgress, TypeOK
    <2> QED
      BY <2>1, <2>3, OthersPrint DEF TypeOK
  <1>8. ASSUME NEW t \in tasks, TaskEnds(t)
        PROVE  PrintInv'
    BY <1>8 DEF TaskEnds, PrintInv, PrintOK, InProgress, Accounted, Reading
  <1> QED
    BY <1>1, <1>2, <1>3, <1>4, <1>5, <1>6, <1>7, <1>8 DEF Next, Pipeline

\* Whatever a process prints is complete and fresh: one answer for each source
\* of the statement, none of them from a query an earlier statement left behind.
THEOREM PrintedAlwaysWhole == Spec => []PrintedIsWhole
  <1>1. TypeOK /\ PrintInv => PrintedIsWhole
    <2> SUFFICES ASSUME TypeOK, PrintInv, NEW p \in Proc, verdict[p] = "printed"
                 PROVE  /\ {t.src : t \in gathered[p]} = stmt[p]
                        /\ \A t, u \in gathered[p] : t.src = u.src => t = u
                        /\ \A t \in gathered[p] : t.proc = p /\ t.id > since[p]
      BY DEF PrintedIsWhole
    <2>1. todo[p] = {} /\ Accounted(p) /\ Reading(p) = gathered[p]
      BY DEF PrintInv, PrintOK, InProgress, Reading, TypeOK
    <2>2. \A t \in gathered[p] : t.src \in Source /\ t.id \in Nat /\ since[p] \in Nat
      BY ExecAssumption DEF TypeOK, Task
    <2>3. stmt[p] \subseteq Source
      BY DEF TypeOK
    <2> QED
      BY <2>1, <2>2, <2>3 DEF Accounted
  <1>2. Spec => [](TypeOK /\ IdBound /\ PrintInv)
    BY InitTypeOK, NextTypeOK, InitPrint, NextPrint, PTL DEF Spec
  <1> QED
    BY <1>1, <1>2, PTL

=============================================================================
