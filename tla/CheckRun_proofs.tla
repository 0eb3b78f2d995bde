-------------------------- MODULE CheckRun_proofs --------------------------
(* What holds of `dbexplain check` for every configuration of any length.    *)
EXTENDS CheckRun, FiniteSetTheorems, TLAPS

-----------------------------------------------------------------------------
(* The phases of the run, and the WaitGroup. *)

Running == {i \in Pos : pc[i] \notin {"none", "ended"}}

Phases ==
  /\ wg = Cardinality(Running)
  /\ \A i \in Pos : pc[i] # "none" => i \in Tasks
  /\ mpc = "load" => kept = {}
  /\ mpc \in {"load", "parse"} => \A i \in Pos : pc[i] = "none"
  /\ mpc = "receive" => \A i \in Tasks : pc[i] # "none"
  /\ closed => mpc \in {"receive", "exited"} /\ \A i \in Tasks : pc[i] = "ended"

\* Counting a set of entries.
LEMMA CountEntries ==
  ASSUME NEW S \in SUBSET Pos
  PROVE  /\ Cardinality(S) \in Nat
         /\ \A i \in S : Cardinality(S \ {i}) = Cardinality(S) - 1
         /\ \A i \in Pos \ S : Cardinality(S \cup {i}) = Cardinality(S) + 1
         /\ Cardinality(S) = 0 <=> S = {}
         /\ \A T \in SUBSET S : /\ Cardinality(T) <= Cardinality(S)
                                /\ T # S => Cardinality(T) < Cardinality(S)
  <1>1. IsFiniteSet(Pos)
    BY CheckAssumption, FS_Interval DEF Pos
  <1>2. IsFiniteSet(S)
    BY <1>1, FS_Subset
  <1>3. Cardinality(S) \in Nat
    BY <1>2, FS_CardinalityType
  <1>4. /\ \A i \in S : Cardinality(S \ {i}) = Cardinality(S) - 1
        /\ \A i \in Pos \ S : Cardinality(S \cup {i}) = Cardinality(S) + 1
    BY <1>2, FS_RemoveElement, FS_AddElement
  <1>5. Cardinality(S) = 0 <=> S = {}
    BY <1>2, FS_EmptySet
  <1>6. \A T \in SUBSET S : Cardinality(T) <= Cardinality(S)
                            /\ (T # S => Cardinality(T) # Cardinality(S))
    BY <1>2, FS_Subset
  <1>7. \A T \in SUBSET S : Cardinality(T) \in Nat
    BY <1>2, FS_Subset, FS_CardinalityType
  <1> QED
    BY <1>3, <1>4, <1>5, <1>6, <1>7

LEMMA RowSeq ==
  ASSUME NEW s \in Seq(Row)
  PROVE  /\ \A m \in Row : Append(s, m) \in Seq(Row)
         /\ s # <<>> => Head(s) \in Row /\ Tail(s) \in Seq(Row)
  OBVIOUS

LEMMA InitPhases == Init => TypeOK /\ Phases
  <1> SUFFICES ASSUME Init PROVE TypeOK /\ Phases
    OBVIOUS
  <1>1. Running = {} /\ Cardinality({}) = 0
    BY FS_EmptySet DEF Init, Running
  <1>2. Phases
    BY <1>1 DEF Init, Phases
  <1>3. given \in [Pos -> Labels \cup {Malformed}]
    BY CheckAssumption DEF Init, Pos
  <1>4. row \in [Pos -> Verdict \cup {"none"}] /\ results \in [Pos -> Verdict \cup {"none"}]
    BY DEF Init, Verdict
  <1>5. saved \in [Pos -> Writer] /\ logOut \in Writer
    BY DEF Init, Writer
  <1>6. /\ answer \in [Pos -> Answer \cup {"none"}]
        /\ resultCh \in Seq(Row) /\ printed \in [Pos -> Nat]
    BY DEF Init
  <1>7. TypeOK
    BY <1>3, <1>4, <1>5, <1>6 DEF Init, TypeOK
  <1> QED
    BY <1>2, <1>7

\* The steps of a goroutine that leave the WaitGroup alone.
Step(i) == Save(i) \/ Silence(i) \/ Select(i) \/ Restore(i) \/ Send(i)

LEMMA NextPhases ==
  ASSUME TypeOK, Phases, [Next]_vars
  PROVE  TypeOK' /\ Phases'
  <1> USE DEF TypeOK, flags, counts, report, log, conn, channel
  <1>a. Running \in SUBSET Pos /\ Cardinality(Running) \in Nat
    BY CountEntries DEF Running
  <1>1. CASE UNCHANGED vars
    BY <1>1 DEF vars, Phases, Running, Tasks
  <1>2. CASE Load
    <2>1. Running' = Running /\ kept' \subseteq Pos
      BY <1>2 DEF Load, Running, Filtered
    <2>2. TypeOK'
      BY <1>2, <2>1 DEF Load
    <2>3. Phases'
      BY <1>2, <2>1 DEF Load, Phases
    <2> QED
      BY <2>2, <2>3
  <1>3. CASE Parse
    <2>1. Running' = Running /\ Tasks' = Tasks
      BY <1>3 DEF Parse, Running, Tasks
    <2>2. kept \ Tasks \in SUBSET Pos
      OBVIOUS
    <2>3. syntaxFails' \in Nat
      BY <1>3, <2>2, CountEntries DEF Parse
    <2>4. results' \in [Pos -> Verdict \cup {"none"}] /\ printed' \in [Pos -> Nat]
      BY <1>3 DEF Parse, Verdict
    <2>5. TypeOK'
      BY <1>3, <2>3, <2>4 DEF Parse
    <2>6. Phases'
      BY <1>3, <2>1 DEF Parse, Phases
    <2> QED
      BY <2>5, <2>6
  <1>4. ASSUME NEW i \in Pos, Spawn(i)
        PROVE  TypeOK' /\ Phases'
    <2>1. Running' = Running \cup {i} /\ i \notin Running /\ Tasks' = Tasks
      BY <1>4 DEF Spawn, Running, Tasks
    <2>2. Cardinality(Running') = Cardinality(Running) + 1
      BY <1>a, <2>1, CountEntries
    <2>3. TypeOK'
      BY <1>4 DEF Spawn
    <2>4. Phases'
      BY <1>4, <2>1, <2>2 DEF Spawn, Phases
    <2> QED
      BY <2>3, <2>4
  <1>5. CASE Spawned
    BY <1>5 DEF Spawned, Phases, Running, Tasks
  <1>6. ASSUME NEW i \in Pos, Step(i) \/ CollectorEnds(i)
        PROVE  TypeOK' /\ Phases'
    <2>1. /\ UNCHANGED <<mpc, kept, given, wg, closed>>
          /\ pc' = pc \/ pc[i] \notin {"none", "ended"}
          /\ pc' \in {pc} \cup {[pc EXCEPT ![i] = q] :
                         q \in {"silence", "select", "restore", "send", "done"}}
      BY <1>6 DEF Step, Save, Silence, Select, Answered, Timeout, Restore, Send,
                  CollectorEnds
    <2>2. Running' = Running /\ Tasks' = Tasks
      BY <2>1 DEF Running, Tasks
    <2>3. Phases'
      <3>1. \A j \in Pos : (pc'[j] = "none" <=> pc[j] = "none")
                          /\ (pc[j] = "ended" => pc'[j] = "ended")
        BY <2>1
      <3>2. Tasks \subseteq Pos
        BY DEF Tasks
      <3> QED
        BY <2>1, <2>2, <3>1, <3>2 DEF Phases
    <2>4. UNCHANGED <<asked, json, report>>
      BY <1>6 DEF Step, Save, Silence, Select, Answered, Timeout, Restore, Send,
                  CollectorEnds
    <2>a. row' \in [Pos -> Verdict \cup {"none"}]
      <3>1. \/ row' = row \/ row' = [row EXCEPT ![i] = results[i]]
            \/ row' = [row EXCEPT ![i] = answer[i]]
            \/ row' = [row EXCEPT ![i] = "deadline"]
        BY <1>6 DEF Step, Save, Silence, Select, Answered, Timeout, Restore, Send,
                    CollectorEnds
      <3>2. /\ results[i] \in Verdict \cup {"none"} /\ answer[i] \in Verdict \cup {"none"}
            /\ "deadline" \in Verdict \cup {"none"}
        BY DEF Verdict
      <3> QED
        BY <3>1, <3>2
    <2>b. saved' \in [Pos -> Writer] /\ logOut' \in Writer
      <3>1. /\ saved' = saved \/ saved' = [saved EXCEPT ![i] = logOut]
            /\ logOut' \in {logOut, "discard", saved[i]}
        BY <1>6 DEF Step, Save, Silence, Select, Answered, Timeout, Restore, Send,
                    CollectorEnds
      <3>2. "discard" \in Writer /\ saved[i] \in Writer
        BY DEF Writer
      <3> QED
        BY <3>1, <3>2
    <2>c. /\ sub' \in [Pos -> {"none", "running", "ended"}]
          /\ answer' \in [Pos -> Answer \cup {"none"}]
      BY <1>6 DEF Step, Save, Silence, Select, Answered, Timeout, Restore, Send,
                  CollectorEnds
    <2>5. resultCh' \in Seq(Row)
      <3>1. CASE Send(i)
        <4>1. [index |-> i, verdict |-> row[i]] \in Row
          BY DEF Row
        <4> QED
          BY <3>1, <4>1, RowSeq DEF Send
      <3>2. CASE ~Send(i)
        BY <1>6, <3>2 DEF Step, Save, Silence, Select, Answered, Timeout,
                          Restore, CollectorEnds
      <3> QED
        BY <3>1, <3>2
    <2>6. pc' \in [Pos -> {"none", "start", "silence", "select", "restore", "send",
                           "done", "ended"}]
      <3>1. CASE pc' = pc
        BY <3>1
      <3>2. CASE pc' # pc
        <4>1. PICK q \in {"silence", "select", "restore", "send", "done"} :
                pc' = [pc EXCEPT ![i] = q]
          BY <2>1, <3>2
        <4> QED
          BY <4>1
      <3> QED
        BY <3>1, <3>2
    <2> QED
      <3>0. UNCHANGED <<given, asked, json, mpc, kept, wg, closed, results, connOK,
                        connFails, syntaxFails, printed, exit>>
        BY <2>1, <2>4
      <3>1. TypeOK'
        BY <3>0, <2>5, <2>6, <2>a, <2>b, <2>c
      <3> QED
        BY <2>3, <3>1
  <1>7. ASSUME NEW i \in Pos, Done(i)
        PROVE  TypeOK' /\ Phases'
    <2>1. Running' = Running \ {i} /\ i \in Running /\ Tasks' = Tasks
      BY <1>7 DEF Done, Running, Tasks
    <2>2. Cardinality(Running') = Cardinality(Running) - 1 /\ Cardinality(Running') \in Nat
      BY <1>a, <2>1, CountEntries
    <2>3. wg' = Cardinality(Running')
      BY <1>7, <2>2 DEF Done, Phases
    <2>4. TypeOK'
      BY <1>7, <2>2, <2>3 DEF Done
    <2>5. Phases'
      BY <1>7, <2>1, <2>3 DEF Done, Phases
    <2> QED
      BY <2>4, <2>5
  <1>8. CASE Close
    <2>1. Running = {}
      BY <1>8, <1>a, CountEntries DEF Close, Phases
    <2>2. \A i \in Tasks : pc[i] = "ended"
      BY <1>8, <2>1 DEF Close, Phases, Running, Tasks
    <2>3. Running' = Running /\ Tasks' = Tasks
      BY <1>8 DEF Close, Running, Tasks
    <2> QED
      BY <1>8, <2>2, <2>3 DEF Close, Phases
  <1>9. CASE Receive
    <2> DEFINE res == Head(resultCh)
    <2>1. res \in Row /\ resultCh' \in Seq(Row)
      BY <1>9, RowSeq DEF Receive
    <2>2. /\ results' = [results EXCEPT ![res.index] = res.verdict]
          /\ connOK' \in Nat /\ connFails' \in Nat
      BY <1>9 DEF Receive
    <2>3. printed' \in [Pos -> Nat]
      BY <1>9, <2>1 DEF Receive, Row
    <2>4. results' \in [Pos -> Verdict \cup {"none"}]
      BY <2>1, <2>2 DEF Row
    <2>5. Running' = Running /\ Tasks' = Tasks
      BY <1>9 DEF Receive, Running, Tasks
    <2>6. TypeOK'
      BY <1>9, <2>1, <2>2, <2>3, <2>4 DEF Receive
    <2>7. Phases'
      BY <1>9, <2>5 DEF Receive, Phases
    <2> QED
      BY <2>6, <2>7
  <1>10. CASE Report
    <2>1. Running' = Running /\ Tasks' = Tasks
      BY <1>10 DEF Report, Running, Tasks
    <2>2. printed' \in [Pos -> Nat]
      BY <1>10 DEF Report
    <2>3. TypeOK'
      BY <1>10, <2>2 DEF Report
    <2>4. Phases'
      BY <1>10, <2>1 DEF Report, Phases
    <2> QED
      BY <2>3, <2>4
  <1> QED
    BY <1>1, <1>2, <1>3, <1>4, <1>5, <1>6, <1>7, <1>8, <1>9, <1>10
    DEF Next, Main, Worker, Step, Exited

\* Every variable keeps its type: the WaitGroup never goes below zero.
THEOREM TypeCorrect == Spec => []TypeOK
  <1>1. Spec => [](TypeOK /\ Phases)
    BY InitPhases, NextPhases, PTL DEF Spec
  <1> QED
    BY <1>1, PTL

-----------------------------------------------------------------------------
(* The channel: what has been received and what it holds are the rows of the
   goroutines that have sent theirs, so that it has room for one more.       *)

Delivered == {i \in Pos : pc[i] \in {"done", "ended"}}

Channel == connOK + connFails + Len(resultCh) = Cardinality(Delivered)

LEMMA LenRow ==
  ASSUME NEW s \in Seq(Row)
  PROVE  /\ Len(s) \in Nat
         /\ \A m \in Row : Len(Append(s, m)) = Len(s) + 1
         /\ s # <<>> => Len(s) = Len(Tail(s)) + 1
  OBVIOUS

LEMMA RowAt ==
  ASSUME NEW s \in Seq(Row)
  PROVE  \A k \in 1 .. Len(s) : s[k] \in Row /\ s[k].index \in Pos
  <1>1. \A k \in 1 .. Len(s) : s[k] \in Row
    OBVIOUS
  <1> QED
    BY <1>1 DEF Row

LEMMA InitChannel == Init => Channel
  <1> SUFFICES ASSUME Init PROVE Channel
    OBVIOUS
  <1>1. Delivered = {} /\ Cardinality({}) = 0 /\ Len(resultCh) = 0
    BY FS_EmptySet DEF Init, Delivered
  <1> QED
    BY <1>1 DEF Init, Channel

LEMMA NextChannel ==
  ASSUME TypeOK, Channel, [Next]_vars
  PROVE  Channel'
  <1> USE DEF flags, counts, report, log, conn, channel
  <1>a. Delivered \in SUBSET Pos /\ resultCh \in Seq(Row)
    BY DEF Delivered, TypeOK
  <1>b. Cardinality(Delivered) \in Nat /\ Len(resultCh) \in Nat
    BY <1>a, CountEntries, LenRow
  <1>c. connOK \in Nat /\ connFails \in Nat
    BY DEF TypeOK
  <1>1. ASSUME UNCHANGED <<connOK, connFails, resultCh>>, Delivered' = Delivered
        PROVE  Channel'
    BY <1>1 DEF Channel
  <1>2. CASE UNCHANGED vars \/ Load \/ Parse \/ Spawned \/ Close \/ Report
    <2>1. UNCHANGED <<connOK, connFails, resultCh, pc>>
      BY <1>2 DEF vars, Load, Parse, Spawned, Close, Report
    <2> QED
      BY <1>1, <2>1 DEF Delivered
  <1>3. ASSUME NEW i \in Pos,
               \/ Spawn(i) \/ Save(i) \/ Silence(i) \/ Select(i) \/ Restore(i)
               \/ CollectorEnds(i) \/ Done(i)
        PROVE  Channel'
    <2>1. /\ UNCHANGED <<connOK, connFails, resultCh>>
          /\ \/ pc' = pc
             \/ pc[i] = "done" /\ pc' = [pc EXCEPT ![i] = "ended"]
             \/ /\ pc[i] \notin {"done", "ended"}
                /\ \E q \in {"start", "silence", "select", "restore", "send"} :
                     pc' = [pc EXCEPT ![i] = q]
      BY <1>3 DEF Spawn, Save, Silence, Select, Answered, Timeout, Restore,
                  CollectorEnds, Done
    <2>2. Delivered' = Delivered
      BY <2>1 DEF Delivered, TypeOK
    <2> QED
      BY <1>1, <2>1, <2>2
  <1>4. ASSUME NEW i \in Pos, Send(i)
        PROVE  Channel'
    <2>1. Delivered' = Delivered \cup {i} /\ i \notin Delivered
      BY <1>4 DEF Send, Delivered, TypeOK
    <2>2. Cardinality(Delivered') = Cardinality(Delivered) + 1
      BY <1>a, <2>1, CountEntries
    <2>3. [index |-> i, verdict |-> row[i]] \in Row
      BY DEF Row, TypeOK
    <2>4. Len(resultCh') = Len(resultCh) + 1
      BY <1>4, <1>a, <2>3, LenRow DEF Send
    <2> QED
      BY <1>4, <1>b, <1>c, <2>2, <2>4 DEF Send, Channel
  <1>5. CASE Receive
    <2>1. Delivered' = Delivered
      BY <1>5 DEF Receive, Delivered
    <2>2. resultCh' = Tail(resultCh) /\ Len(resultCh) = Len(Tail(resultCh)) + 1
      BY <1>5, <1>a, LenRow DEF Receive
    <2>4. Len(resultCh') \in Nat /\ connOK' \in Nat /\ connFails' \in Nat
      <3>1. Tail(resultCh) \in Seq(Row)
        BY <1>5, <1>a, RowSeq DEF Receive
      <3>2. connOK' \in Nat /\ connFails' \in Nat
        BY <1>5, <1>c DEF Receive
      <3> QED
        BY <2>2, <3>1, <3>2, LenRow
    <2>5. Cardinality(Delivered') = Cardinality(Delivered)
      BY <2>1
    <2>6. Len(resultCh) = Len(resultCh') + 1
      BY <2>2
    <2>7. connOK' + connFails' + Len(resultCh') = Cardinality(Delivered')
      <3> DEFINE sent == Cardinality(Delivered)
      <3>1. connOK + connFails + Len(resultCh) = sent /\ sent \in Nat
        BY <1>b DEF Channel
      <3> HIDE DEF sent
      <3>2. \/ connOK' = connOK + 1 /\ connFails' = connFails
            \/ connOK' = connOK /\ connFails' = connFails + 1
        BY <1>5, <1>c DEF Receive
      <3>3. connOK' + connFails' + Len(resultCh') = sent
        BY <1>b, <1>c, <2>4, <2>6, <3>1, <3>2
      <3> QED
        BY <2>5, <3>3 DEF sent
    <2> QED
      BY <2>7 DEF Channel
  <1> QED
    BY <1>2, <1>3, <1>4, <1>5 DEF Next, Main, Worker, Exited

\* No goroutine of `check` blocks on the channel of rows, or sends on it after
\* it was closed.
THEOREM SendsAlwaysSafe == Spec => []SendsSafe
  <1>1. TypeOK /\ Phases /\ Channel => SendsSafe
    <2> SUFFICES ASSUME TypeOK, Phases, Channel, NEW i \in Pos, pc[i] = "send"
                 PROVE  Len(resultCh) < Cardinality(Tasks) /\ ~closed
      BY DEF SendsSafe
    <2>1. i \in Tasks /\ ~closed
      BY DEF Phases
    <2>2. Tasks \in SUBSET Pos /\ Delivered \in SUBSET Tasks /\ Delivered # Tasks
      <3>1. Tasks \in SUBSET Pos
        BY DEF Tasks, TypeOK
      <3>2. Delivered \in SUBSET Tasks
        BY DEF Phases, Delivered
      <3>3. i \notin Delivered
        BY DEF Delivered
      <3> QED
        BY <2>1, <3>1, <3>2, <3>3
    <2>3. Cardinality(Delivered) < Cardinality(Tasks) /\ Cardinality(Tasks) \in Nat
      BY <2>2, CountEntries
    <2>4. Cardinality(Delivered) \in Nat
      BY <2>2, CountEntries
    <2>5. Len(resultCh) \in Nat /\ connOK \in Nat /\ connFails \in Nat
      BY LenRow DEF TypeOK
    <2> QED
      BY <2>1, <2>3, <2>4, <2>5 DEF Channel
  <1>2. Spec => [](TypeOK /\ Phases /\ Channel)
    BY InitPhases, NextPhases, InitChannel, NextChannel, PTL DEF Spec
  <1> QED
    BY <1>1, <1>2, PTL

-----------------------------------------------------------------------------
(* Verdicts.  A connector answers once, after its goroutine started it; the
   goroutine's row is that answer or the timer's, the same from the select on;
   and the row travels unchanged to the place of its entry.                  *)

Verdicts ==
  /\ \A i \in Pos : pc[i] \in {"none", "start", "silence"} => sub[i] = "none"
  /\ \A i \in Pos : sub[i] \in {"none", "running"} => answer[i] = "none"
  /\ \A i \in Pos : pc[i] \in {"restore", "send", "done", "ended"} =>
       row[i] = "deadline" \/ (row[i] \in Answer /\ row[i] = answer[i])

Carried ==
  /\ \A k \in 1 .. Len(resultCh) :
       LET m == resultCh[k]
       IN  m.verdict = row[m.index] /\ pc[m.index] \in {"done", "ended"}
  /\ \A i \in Pos : results[i] \in Answer \cup {"deadline"} =>
       results[i] = row[i] /\ pc[i] \in {"done", "ended"}

LEMMA InitVerdicts == Init => Verdicts /\ Carried
  BY DEF Init, Verdicts, Carried, Answer

LEMMA NextVerdicts ==
  ASSUME TypeOK, Verdicts, [Next]_vars
  PROVE  Verdicts'
  <1> USE DEF TypeOK, Verdicts, conn, log, channel, report, flags, counts
  <1>1. CASE \/ UNCHANGED vars \/ Load \/ Parse \/ Spawned \/ Close \/ Receive \/ Report
             \/ \E i \in Pos : Restore(i) \/ Send(i) \/ Done(i)
    <2>1. /\ UNCHANGED <<sub, answer, row>>
          /\ \/ pc' = pc
             \/ \E i \in Pos : /\ pc[i] \in {"restore", "send", "done"}
                               /\ \E q \in {"send", "done", "ended"} :
                                     pc' = [pc EXCEPT ![i] = q]
      BY <1>1 DEF vars, Load, Parse, Spawned, Close, Receive, Report, Restore,
                  Send, Done
    <2> QED
      BY <2>1
  <1>2. ASSUME NEW i \in Pos, Spawn(i) PROVE Verdicts'
    BY <1>2 DEF Spawn
  <1>3. ASSUME NEW i \in Pos, Save(i) PROVE Verdicts'
    BY <1>3 DEF Save
  <1>4. ASSUME NEW i \in Pos, Silence(i) PROVE Verdicts'
    BY <1>4 DEF Silence
  <1>5. ASSUME NEW i \in Pos, Answered(i) PROVE Verdicts'
    BY <1>5 DEF Answered
  <1>6. ASSUME NEW i \in Pos, Timeout(i) PROVE Verdicts'
    BY <1>6 DEF Timeout
  <1>7. ASSUME NEW i \in Pos, CollectorEnds(i) PROVE Verdicts'
    <2>1. /\ answer[i] = "none" /\ sub[i] = "running"
          /\ sub' = [sub EXCEPT ![i] = "ended"]
          /\ UNCHANGED <<pc, row>>
          /\ \A j \in Pos : j # i => answer'[j] = answer[j]
      BY <1>7 DEF CollectorEnds
    <2>2. \A j \in Pos : row[j] \in Answer /\ row[j] = answer[j] => j # i
      BY <2>1 DEF Answer
    <2> QED
      BY <2>1, <2>2
  <1> QED
    BY <1>1, <1>2, <1>3, <1>4, <1>5, <1>6, <1>7
    DEF Next, Main, Worker, Select, Exited

LEMMA NextCarried ==
  ASSUME TypeOK, Phases, Verdicts, Carried, [Next]_vars
  PROVE  Carried'
  <1> USE DEF TypeOK, Carried, conn, log, channel, report, flags, counts
  <1>1. CASE \/ UNCHANGED vars \/ Load \/ Spawned \/ Close \/ Report
             \/ \E i \in Pos : \/ Spawn(i) \/ Save(i) \/ Silence(i) \/ Select(i)
                               \/ Restore(i) \/ Done(i) \/ CollectorEnds(i)
    <2>1. /\ UNCHANGED <<results, resultCh>>
          /\ \A j \in Pos : pc[j] \in {"done", "ended"} =>
               pc'[j] \in {"done", "ended"} /\ row'[j] = row[j]
      BY <1>1 DEF vars, Load, Spawned, Close, Report, Spawn, Save, Silence,
                  Select, Answered, Timeout, Restore, Done, CollectorEnds
    <2>2. \A k \in 1 .. Len(resultCh) : resultCh[k].index \in Pos
      BY RowAt
    <2> QED
      BY <2>1, <2>2
  <1>2. CASE Parse
    <2>1. /\ UNCHANGED <<resultCh, row, pc>>
          /\ \A i \in Pos : results'[i] \notin Answer \cup {"deadline"}
      BY <1>2 DEF Parse, Answer
    <2> QED
      BY <2>1
  <1>3. ASSUME NEW i \in Pos, Send(i) PROVE Carried'
    <2> DEFINE m == [index |-> i, verdict |-> row[i]]
    <2>1. m \in Row /\ m.index = i /\ m.verdict = row[i]
      BY DEF Row
    <2>2. /\ resultCh' = Append(resultCh, m) /\ pc' = [pc EXCEPT ![i] = "done"]
          /\ UNCHANGED <<row, results>>
      BY <1>3 DEF Send
    <2>3. /\ Len(resultCh') = Len(resultCh) + 1 /\ Len(resultCh) \in Nat
          /\ \A k \in 1 .. Len(resultCh) : resultCh'[k] = resultCh[k]
          /\ resultCh'[Len(resultCh) + 1] = m
      BY <2>1, <2>2
    <2>4. \A k \in 1 .. Len(resultCh) : resultCh[k].index \in Pos
      BY RowAt
    <2>5. \A j \in Pos : pc[j] \in {"done", "ended"} => pc'[j] \in {"done", "ended"}
      BY <2>2
    <2>6. pc'[i] = "done"
      BY <2>2
    <2> HIDE DEF m
    <2>7. \A k \in 1 .. Len(resultCh') :
             /\ resultCh'[k].verdict = row'[resultCh'[k].index]
             /\ pc'[resultCh'[k].index] \in {"done", "ended"}
      <3> SUFFICES ASSUME NEW k \in 1 .. Len(resultCh')
                   PROVE  /\ resultCh'[k].verdict = row'[resultCh'[k].index]
                          /\ pc'[resultCh'[k].index] \in {"done", "ended"}
        OBVIOUS
      <3>1. CASE k \in 1 .. Len(resultCh)
        BY <2>2, <2>3, <2>4, <2>5, <3>1
      <3>2. CASE k = Len(resultCh) + 1
        BY <2>1, <2>2, <2>3, <2>6, <3>2
      <3> QED
        BY <2>3, <3>1, <3>2
    <2>8. \A j \in Pos : results'[j] \in Answer \cup {"deadline"} =>
             results'[j] = row'[j] /\ pc'[j] \in {"done", "ended"}
      BY <2>2, <2>5
    <2> QED
      BY <2>7, <2>8
  <1>4. CASE Receive
    <2> DEFINE res == Head(resultCh)
    <2>1. /\ Len(resultCh) \in Nat \ {0} /\ res = resultCh[1]
          /\ resultCh' = Tail(resultCh) /\ res \in Row
          /\ UNCHANGED <<row, pc>>
      BY <1>4 DEF Receive
    <2>2. /\ Len(resultCh') = Len(resultCh) - 1
          /\ \A k \in 1 .. Len(resultCh') : resultCh'[k] = resultCh[k + 1]
      BY <2>1
    <2>3. \A k \in 1 .. Len(resultCh') : k + 1 \in 1 .. Len(resultCh)
      BY <2>1, <2>2
    <2>4. results' = [results EXCEPT ![res.index] = res.verdict]
      BY <1>4 DEF Receive
    <2>5. res.index \in Pos /\ res.verdict = row[res.index]
          /\ pc[res.index] \in {"done", "ended"}
      <3>1. 1 \in 1 .. Len(resultCh)
        BY <2>1
      <3> QED
        BY <2>1, <3>1, RowAt
    <2> HIDE DEF res
    <2>6. \A j \in Pos : results'[j] \in Answer \cup {"deadline"} =>
             results'[j] = row'[j] /\ pc'[j] \in {"done", "ended"}
      BY <2>1, <2>4, <2>5
    <2>7. \A k \in 1 .. Len(resultCh') :
             /\ resultCh'[k].verdict = row'[resultCh'[k].index]
             /\ pc'[resultCh'[k].index] \in {"done", "ended"}
      BY <2>1, <2>2, <2>3
    <2> QED
      BY <2>6, <2>7
  <1> QED
    BY <1>1, <1>2, <1>3, <1>4 DEF Next, Main, Worker, Exited

\* The row of an entry never says what its own connector did not.
THEOREM RowsAlwaysTruthful == Spec => []RowsTruthful
  <1>1. Verdicts /\ Carried => RowsTruthful
    BY DEF Verdicts, Carried, RowsTruthful, Answer
  <1>2. Spec => [](TypeOK /\ Phases /\ Verdicts /\ Carried)
    BY InitPhases, NextPhases, InitVerdicts, NextVerdicts, NextCarried, PTL DEF Spec
  <1> QED
    BY <1>1, <1>2, PTL

-----------------------------------------------------------------------------
(* The exit status.  The row of a goroutine that has sent it is in the channel
   until it is stored; so that when the channel is closed and empty every row
   is known, and the counters of failures are zero only if none has failed.  *)

Waiting(i) == \E k \in 1 .. Len(resultCh) : resultCh[k].index = i

Accounted ==
  /\ \A i \in Pos : pc[i] \in {"done", "ended"} =>
       results[i] \in Answer \cup {"deadline"} \/ Waiting(i)
  /\ connFails = 0 => \A i \in Pos : results[i] \notin {"err", "deadline"}
  /\ mpc \in {"parse", "spawn", "receive"} => kept # {}
  /\ mpc \in {"spawn", "receive"} /\ syntaxFails = 0 => kept = Tasks
  /\ mpc = "exited" <=> exit # 2
  /\ mpc \in {"load", "parse"} => connFails = 0

LEMMA InitAccounted == Init => Accounted /\ ExitTellsTruth
  BY DEF Init, Accounted, ExitTellsTruth

LEMMA NextAccounted ==
  ASSUME TypeOK, Phases, Verdicts, Carried, Accounted, [Next]_vars
  PROVE  Accounted'
  <1> USE DEF TypeOK, conn, log, channel, report, flags, counts
  <1>1. CASE Load
    BY <1>1 DEF Load, Accounted, Waiting, Phases
  <1>2. CASE Parse
    <2>1. /\ \A i \in Pos : pc'[i] = "none" /\ results'[i] \notin {"err", "deadline"}
          /\ UNCHANGED <<kept, exit, connFails>> /\ mpc = "parse" /\ mpc' = "spawn"
          /\ Tasks' = Tasks
      BY <1>2 DEF Parse, Phases, Tasks
    <2>2. syntaxFails' = 0 => kept = Tasks
      <3>1. kept \ Tasks \in SUBSET Pos /\ Tasks \subseteq kept
        BY DEF Tasks
      <3>2. syntaxFails' = Cardinality(kept \ Tasks)
        BY <1>2 DEF Parse
      <3> QED
        BY <3>1, <3>2, CountEntries
    <2> QED
      BY <2>1, <2>2 DEF Accounted
  <1>3. CASE \/ UNCHANGED vars \/ Spawned \/ Close
             \/ \E i \in Pos : \/ Spawn(i) \/ Save(i) \/ Silence(i) \/ Select(i)
                               \/ Restore(i) \/ Done(i) \/ CollectorEnds(i)
    <2>1. /\ UNCHANGED <<results, resultCh, kept, given, connFails, syntaxFails, exit>>
          /\ \A j \in Pos : pc'[j] \in {"done", "ended"} => pc[j] \in {"done", "ended"}
          /\ mpc' = mpc \/ (mpc = "spawn" /\ mpc' = "receive")
      BY <1>3 DEF vars, Spawned, Close, Spawn, Save, Silence, Select, Answered,
                  Timeout, Restore, Done, CollectorEnds
    <2>2. Tasks' = Tasks /\ \A i \in Pos : Waiting(i)' <=> Waiting(i)
      BY <2>1 DEF Tasks, Waiting
    <2> QED
      BY <2>1, <2>2 DEF Accounted
  <1>4. ASSUME NEW i \in Pos, Send(i) PROVE Accounted'
    <2> DEFINE m == [index |-> i, verdict |-> row[i]]
    <2>1. m \in Row /\ m.index = i
      BY DEF Row
    <2>2. /\ resultCh' = Append(resultCh, m) /\ pc' = [pc EXCEPT ![i] = "done"]
          /\ UNCHANGED <<results, kept, given, connFails, syntaxFails, exit, mpc>>
      BY <1>4 DEF Send
    <2>3. /\ Len(resultCh') = Len(resultCh) + 1 /\ Len(resultCh) \in Nat
          /\ \A k \in 1 .. Len(resultCh) : resultCh'[k] = resultCh[k]
          /\ resultCh'[Len(resultCh) + 1] = m
      BY <2>1, <2>2
    <2> HIDE DEF m
    <2>4. Waiting(i)'
      <3>1. Len(resultCh) + 1 \in 1 .. Len(resultCh')
        BY <2>3
      <3> QED
        BY <2>1, <2>3, <3>1 DEF Waiting
    <2>5. \A j \in Pos : Waiting(j) => Waiting(j)'
      <3>1. \A k \in 1 .. Len(resultCh) : k \in 1 .. Len(resultCh')
        BY <2>3
      <3> QED
        BY <2>3, <3>1 DEF Waiting
    <2>6. Tasks' = Tasks
      BY <2>2 DEF Tasks
    <2>7. \A j \in Pos : pc'[j] \in {"done", "ended"} =>
             results'[j] \in Answer \cup {"deadline"} \/ Waiting(j)'
      BY <2>2, <2>4, <2>5 DEF Accounted
    <2> QED
      BY <2>2, <2>6, <2>7 DEF Accounted
  <1>5. CASE Receive
    <2> DEFINE res == Head(resultCh)
    <2>1. /\ Len(resultCh) \in Nat \ {0} /\ res = resultCh[1]
          /\ resultCh' = Tail(resultCh)
          /\ UNCHANGED <<kept, given, syntaxFails, exit, mpc, pc>>
      BY <1>5 DEF Receive
    <2>2. /\ Len(resultCh') = Len(resultCh) - 1
          /\ \A k \in 1 .. Len(resultCh') : resultCh'[k] = resultCh[k + 1]
      BY <2>1
    <2>3. 1 \in 1 .. Len(resultCh)
      BY <2>1
    <2>4. /\ res.index \in Pos
          /\ res.verdict = row[res.index] /\ pc[res.index] \in {"done", "ended"}
      BY <2>1, <2>3, RowAt DEF Carried
    <2>5. res.verdict \in Answer \cup {"deadline"}
      BY <2>4 DEF Verdicts
    <2>6. /\ results' = [results EXCEPT ![res.index] = res.verdict]
          /\ connFails' = connFails + IF res.verdict = "ok" THEN 0 ELSE 1
      BY <1>5 DEF Receive
    <2> HIDE DEF res
    <2>7. \A j \in Pos : Waiting(j) => j = res.index \/ Waiting(j)'
      <3> SUFFICES ASSUME NEW j \in Pos, NEW k \in 1 .. Len(resultCh),
                          resultCh[k].index = j, j # res.index
                   PROVE  Waiting(j)'
        BY DEF Waiting
      <3>1. k # 1
        BY <2>1
      <3>2. k - 1 \in 1 .. Len(resultCh') /\ (k - 1) + 1 = k
        BY <2>1, <2>2, <3>1
      <3>3. resultCh'[k - 1].index = j
        BY <2>2, <3>2
      <3> QED
        BY <3>2, <3>3 DEF Waiting
    <2>8. \A j \in Pos : pc'[j] \in {"done", "ended"} =>
             results'[j] \in Answer \cup {"deadline"} \/ Waiting(j)'
      BY <2>1, <2>4, <2>5, <2>6, <2>7 DEF Accounted
    <2>9. connFails' = 0 => \A j \in Pos : results'[j] \notin {"err", "deadline"}
      <3>1. connFails' = 0 => connFails = 0 /\ res.verdict = "ok"
        BY <2>6
      <3> QED
        BY <2>4, <2>6, <3>1 DEF Accounted
    <2>10. Tasks' = Tasks /\ mpc = "receive"
      BY <1>5, <2>1 DEF Tasks, Receive
    <2> QED
      BY <2>1, <2>8, <2>9, <2>10 DEF Accounted
  <1>6. CASE Report
    <2>1. /\ UNCHANGED <<results, resultCh, pc, connFails>>
          /\ mpc' = "exited" /\ exit' \in {0, 1}
      BY <1>6 DEF Report
    <2>2. \A i \in Pos : Waiting(i)' <=> Waiting(i)
      BY <2>1 DEF Waiting
    <2> QED
      BY <2>1, <2>2 DEF Accounted
  <1> QED
    BY <1>1, <1>2, <1>3, <1>4, <1>5, <1>6 DEF Next, Main, Worker, Exited

LEMMA NextTruth ==
  ASSUME TypeOK, Phases, Verdicts, Carried, Accounted, ExitTellsTruth, [Next]_vars
  PROVE  ExitTellsTruth'
  <1> USE DEF TypeOK, conn, log, channel, report, flags, counts
  <1>1. CASE Report
    <2> SUFFICES ASSUME exit' = 0, NEW i \in kept
                 PROVE  kept' # {} /\ given'[i] # Malformed /\ answer'[i] = "ok"
      BY <1>1 DEF Report, ExitTellsTruth, Accounted
    <2>1. /\ syntaxFails = 0 /\ connFails = 0 /\ resultCh = <<>> /\ closed
          /\ mpc = "receive" /\ UNCHANGED <<kept, given, answer>>
      BY <1>1 DEF Report
    <2>2. i \in Tasks /\ i \in Pos
      BY <2>1 DEF Accounted
    <2>3. pc[i] = "ended" /\ ~Waiting(i)
      BY <2>1, <2>2 DEF Phases, Waiting
    <2>4. results[i] = "ok"
      BY <2>1, <2>2, <2>3 DEF Accounted, Answer
    <2>5. answer[i] = "ok"
      BY <2>2, <2>3, <2>4 DEF Carried, Verdicts, Answer
    <2> QED
      BY <2>1, <2>2, <2>5 DEF Tasks
  <1>2. CASE Load
    BY <1>2 DEF Load, ExitTellsTruth, Accounted
  <1>3. ASSUME NEW i \in Pos, Worker(i) \/ CollectorEnds(i)
        PROVE  ExitTellsTruth'
    <2>1. UNCHANGED <<exit, kept, given>> /\ (answer' = answer \/ mpc # "exited")
      BY <1>3 DEF Worker, Save, Silence, Select, Answered, Timeout, Restore, Send,
                  Done, CollectorEnds
    <2> QED
      BY <2>1 DEF ExitTellsTruth, Accounted
  <1>4. CASE \/ UNCHANGED vars \/ Parse \/ Spawned \/ Close \/ Receive
             \/ \E i \in Pos : Spawn(i)
    <2>1. UNCHANGED <<exit, kept, given, answer>>
      BY <1>4 DEF vars, Parse, Spawned, Close, Receive, Spawn
    <2> QED
      BY <2>1 DEF ExitTellsTruth
  <1> QED
    BY <1>1, <1>2, <1>3, <1>4 DEF Next, Main, Exited

\* The status of `check` is 0 only if every entry it kept parses and its own
\* connector has answered, in time, that it could connect.
THEOREM ExitAlwaysTruthful == Spec => []ExitTellsTruth
  <1>1. Spec => [](TypeOK /\ Phases /\ Verdicts /\ Carried /\ Accounted /\ ExitTellsTruth)
    BY InitPhases, NextPhases, InitVerdicts, NextVerdicts, NextCarried,
       InitAccounted, NextAccounted, NextTruth, PTL DEF Spec
  <1> QED
    BY <1>1, PTL

-----------------------------------------------------------------------------
(* The rows that are printed.  A table prints the row of an entry when it is
   stored, so that an entry is printed twice only if its row comes twice: no
   two rows of the channel are of one entry, and none of an entry whose row is
   stored already.                                                           *)

Stored(i) == results[i] \in Answer \cup {"deadline"}

OnePerEntry ==
  \A k, l \in 1 .. Len(resultCh) : resultCh[k].index = resultCh[l].index => k = l

PrintedSoFar(i) == IF ~json /\ i \in kept /\ (i \notin Tasks \/ Stored(i)) THEN 1 ELSE 0

Printing ==
  /\ OnePerEntry
  /\ \A i \in Pos : Waiting(i) => ~Stored(i)
  /\ mpc = "load" => \A i \in Pos : results[i] = "none"
  /\ mpc \in {"spawn", "receive"} =>
       \A i \in Pos : /\ printed[i] = PrintedSoFar(i)
                      /\ i \in Tasks => Stored(i) \/ results[i] = "partial"
                      /\ i \in kept \ Tasks => results[i] = "invalid"
  /\ EachRowOnce

LEMMA InitPrinting == Init => Printing
  BY DEF Init, Printing, OnePerEntry, Waiting, EachRowOnce

LEMMA NextPrinting ==
  ASSUME TypeOK, Phases, Verdicts, Carried, Accounted, Printing, [Next]_vars
  PROVE  Printing'
  <1> USE DEF TypeOK, conn, log, channel, report, flags, counts
  <1>1. CASE Load
    <2>1. /\ mpc = "load" /\ mpc' \in {"parse", "exited"} /\ UNCHANGED <<results, resultCh>>
          /\ mpc' = "exited" => kept' = {}
      BY <1>1 DEF Load
    <2>2. \A i \in Pos : (Waiting(i)' <=> Waiting(i)) /\ (Stored(i)' <=> Stored(i))
      BY <2>1 DEF Waiting, Stored
    <2> QED
      BY <2>1, <2>2 DEF Printing, OnePerEntry, EachRowOnce
  <1>2. CASE Parse
    <2>1. /\ mpc = "parse" /\ mpc' = "spawn" /\ UNCHANGED <<kept, given, json, resultCh, pc>>
          /\ Tasks' = Tasks /\ Tasks \subseteq kept
          /\ results' = [i \in Pos |-> CASE i \in Tasks        -> "partial"
                                         [] i \in kept \ Tasks -> "invalid"
                                         [] OTHER             -> "none"]
          /\ printed' = [i \in Pos |-> IF ~json /\ i \in kept \ Tasks THEN 1 ELSE 0]
      BY <1>2 DEF Parse, Tasks
    <2>2. \A i \in Pos : ~Stored(i)'
      BY <2>1 DEF Stored, Answer
    <2>3. \A i \in Pos : printed'[i] = PrintedSoFar(i)'
      BY <2>1, <2>2 DEF PrintedSoFar
    <2>4. \A i \in Pos : /\ i \in Tasks => results'[i] = "partial"
                         /\ i \in kept \ Tasks => results'[i] = "invalid"
      BY <2>1
    <2> QED
      BY <2>1, <2>2, <2>3, <2>4 DEF Printing, OnePerEntry, EachRowOnce
  <1>3. CASE \/ UNCHANGED vars \/ Spawned \/ Close
             \/ \E i \in Pos : \/ Spawn(i) \/ Save(i) \/ Silence(i) \/ Select(i)
                               \/ Restore(i) \/ Done(i) \/ CollectorEnds(i)
    <2>1. /\ UNCHANGED <<results, resultCh, kept, given, json, printed>>
          /\ mpc' = mpc \/ (mpc = "spawn" /\ mpc' = "receive")
      BY <1>3 DEF vars, Spawned, Close, Spawn, Save, Silence, Select, Answered,
                  Timeout, Restore, Done, CollectorEnds
    <2>2. /\ Tasks' = Tasks
          /\ \A i \in Pos : (Waiting(i)' <=> Waiting(i)) /\ (Stored(i)' <=> Stored(i))
      BY <2>1 DEF Tasks, Waiting, Stored
    <2>3. \A i \in Pos : PrintedSoFar(i)' = PrintedSoFar(i)
      BY <2>1, <2>2 DEF PrintedSoFar
    <2> QED
      BY <2>1, <2>2, <2>3 DEF Printing, OnePerEntry, EachRowOnce
  <1>4. ASSUME NEW i \in Pos, Send(i) PROVE Printing'
    <2> DEFINE m == [index |-> i, verdict |-> row[i]]
    <2>1. m \in Row /\ m.index = i
      BY DEF Row
    <2>2. /\ resultCh' = Append(resultCh, m) /\ pc[i] = "send"
          /\ UNCHANGED <<results, kept, given, json, printed, mpc>>
      BY <1>4 DEF Send
    <2>3. /\ Len(resultCh') = Len(resultCh) + 1 /\ Len(resultCh) \in Nat
          /\ \A k \in 1 .. Len(resultCh) : resultCh'[k] = resultCh[k]
          /\ resultCh'[Len(resultCh) + 1] = m
      BY <2>1, <2>2
    <2> HIDE DEF m
    <2>4. \A k \in 1 .. Len(resultCh) : resultCh[k].index # i
      BY <2>2, RowAt DEF Carried
    <2>5. ASSUME NEW k \in 1 .. Len(resultCh')
          PROVE  \/ k \in 1 .. Len(resultCh) /\ resultCh'[k] = resultCh[k]
                 \/ k = Len(resultCh) + 1 /\ resultCh'[k].index = i
      BY <2>1, <2>3
    <2>6. OnePerEntry'
      <3> SUFFICES ASSUME NEW k \in 1 .. Len(resultCh'), NEW l \in 1 .. Len(resultCh'),
                          resultCh'[k].index = resultCh'[l].index
                   PROVE  k = l
        BY DEF OnePerEntry
      <3>1. CASE k \in 1 .. Len(resultCh) /\ l \in 1 .. Len(resultCh)
        BY <2>3, <3>1 DEF Printing, OnePerEntry
      <3>2. CASE k = Len(resultCh) + 1
        <4>1. resultCh'[k].index = i
          BY <2>1, <2>3, <3>2
        <4> QED
          BY <2>4, <2>5, <3>2, <4>1
      <3>3. CASE l = Len(resultCh) + 1
        <4>1. resultCh'[l].index = i
          BY <2>1, <2>3, <3>3
        <4> QED
          BY <2>4, <2>5, <3>3, <4>1
      <3> QED
        BY <2>5, <3>1, <3>2, <3>3
    <2>7. \A j \in Pos : Stored(j)' <=> Stored(j)
      BY <2>2 DEF Stored
    <2>8. ~Stored(i)
      BY <2>2 DEF Carried, Stored
    <2>9. \A j \in Pos : Waiting(j)' => Waiting(j) \/ j = i
      <3> SUFFICES ASSUME NEW j \in Pos, NEW k \in 1 .. Len(resultCh'),
                          resultCh'[k].index = j, j # i
                   PROVE  Waiting(j)
        BY DEF Waiting
      <3>1. k \in 1 .. Len(resultCh)
        BY <2>1, <2>3, <2>5
      <3> QED
        BY <2>3, <3>1 DEF Waiting
    <2>10. Tasks' = Tasks
      BY <2>2 DEF Tasks
    <2>11. \A j \in Pos : PrintedSoFar(j)' = PrintedSoFar(j)
      BY <2>2, <2>7, <2>10 DEF PrintedSoFar
    <2> QED
      BY <2>2, <2>6, <2>7, <2>8, <2>9, <2>10, <2>11 DEF Printing, EachRowOnce
  <1>5. CASE Receive
    <2> DEFINE res == Head(resultCh)
    <2>1. /\ Len(resultCh) \in Nat \ {0} /\ res = resultCh[1]
          /\ resultCh' = Tail(resultCh) /\ mpc = "receive"
          /\ UNCHANGED <<kept, given, json, mpc, pc>>
      BY <1>5 DEF Receive
    <2>2. /\ Len(resultCh') = Len(resultCh) - 1
          /\ \A k \in 1 .. Len(resultCh') : resultCh'[k] = resultCh[k + 1]
      BY <2>1
    <2>3. 1 \in 1 .. Len(resultCh)
      BY <2>1
    <2>4. /\ res.index \in Pos
          /\ res.verdict = row[res.index] /\ pc[res.index] \in {"done", "ended"}
      BY <2>1, <2>3, RowAt DEF Carried
    <2>5. res.verdict \in Answer \cup {"deadline"} /\ res.index \in Tasks
      BY <2>4 DEF Verdicts, Phases
    <2>6. /\ results' = [results EXCEPT ![res.index] = res.verdict]
          /\ printed' = [printed EXCEPT ![res.index] = @ + IF json THEN 0 ELSE 1]
      BY <1>5 DEF Receive
    <2>7. Waiting(res.index)
      BY <2>1, <2>3 DEF Waiting
    <2> HIDE DEF res
    <2>8. OnePerEntry'
      <3> SUFFICES ASSUME NEW k \in 1 .. Len(resultCh'), NEW l \in 1 .. Len(resultCh'),
                          resultCh'[k].index = resultCh'[l].index
                   PROVE  k = l
        BY DEF OnePerEntry
      <3>1. k + 1 \in 1 .. Len(resultCh) /\ l + 1 \in 1 .. Len(resultCh)
        BY <2>1, <2>2
      <3>2. resultCh[k + 1].index = resultCh[l + 1].index
        BY <2>2
      <3>3. k + 1 = l + 1
        BY <3>1, <3>2 DEF Printing, OnePerEntry
      <3> QED
        BY <3>3
    <2>9. \A j \in Pos : Waiting(j)' => Waiting(j) /\ j # res.index
      <3> SUFFICES ASSUME NEW j \in Pos, NEW k \in 1 .. Len(resultCh'),
                          resultCh'[k].index = j
                   PROVE  Waiting(j) /\ j # res.index
        BY DEF Waiting
      <3>1. k + 1 \in 1 .. Len(resultCh) /\ k + 1 # 1
        BY <2>1, <2>2
      <3>2. resultCh[k + 1].index = j
        BY <2>2
      <3> QED
        BY <2>1, <2>3, <3>1, <3>2 DEF Waiting, Printing, OnePerEntry
    <2>10. \A j \in Pos : Stored(j)' <=> Stored(j) \/ j = res.index
      BY <2>4, <2>5, <2>6 DEF Stored
    <2>11. Tasks' = Tasks /\ Tasks \subseteq kept
      BY <2>1 DEF Tasks
    <2>12. \A j \in Pos : printed'[j] = PrintedSoFar(j)'
      <3> SUFFICES ASSUME NEW j \in Pos PROVE printed'[j] = PrintedSoFar(j)'
        OBVIOUS
      <3>1. CASE j = res.index
        <4>1. ~Stored(j) /\ Stored(j)' /\ j \in Tasks /\ j \in kept
          BY <2>5, <2>7, <2>10, <2>11, <3>1 DEF Printing
        <4>2. printed[j] = 0
          BY <2>1, <4>1 DEF Printing, PrintedSoFar
        <4> QED
          BY <2>1, <2>4, <2>6, <2>11, <3>1, <4>1, <4>2 DEF PrintedSoFar
      <3>2. CASE j # res.index
        BY <2>1, <2>4, <2>6, <2>10, <2>11, <3>2 DEF Printing, PrintedSoFar
      <3> QED
        BY <3>1, <3>2
    <2>13. \A j \in Pos : /\ j \in Tasks => Stored(j)' \/ results'[j] = "partial"
                          /\ j \in kept \ Tasks => results'[j] = "invalid"
      BY <2>1, <2>4, <2>5, <2>6, <2>10 DEF Printing
    <2> QED
      BY <2>1, <2>8, <2>9, <2>10, <2>11, <2>12, <2>13 DEF Printing, EachRowOnce
  <1>6. CASE Report
    <2>1. /\ UNCHANGED <<results, resultCh, kept, given, json>> /\ resultCh = <<>>
          /\ closed /\ mpc = "receive" /\ mpc' = "exited"
          /\ printed' = [i \in Pos |-> printed[i] + IF json /\ i \in kept THEN 1 ELSE 0]
      BY <1>6 DEF Report
    <2>2. \A i \in Pos : ~Waiting(i) /\ ~Waiting(i)'
      BY <2>1 DEF Waiting
    <2>3. \A i \in Tasks : Stored(i)
      BY <2>1, <2>2 DEF Phases, Accounted, Stored, Tasks
    <2>4. \A i \in Pos : printed'[i] = IF i \in kept THEN 1 ELSE 0
      BY <2>1, <2>3 DEF Printing, PrintedSoFar
    <2>5. \A i \in kept : results'[i] # "partial"
      BY <2>1, <2>3 DEF Printing, Stored, Answer
    <2> QED
      BY <2>1, <2>2, <2>4, <2>5 DEF Printing, OnePerEntry, EachRowOnce
  <1> QED
    BY <1>1, <1>2, <1>3, <1>4, <1>5, <1>6 DEF Next, Main, Worker, Exited

\* A run that got past its configuration prints one row for each entry it kept,
\* in whatever order the connectors answer, and no row that was not checked.
THEOREM EachRowPrintedOnce == Spec => []EachRowOnce
  <1>1. Spec => [](TypeOK /\ Phases /\ Verdicts /\ Carried /\ Accounted /\ Printing)
    BY InitPhases, NextPhases, InitVerdicts, NextVerdicts, NextCarried,
       InitAccounted, NextAccounted, InitPrinting, NextPrinting, PTL DEF Spec
  <1>2. Printing => EachRowOnce
    BY DEF Printing
  <1> QED
    BY <1>1, <1>2, PTL

=============================================================================
