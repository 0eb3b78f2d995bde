------------------------- MODULE CollectPool_proofs -------------------------
(* What holds of the collection pool for every number of DSNs, whichever of
   them are invalid, and every bound on concurrency.                        *)
EXTENDS CollectPool, FiniteSetTheorems, TLAPS

-----------------------------------------------------------------------------
(* Counting.  The tokens of the semaphore are the active goroutines, and the
   wait group counts those that have not ended; between Acquire and Go the
   main goroutine holds one of each for a goroutine that is yet to start.    *)

Unended == {d \in DSN : pc[d] \notin {"none", "ended"}}

Pending == IF mpc = "go" THEN 1 ELSE 0

Tokens == /\ sem = Cardinality(Active) + Pending
          /\ wg = Cardinality(Unended) + Pending

\* The goroutines of the DSNs from next on have not been started.
Started == /\ \A d \in DSN : pc[d] = "none" <=> d >= next
           /\ mpc = "go" => next <= N
           /\ mpc \in {"drain", "report"} => next > N

\* The counters of a set of DSNs.
LEMMA CountDSNs ==
  ASSUME NEW S \in SUBSET DSN
  PROVE  /\ Cardinality(S) \in 0 .. N
         /\ \A d \in S : Cardinality(S \ {d}) = Cardinality(S) - 1
         /\ \A d \in DSN \ S : Cardinality(S \cup {d}) = Cardinality(S) + 1
         /\ Cardinality(S) = 0 <=> S = {}
         /\ (\E d \in DSN : d \notin S) => Cardinality(S) < N
  <1>1. IsFiniteSet(DSN) /\ Cardinality(DSN) = N
    BY PoolAssumption, FS_Interval DEF DSN
  <1>2. /\ IsFiniteSet(S) /\ Cardinality(S) <= N
        /\ Cardinality(S) = N => S = DSN
    BY <1>1, FS_Subset
  <1>3. Cardinality(S) \in Nat
    BY <1>2, FS_CardinalityType
  <1>4. /\ \A d \in S : Cardinality(S \ {d}) = Cardinality(S) - 1
        /\ \A d \in DSN \ S : Cardinality(S \cup {d}) = Cardinality(S) + 1
    BY <1>2, FS_RemoveElement, FS_AddElement
  <1>5. Cardinality(S) = 0 <=> S = {}
    BY <1>2, FS_EmptySet
  <1> QED
    BY <1>2, <1>3, <1>4, <1>5, PoolAssumption

\* A channel of metrics takes and gives metrics.
LEMMA MetricSeq ==
  ASSUME NEW s \in Seq(Metric)
  PROVE  /\ \A m \in Metric : Append(s, m) \in Seq(Metric)
         /\ s # <<>> => Head(s) \in Metric /\ Tail(s) \in Seq(Metric)
  OBVIOUS

LEMMA InitType == Init => TypeOK /\ Tokens /\ Started
  <1> SUFFICES ASSUME Init PROVE TypeOK /\ Tokens /\ Started
    OBVIOUS
  <1>1. Active = {} /\ Unended = {} /\ Pending = 0
    BY DEF Init, Active, Unended, Pending
  <1>2. Cardinality({}) = 0
    BY FS_EmptySet
  <1>3. Tokens
    BY <1>1, <1>2 DEF Init, Tokens
  <1>4. /\ next \in 1 .. N + 1 /\ sem \in 0 .. Conn /\ mu \in 0 .. N
        /\ metricCh \in Seq(Metric) /\ metrics \in Seq(Metric)
    BY PoolAssumption DEF Init
  <1>6. TypeOK
    BY <1>4 DEF Init, TypeOK
  <1>5. Started
    BY PoolAssumption DEF Init, Started, DSN
  <1> QED
    BY <1>3, <1>5, <1>6

LEMMA NextType ==
  ASSUME TypeOK, Tokens, Started, [Next]_vars
  PROVE  TypeOK' /\ Tokens' /\ Started'
  <1> USE DEF TypeOK, main, channel, slice
  <1>a. Active \in SUBSET DSN /\ Unended \in SUBSET DSN
    BY DEF Active, Unended
  <1>0. /\ Cardinality(Active) \in Nat /\ Cardinality(Unended) \in Nat
        /\ Cardinality(Active) <= N
    BY <1>a, CountDSNs
  <1>1. CASE UNCHANGED vars
    BY <1>1 DEF vars, Tokens, Active, Unended, Pending, Started
  <1>2. CASE Acquire
    <2>1. Active' = Active /\ Unended' = Unended /\ Pending = 0 /\ Pending' = 1
      BY <1>2 DEF Acquire, Active, Unended, Pending
    <2>2. TypeOK'
      BY <1>2, PoolAssumption DEF Acquire
    <2> QED
      BY <1>0, <1>2, <2>1, <2>2 DEF Acquire, Tokens, Started
  <1>3. CASE Go
    <2>1. next \in DSN /\ pc[next] = "none"
      BY <1>3, PoolAssumption DEF Go, Started, DSN
    <2>2. /\ Active' = Active \cup {next} /\ next \notin Active
          /\ Unended' = Unended \cup {next} /\ next \notin Unended
          /\ Pending = 1 /\ Pending' = 0
      BY <1>3, <2>1 DEF Go, Active, Unended, Pending
    <2>3. /\ Cardinality(Active') = Cardinality(Active) + 1
          /\ Cardinality(Unended') = Cardinality(Unended) + 1
      BY <1>a, <2>1, <2>2, CountDSNs
    <2>4. TypeOK'
      BY <1>3, <2>1, PoolAssumption DEF Go, DSN
    <2>5. Started'
      BY <1>3, <2>1, PoolAssumption DEF Go, Started, DSN
    <2> QED
      BY <1>0, <1>3, <2>2, <2>3, <2>4, <2>5 DEF Go, Tokens
  <1>4. CASE Wait
    <2>1. Active' = Active /\ Unended' = Unended /\ Pending = 0 /\ Pending' = 0
      BY <1>4 DEF Wait, Active, Unended, Pending
    <2> QED
      BY <1>4, <2>1 DEF Wait, Tokens, Started
  <1>5. CASE Drain
    <2>1. Active' = Active /\ Unended' = Unended /\ Pending = 0 /\ Pending' = 0
      BY <1>5 DEF Drain, Active, Unended, Pending
    <2>2. metricCh' \in Seq(Metric) /\ metrics' \in Seq(Metric)
      <3>1. CASE metricCh = <<>>
        BY <1>5, <3>1 DEF Drain
      <3>2. CASE metricCh # <<>>
        <4>1. metrics' = Append(metrics, Head(metricCh)) /\ metricCh' = Tail(metricCh)
          BY <1>5, <3>2 DEF Drain
        <4>2. /\ Head(metricCh) \in Metric /\ Tail(metricCh) \in Seq(Metric)
              /\ metricCh \in Seq(Metric) /\ metrics \in Seq(Metric)
          BY <3>2, MetricSeq
        <4> QED
          BY <4>1, <4>2, MetricSeq
      <3> QED
        BY <3>1, <3>2
    <2> QED
      BY <1>5, <2>1, <2>2 DEF Drain, Tokens, Started
  <1>6. ASSUME NEW d \in DSN,
               \/ Parse(d) \/ Succeed(d) \/ FailWithError(d) \/ TimeOut(d)
               \/ LockSlice(d) \/ AppendAndUnlock(d) \/ SubEnds(d)
        PROVE  TypeOK' /\ Tokens' /\ Started'
    <2>1. /\ pc[d] \in {"parse", "select", "lock", "append"} \/ pc' = pc
          /\ pc' \in {pc} \cup {[pc EXCEPT ![d] = q] :
                                  q \in {"select", "lock", "append", "release"}}
          /\ UNCHANGED <<mpc, next, sem, wg>>
      BY <1>6 DEF Parse, Succeed, FailWithError, TimeOut, LockSlice,
                  AppendAndUnlock, SubEnds
    <2>2. Active' = Active /\ Unended' = Unended /\ Pending' = Pending
      BY <2>1 DEF Active, Unended, Pending
    <2>3. Tokens' /\ Started'
      BY <2>1, <2>2 DEF Tokens, Started
    <2>4. CASE Parse(d) \/ SubEnds(d)
      <3>1. /\ sub' \in [DSN -> {"none", "running", "ended"}]
            /\ outcome' \in [DSN -> {"none", "ok", "err"}]
        <4>1. CASE Parse(d)
          BY <4>1 DEF Parse
        <4>2. CASE SubEnds(d)
          BY <4>2 DEF SubEnds
        <4> QED
          BY <2>4, <4>1, <4>2
      <3>2. pc' \in [DSN -> {"none", "parse", "select", "lock", "append", "release",
                             "done", "ended"}]
        BY <2>1
      <3>3. UNCHANGED <<channel, slice>>
        BY <2>4 DEF Parse, SubEnds
      <3> QED
        BY <2>1, <2>3, <3>1, <3>2, <3>3
    <2>5. CASE LockSlice(d) \/ AppendAndUnlock(d)
      <3>1. /\ mu' \in 0 .. N
            /\ seen' \in [DSN -> SUBSET DSN] /\ instances' \in SUBSET DSN
        <4>1. d \in 0 .. N /\ 0 \in 0 .. N
          BY PoolAssumption DEF DSN
        <4>2. CASE LockSlice(d)
          BY <4>1, <4>2 DEF LockSlice
        <4>3. CASE AppendAndUnlock(d)
          <5>1. seen[d] \cup {d} \in SUBSET DSN
            OBVIOUS
          <5> QED
            BY <4>1, <4>3, <5>1 DEF AppendAndUnlock
        <4> QED
          BY <2>5, <4>2, <4>3
      <3> QED
        BY <2>1, <2>3, <2>5, <3>1 DEF LockSlice, AppendAndUnlock
    <2>6. CASE Succeed(d) \/ FailWithError(d) \/ TimeOut(d)
      <3>1. PICK s \in BOOLEAN : Send(d, s)
        BY <2>6 DEF Succeed, FailWithError, TimeOut
      <3>2. [dsn |-> d, success |-> s] \in Metric
        BY DEF Metric
      <3>3. metricCh' \in Seq(Metric) /\ UNCHANGED <<closed, metrics>>
        BY <3>1, <3>2 DEF Send
      <3> QED
        BY <2>3, <2>6, <3>3 DEF Succeed, FailWithError, TimeOut
    <2> QED
      BY <1>6, <2>4, <2>5, <2>6
  <1>7. ASSUME NEW d \in DSN, Release(d)
        PROVE  TypeOK' /\ Tokens' /\ Started'
    <2>1. /\ Active' = Active \ {d} /\ d \in Active
          /\ Unended' = Unended /\ Pending' = Pending
      BY <1>7 DEF Release, Active, Unended, Pending
    <2>2. Cardinality(Active') = Cardinality(Active) - 1
      BY <1>a, <2>1, CountDSNs
    <2>3. TypeOK'
      BY <1>7, PoolAssumption DEF Release
    <2>4. Tokens'
      <3>1. sem' = sem - 1 /\ wg' = wg /\ sem \in Nat
        BY <1>7, PoolAssumption DEF Release
      <3>2. Pending \in Nat
        BY DEF Pending
      <3> QED
        BY <1>0, <2>1, <2>2, <3>1, <3>2 DEF Tokens
    <2>5. Started'
      BY <1>7 DEF Release, Started
    <2> QED
      BY <2>3, <2>4, <2>5
  <1>8. ASSUME NEW d \in DSN, Done(d)
        PROVE  TypeOK' /\ Tokens' /\ Started'
    <2>1. /\ Unended' = Unended \ {d} /\ d \in Unended
          /\ Active' = Active /\ Pending' = Pending
      BY <1>8 DEF Done, Active, Unended, Pending
    <2>2. /\ Cardinality(Unended') = Cardinality(Unended) - 1
          /\ Cardinality(Unended) > 0
      BY <1>a, <1>0, <2>1, CountDSNs
    <2>3. wg' \in Nat
      BY <1>0, <1>8, <2>2 DEF Done, Tokens, Pending
    <2>4. TypeOK'
      BY <1>8, <2>3 DEF Done
    <2>5. Tokens'
      BY <1>0, <1>8, <2>1, <2>2 DEF Done, Tokens, Pending
    <2>6. Started'
      BY <1>8 DEF Done, Started
    <2> QED
      BY <2>4, <2>5, <2>6
  <1> QED
    BY <1>1, <1>2, <1>3, <1>4, <1>5, <1>6, <1>7, <1>8
    DEF Next, Main, Collect, Finished

\* Every variable of the pool keeps its type; in particular the semaphore never
\* holds more than Conn tokens and the wait group never goes below zero, which
\* would be a panic.
THEOREM TypeCorrect == Spec => []TypeOK
  <1>1. Spec => [](TypeOK /\ Tokens /\ Started)
    BY InitType, NextType, PTL DEF Spec
  <1> QED
    BY <1>1, PTL

\* At most Conn DSNs are being collected at any time.
THEOREM ConnAlwaysRespected == Spec => []ConnRespected
  <1>1. TypeOK /\ Tokens => ConnRespected
    <2> SUFFICES ASSUME TypeOK, Tokens PROVE ConnRespected
      OBVIOUS
    <2>1. Cardinality(Active) \in Nat
      BY CountDSNs DEF Active
    <2> QED
      BY <2>1, PoolAssumption DEF TypeOK, Tokens, Pending, ConnRespected
  <1>2. Spec => [](TypeOK /\ Tokens /\ Started)
    BY InitType, NextType, PTL DEF Spec
  <1> QED
    BY <1>1, <1>2, PTL

-----------------------------------------------------------------------------
(* The metrics channel is closed when every goroutine has ended. *)

Closing == /\ closed <=> mpc \in {"drain", "report"}
           /\ closed => \A d \in DSN : pc[d] = "ended"
           /\ mpc = "report" => metricCh = <<>>

LEMMA InitClosing == Init => Closing
  BY DEF Init, Closing

LEMMA NextClosing ==
  ASSUME TypeOK, Tokens, Started, Closing, [Next]_vars
  PROVE  Closing'
  <1> USE DEF Closing, main, channel
  <1>1. CASE UNCHANGED vars
    BY <1>1 DEF vars
  <1>2. CASE Acquire
    BY <1>2 DEF Acquire
  <1>3. CASE Go
    BY <1>3 DEF Go
  <1>4. CASE Wait
    <2>1. Unended \in SUBSET DSN
      BY DEF Unended
    <2>2. Unended = {}
      <3>1. wg = 0 /\ Pending = 0 /\ Cardinality(Unended) \in Nat
        BY <1>4, <2>1, CountDSNs DEF Wait, Pending
      <3> QED
        BY <2>1, <3>1, CountDSNs DEF Tokens
    <2>3. \A d \in DSN : pc[d] # "none"
      BY <1>4, PoolAssumption DEF Wait, Started, DSN, TypeOK
    <2>4. \A d \in DSN : pc[d] = "ended"
      BY <2>2, <2>3 DEF Unended
    <2> QED
      BY <1>4, <2>4 DEF Wait
  <1>5. CASE Drain
    BY <1>5 DEF Drain
  <1>6. ASSUME NEW d \in DSN, Collect(d)
        PROVE  Closing'
    <2>1. pc[d] # "ended" /\ UNCHANGED mpc /\ UNCHANGED closed
      BY <1>6 DEF Collect, Parse, Succeed, FailWithError, TimeOut, Send,
                  LockSlice, AppendAndUnlock, Release, Done
    <2> QED
      BY <2>1
  <1>7. ASSUME NEW d \in DSN, SubEnds(d)
        PROVE  Closing'
    BY <1>7 DEF SubEnds
  <1> QED
    BY <1>1, <1>2, <1>3, <1>4, <1>5, <1>6, <1>7 DEF Next, Main, Finished

\* Nobody is left to send to the metrics channel when it is closed.
THEOREM NeverSendsOnClosed == Spec => []NoSendOnClosed
  <1>1. Closing => NoSendOnClosed
    BY DEF Closing, NoSendOnClosed
  <1>2. Spec => [](TypeOK /\ Tokens /\ Started /\ Closing)
    BY InitType, NextType, InitClosing, NextClosing, PTL DEF Spec
  <1> QED
    BY <1>1, <1>2, PTL

-----------------------------------------------------------------------------
(* Accounting.  Each DSN that parses sends one metric on its way out of the
   select, and the slice gains the instances of those that sent a success.   *)

\* What a channel holds after a send, and before a receive.
LEMMA RangeOfAppend ==
  ASSUME NEW s \in Seq(Metric), NEW m \in Metric
  PROVE  /\ RangeOf(Append(s, m)) = RangeOf(s) \cup {m}
         /\ Len(Append(s, m)) = Len(s) + 1
  <1>1. Len(s) \in Nat /\ Len(Append(s, m)) = Len(s) + 1
    OBVIOUS
  <1>2. \A i \in 1 .. Len(s) : Append(s, m)[i] = s[i]
    OBVIOUS
  <1>3. Append(s, m)[Len(s) + 1] = m
    OBVIOUS
  <1>4. 1 .. Len(s) + 1 = 1 .. Len(s) \cup {Len(s) + 1}
    BY <1>1
  <1> QED
    BY <1>1, <1>2, <1>3, <1>4 DEF RangeOf

LEMMA RangeOfTail ==
  ASSUME NEW s \in Seq(Metric), s # <<>>
  PROVE  /\ RangeOf(s) = RangeOf(Tail(s)) \cup {Head(s)}
         /\ Len(s) = Len(Tail(s)) + 1
  <1>1. Len(s) \in Nat \ {0} /\ Len(Tail(s)) = Len(s) - 1 /\ Head(s) = s[1]
    OBVIOUS
  <1>2. \A i \in 1 .. Len(Tail(s)) : Tail(s)[i] = s[i + 1]
    OBVIOUS
  <1>3. \A i \in 1 .. Len(s) : i = 1 \/ (i - 1 \in 1 .. Len(Tail(s)) /\ i = (i - 1) + 1)
    BY <1>1
  <1>4. \A i \in 1 .. Len(Tail(s)) : i + 1 \in 1 .. Len(s)
    BY <1>1
  <1>5. 1 \in 1 .. Len(s)
    BY <1>1
  <1>6. RangeOf(s) \subseteq RangeOf(Tail(s)) \cup {Head(s)}
    BY <1>1, <1>2, <1>3 DEF RangeOf
  <1>7. RangeOf(Tail(s)) \cup {Head(s)} \subseteq RangeOf(s)
    BY <1>1, <1>2, <1>4, <1>5 DEF RangeOf
  <1> QED
    BY <1>1, <1>6, <1>7

Recorded == RangeOf(metricCh) \cup RangeOf(metrics)

\* The DSNs that have sent their metric.
Sent == {d \in DSN \ Invalid :
           pc[d] \in {"lock", "append", "release", "done", "ended"}}

Appended ==
  \A d \in DSN : (\E m \in Recorded : m.dsn = d /\ m.success) <=>
                    (d \in instances \/ pc[d] \in {"lock", "append"})

\* The mutex: a goroutine between its read and its write of the slice holds it,
\* and has read the slice as it still is.
Exclusive == \A d \in DSN : pc[d] = "append" => mu = d /\ seen[d] = instances

Accounting ==
  /\ \A d \in DSN : pc[d] \in {"select", "lock", "append"} => d \notin Invalid
  /\ {m.dsn : m \in Recorded} = Sent
  /\ Len(metricCh) + Len(metrics) = Cardinality(Sent)
  /\ Appended
  /\ Exclusive

LEMMA InitAccounting == Init => Accounting
  <1> SUFFICES ASSUME Init PROVE Accounting
    OBVIOUS
  <1>1. Recorded = {} /\ Sent = {} /\ Len(metricCh) + Len(metrics) = 0
    BY DEF Init, Recorded, Sent, RangeOf
  <1>2. Cardinality({}) = 0
    BY FS_EmptySet
  <1> QED
    BY <1>1, <1>2 DEF Init, Accounting, Appended, Exclusive

\* A goroutine that leaves the select has one more metric recorded, its own.
LEMMA SendAccounts ==
  ASSUME TypeOK, Accounting, NEW d \in DSN, NEW s \in BOOLEAN,
         pc[d] = "select", Send(d, s),
         pc' = [pc EXCEPT ![d] = IF s THEN "lock" ELSE "release"],
         UNCHANGED <<mu, seen, instances>>
  PROVE  Accounting'
  <1> DEFINE m == [dsn |-> d, success |-> s]
  <1>1. m \in Metric /\ m.dsn = d /\ m.success = s
    BY DEF Metric
  <1>2. metricCh' = Append(metricCh, m) /\ metrics' = metrics
    BY DEF Send
  <1>3. /\ Recorded' = Recorded \cup {m}
        /\ Len(metricCh') = Len(metricCh) + 1
        /\ Len(metricCh) \in Nat /\ Len(metrics) \in Nat
    BY <1>1, <1>2, RangeOfAppend DEF Recorded, TypeOK
  <1>4. d \notin Invalid /\ d \notin Sent /\ Sent' = Sent \cup {d}
    BY DEF Accounting, Sent, TypeOK
  <1>5. Sent \in SUBSET DSN
    BY DEF Sent
  <1>6. Cardinality(Sent') = Cardinality(Sent) + 1 /\ Cardinality(Sent) \in Nat
    BY <1>4, <1>5, CountDSNs
  <1>7. {x.dsn : x \in Recorded'} = Sent'
    BY <1>1, <1>3, <1>4 DEF Accounting
  <1>8. d \notin instances /\ ~\E x \in Recorded : x.dsn = d
    BY <1>4 DEF Accounting, Appended
  <1>9. Appended'
    BY <1>1, <1>3, <1>8 DEF Accounting, Appended, TypeOK
  <1>10. Exclusive'
    BY DEF Accounting, Exclusive, TypeOK
  <1>11. \A e \in DSN : pc'[e] \in {"select", "lock", "append"} => e \notin Invalid
    BY <1>4 DEF Accounting, TypeOK
  <1>12. Len(metricCh') + Len(metrics') = Cardinality(Sent')
    BY <1>2, <1>3, <1>6 DEF Accounting
  <1> QED
    BY <1>7, <1>9, <1>10, <1>11, <1>12 DEF Accounting

LEMMA NextAccounting ==
  ASSUME TypeOK, Started, Accounting, [Next]_vars
  PROVE  Accounting'
  <1> USE DEF main, channel, slice
  <1>1. CASE UNCHANGED vars
    BY <1>1 DEF vars, Accounting, Appended, Exclusive, Recorded, Sent
  <1>2. CASE Acquire \/ Wait
    BY <1>2 DEF Acquire, Wait, Accounting, Appended, Exclusive, Recorded, Sent
  <1>3. CASE Go
    <2>1. /\ pc[next] = "none" /\ next \in DSN
          /\ pc' = [pc EXCEPT ![next] = "parse"]
          /\ UNCHANGED <<metricCh, metrics, mu, seen, instances>>
      BY <1>3, PoolAssumption DEF Go, Started, DSN, TypeOK
    <2>2. Sent' = Sent /\ Recorded' = Recorded
      BY <2>1 DEF Sent, Recorded, TypeOK
    <2>3. Appended' /\ Exclusive'
      BY <2>1, <2>2 DEF Accounting, Appended, Exclusive, TypeOK
    <2> QED
      BY <2>1, <2>2, <2>3 DEF Accounting, TypeOK
  <1>4. CASE Drain
    <2>1. UNCHANGED <<pc, mu, seen, instances>>
      BY <1>4 DEF Drain
    <2>2. Recorded' = Recorded /\ Len(metricCh') + Len(metrics') = Len(metricCh) + Len(metrics)
      <3>1. CASE metricCh = <<>>
        BY <1>4, <3>1 DEF Drain, Recorded
      <3>2. CASE metricCh # <<>>
        <4>1. metrics' = Append(metrics, Head(metricCh)) /\ metricCh' = Tail(metricCh)
          BY <1>4, <3>2 DEF Drain
        <4>2. /\ Head(metricCh) \in Metric /\ Tail(metricCh) \in Seq(Metric)
              /\ metricCh \in Seq(Metric) /\ metrics \in Seq(Metric)
          BY <3>2, MetricSeq DEF TypeOK
        <4>3. /\ RangeOf(metrics') = RangeOf(metrics) \cup {Head(metricCh)}
              /\ Len(metrics') = Len(metrics) + 1
          BY <4>1, <4>2, RangeOfAppend
        <4>4. /\ RangeOf(metricCh) = RangeOf(metricCh') \cup {Head(metricCh)}
              /\ Len(metricCh) = Len(metricCh') + 1
              /\ Len(metricCh') \in Nat /\ Len(metrics) \in Nat
          BY <3>2, <4>1, <4>2, RangeOfTail
        <4> QED
          BY <4>3, <4>4 DEF Recorded
      <3> QED
        BY <3>1, <3>2
    <2>3. Sent' = Sent
      BY <2>1 DEF Sent
    <2> QED
      BY <2>1, <2>2, <2>3 DEF Accounting, Appended, Exclusive
  <1>5. ASSUME NEW d \in DSN, Succeed(d) \/ FailWithError(d) \/ TimeOut(d)
        PROVE  Accounting'
    <2>1. CASE Succeed(d)
      BY <2>1, SendAccounts DEF Succeed
    <2>2. CASE FailWithError(d) \/ TimeOut(d)
      BY <2>2, SendAccounts DEF FailWithError, TimeOut
    <2> QED
      BY <1>5, <2>1, <2>2
  <1>6. ASSUME NEW d \in DSN, Parse(d) \/ SubEnds(d) \/ Release(d) \/ Done(d)
        PROVE  Accounting'
    <2>1. /\ UNCHANGED <<metricCh, metrics, mu, seen, instances>>
          /\ \/ pc' = pc
             \/ pc[d] = "parse" /\ d \notin Invalid /\ pc' = [pc EXCEPT ![d] = "select"]
             \/ pc[d] = "parse" /\ d \in Invalid /\ pc' = [pc EXCEPT ![d] = "release"]
             \/ pc[d] = "release" /\ pc' = [pc EXCEPT ![d] = "done"]
             \/ pc[d] = "done" /\ pc' = [pc EXCEPT ![d] = "ended"]
      BY <1>6 DEF Parse, SubEnds, Release, Done
    <2>2. Recorded' = Recorded /\ Sent' = Sent
      BY <2>1 DEF Recorded, Sent, TypeOK
    <2>3. Appended' /\ Exclusive'
      BY <2>1, <2>2 DEF Accounting, Appended, Exclusive, TypeOK
    <2>4. \A e \in DSN : pc'[e] \in {"select", "lock", "append"} => e \notin Invalid
      BY <2>1 DEF Accounting, TypeOK
    <2> QED
      BY <2>1, <2>2, <2>3, <2>4 DEF Accounting
  <1>7. ASSUME NEW d \in DSN, LockSlice(d) \/ AppendAndUnlock(d)
        PROVE  Accounting'
    <2>1. /\ UNCHANGED <<metricCh, metrics>>
          /\ \/ /\ pc[d] = "lock" /\ pc' = [pc EXCEPT ![d] = "append"]
                /\ mu = 0 /\ mu' = d
                /\ seen' = [seen EXCEPT ![d] = instances] /\ instances' = instances
             \/ /\ pc[d] = "append" /\ pc' = [pc EXCEPT ![d] = "release"]
                /\ instances' = seen[d] \cup {d} /\ mu' = 0
                /\ seen' = [seen EXCEPT ![d] = {}]
      BY <1>7 DEF LockSlice, AppendAndUnlock
    <2>2. d # 0 /\ 0 \notin DSN
      BY PoolAssumption DEF DSN
    <2>3. Recorded' = Recorded /\ Sent' = Sent
      BY <2>1 DEF Recorded, Sent, TypeOK
    <2>4. pc[d] = "append" => seen[d] = instances
      BY DEF Accounting, Exclusive
    <2>5. Appended'
      BY <2>1, <2>3, <2>4 DEF Accounting, Appended, TypeOK
    <2>6. \A e \in DSN : pc[e] = "append" /\ e # d => mu = e
      BY DEF Accounting, Exclusive
    <2>7. Exclusive'
      BY <2>1, <2>2, <2>6 DEF Accounting, Exclusive, TypeOK
    <2>8. \A e \in DSN : pc'[e] \in {"select", "lock", "append"} => e \notin Invalid
      BY <2>1 DEF Accounting, TypeOK
    <2> QED
      BY <2>1, <2>3, <2>5, <2>7, <2>8 DEF Accounting
  <1> QED
    BY <1>1, <1>2, <1>3, <1>4, <1>5, <1>6, <1>7 DEF Next, Main, Collect, Finished

LEMMA PoolInvariant ==
  Spec => [](TypeOK /\ Tokens /\ Started /\ Closing /\ Accounting)
  BY InitType, NextType, InitClosing, NextClosing, InitAccounting,
     NextAccounting, PTL DEF Spec

\* A goroutine with a result to send always finds room in the channel.
THEOREM SendsNeverBlock == Spec => []SendNeverBlocks
  <1>1. TypeOK /\ Accounting => SendNeverBlocks
    <2> SUFFICES ASSUME TypeOK, Accounting, NEW d \in DSN, pc[d] = "select"
                 PROVE  Len(metricCh) < N
      BY DEF SendNeverBlocks
    <2>1. Sent \in SUBSET DSN /\ d \notin Sent
      BY DEF Sent
    <2>2. Cardinality(Sent) < N /\ Cardinality(Sent) \in Nat
      BY <2>1, CountDSNs
    <2>3. Len(metricCh) \in Nat /\ Len(metrics) \in Nat
      BY DEF TypeOK
    <2> QED
      BY <2>2, <2>3, PoolAssumption DEF Accounting
  <1> QED
    BY <1>1, PoolInvariant, PTL

\* When the report is made it accounts for each DSN that parses, once, and has
\* exactly the instances of those whose metric says success.
THEOREM ReportAlwaysAccounts == Spec => []ReportAccounts
  <1>1. TypeOK /\ Closing /\ Accounting => ReportAccounts
    <2> SUFFICES ASSUME TypeOK, Closing, Accounting, mpc = "report"
                 PROVE  /\ {m.dsn : m \in RangeOf(metrics)} = DSN \ Invalid
                        /\ Len(metrics) = Cardinality(DSN \ Invalid)
                        /\ instances =
                             {m.dsn : m \in {x \in RangeOf(metrics) : x.success}}
      BY DEF ReportAccounts
    <2>1. metricCh = <<>> /\ \A d \in DSN : pc[d] = "ended"
      BY DEF Closing
    <2>2. Sent = DSN \ Invalid
      BY <2>1 DEF Sent
    <2>3. Recorded = RangeOf(metrics) /\ Len(metricCh) = 0
      BY <2>1 DEF Recorded, RangeOf
    <2>4. \A d \in DSN : d \in instances <=> \E m \in RangeOf(metrics) : m.dsn = d /\ m.success
      BY <2>1, <2>3 DEF Accounting, Appended
    <2>5. \A m \in RangeOf(metrics) : m.dsn \in DSN
      <3>1. \A i \in 1 .. Len(metrics) : metrics[i] \in Metric
        BY DEF TypeOK
      <3> QED
        BY <3>1 DEF RangeOf, Metric
    <2>6. instances \subseteq DSN /\ Len(metrics) \in Nat
      BY DEF TypeOK
    <2> QED
      BY <2>2, <2>3, <2>4, <2>5, <2>6 DEF Accounting
  <1> QED
    BY <1>1, PoolInvariant, PTL

=============================================================================
