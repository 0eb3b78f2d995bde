---------------------------- MODULE CollectPool ----------------------------
(* The collection pool of `dbexplain collect`: the main goroutine starts one
   goroutine per DSN, at most Conn of them at a time, each of which runs the
   connector in a second goroutine, waits for its outcome or for the timer,
   sends one metric and appends its instance to a shared slice.  When all have
   finished the metrics channel is closed and drained.

   DSNs are the positions 1..N of the list.  The slice header that the
   goroutines share is modelled with its read and its write apart, as the
   mutex around them is what keeps them together.                           *)
EXTENDS Integers, Sequences, FiniteSets

CONSTANTS N,          \* number of DSNs
          Invalid,    \* those that do not parse
          Conn        \* the -conn flag

ASSUME PoolAssumption ==
  /\ N \in Nat
  /\ Invalid \subseteq 1 .. N
  /\ Conn \in Nat \ {0}

DSN == 1 .. N

VARIABLES mpc,        \* where the main goroutine stands
          next,       \* the DSN it starts next
          sem,        \* tokens in the semaphore channel
          wg,         \* the WaitGroup's counter
          pc,         \* pc[d]: where the goroutine of d stands
          sub,        \* sub[d]: the connector goroutine of d
          outcome,    \* outcome[d]: what its channel of one holds
          metricCh,   \* the metrics channel, of capacity N
          closed,     \* it has been closed
          mu,         \* who holds the mutex of the slice, 0 for nobody
          seen,       \* seen[d]: the slice as d read it
          instances,  \* the shared slice
          metrics     \* what the Collector has recorded

vars == <<mpc, next, sem, wg, pc, sub, outcome, metricCh, closed, mu, seen,
          instances, metrics>>

main    == <<mpc, next>>
channel == <<metricCh, closed, metrics>>
slice   == <<mu, seen, instances>>

Metric == [dsn : DSN, success : BOOLEAN]

Init ==
  /\ mpc = "acquire"
  /\ next = 1
  /\ sem = 0
  /\ wg = 0
  /\ pc = [d \in DSN |-> "none"]
  /\ sub = [d \in DSN |-> "none"]
  /\ outcome = [d \in DSN |-> "none"]
  /\ metricCh = <<>>
  /\ closed = FALSE
  /\ mu = 0
  /\ seen = [d \in DSN |-> {}]
  /\ instances = {}
  /\ metrics = <<>>

-----------------------------------------------------------------------------
(* The main goroutine. *)

\* A mutant of Acquire: no wg.Add(1).
AcquireUncounted ==
  /\ mpc = "acquire"
  /\ next <= N
  /\ sem < Conn
  /\ sem' = sem + 1
  /\ mpc' = "go"
  /\ UNCHANGED <<next, wg, pc, sub, outcome, channel, slice>>

\* wg.Add(1), and then the send to sem, which blocks while Conn tokens are out.
Acquire ==
  /\ mpc = "acquire"
  /\ next <= N
  /\ sem < Conn
  /\ wg' = wg + 1
  /\ sem' = sem + 1
  /\ mpc' = "go"
  /\ UNCHANGED <<next, pc, sub, outcome, channel, slice>>

Go ==
  /\ mpc = "go"
  /\ pc' = [pc EXCEPT ![next] = "parse"]
  /\ next' = next + 1
  /\ mpc' = "acquire"
  /\ UNCHANGED <<sem, wg, sub, outcome, channel, slice>>

\* wg.Wait() and close(metricCh).
Wait ==
  /\ mpc = "acquire"
  /\ next > N
  /\ wg = 0
  /\ closed' = TRUE
  /\ mpc' = "drain"
  /\ UNCHANGED <<next, sem, wg, pc, sub, outcome, metricCh, metrics, slice>>

Drain ==
  /\ mpc = "drain"
  /\ IF metricCh = <<>>
     THEN /\ mpc' = "report"
          /\ UNCHANGED <<metricCh, metrics>>
     ELSE /\ metrics' = Append(metrics, Head(metricCh))
          /\ metricCh' = Tail(metricCh)
          /\ UNCHANGED mpc
  /\ UNCHANGED <<next, sem, wg, pc, sub, outcome, closed, slice>>

-----------------------------------------------------------------------------
(* collectInstance, for one DSN. *)

\* A DSN that does not parse is logged: it has no metric and no instance.
Parse(d) ==
  /\ pc[d] = "parse"
  /\ IF d \in Invalid
     THEN /\ pc' = [pc EXCEPT ![d] = "release"]
          /\ UNCHANGED sub
     ELSE /\ pc' = [pc EXCEPT ![d] = "select"]
          /\ sub' = [sub EXCEPT ![d] = "running"]
  /\ UNCHANGED <<main, sem, wg, outcome, channel, slice>>

\* connector.Collect returns, with an instance or an error (a panic of the
\* connector is an error as well): maybe long after nobody waits for it.
SubEnds(d) ==
  /\ sub[d] = "running"
  /\ sub' = [sub EXCEPT ![d] = "ended"]
  /\ \E r \in {"ok", "err"} : outcome' = [outcome EXCEPT ![d] = r]
  /\ UNCHANGED <<main, sem, wg, pc, channel, slice>>

\* A send blocks while the channel holds N metrics.
Send(d, success) ==
  /\ Len(metricCh) < N
  /\ metricCh' = Append(metricCh, [dsn |-> d, success |-> success])
  /\ UNCHANGED <<closed, metrics>>

Succeed(d) ==
  /\ pc[d] = "select"
  /\ outcome[d] = "ok"
  /\ Send(d, TRUE)
  /\ pc' = [pc EXCEPT ![d] = "lock"]
  /\ UNCHANGED <<main, sem, wg, sub, outcome, slice>>

FailWithError(d) ==
  /\ pc[d] = "select"
  /\ outcome[d] = "err"
  /\ Send(d, FALSE)
  /\ pc' = [pc EXCEPT ![d] = "release"]
  /\ UNCHANGED <<main, sem, wg, sub, outcome, slice>>

\* A mutant of TimeOut: no return after the failure is sent.
TimeOutAndGoOn(d) ==
  /\ pc[d] = "select"
  /\ Send(d, FALSE)
  /\ UNCHANGED <<main, sem, wg, pc, sub, outcome, slice>>

\* The timer of perDSNTimeout: the connector goroutine is left behind.  When
\* its outcome is there as well the select takes either.
TimeOut(d) ==
  /\ pc[d] = "select"
  /\ Send(d, FALSE)
  /\ pc' = [pc EXCEPT ![d] = "release"]
  /\ UNCHANGED <<main, sem, wg, sub, outcome, slice>>

\* A mutant of LockSlice: the append is not under the mutex.
ReadSliceUnlocked(d) ==
  /\ pc[d] = "lock"
  /\ seen' = [seen EXCEPT ![d] = instances]
  /\ pc' = [pc EXCEPT ![d] = "append"]
  /\ UNCHANGED <<main, sem, wg, sub, outcome, channel, mu, instances>>

LockSlice(d) ==
  /\ pc[d] = "lock"
  /\ mu = 0
  /\ mu' = d
  /\ seen' = [seen EXCEPT ![d] = instances]
  /\ pc' = [pc EXCEPT ![d] = "append"]
  /\ UNCHANGED <<main, sem, wg, sub, outcome, channel, instances>>

AppendAndUnlock(d) ==
  /\ pc[d] = "append"
  /\ instances' = seen[d] \cup {d}
  /\ mu' = 0
  /\ seen' = [seen EXCEPT ![d] = {}]
  /\ pc' = [pc EXCEPT ![d] = "release"]
  /\ UNCHANGED <<main, sem, wg, sub, outcome, channel>>

\* A mutant of Release: the token is not given back.
KeepToken(d) ==
  /\ pc[d] = "release"
  /\ pc' = [pc EXCEPT ![d] = "done"]
  /\ UNCHANGED <<main, sem, wg, sub, outcome, channel, slice>>

\* The deferred receive from sem, ...
Release(d) ==
  /\ pc[d] = "release"
  /\ sem > 0
  /\ sem' = sem - 1
  /\ pc' = [pc EXCEPT ![d] = "done"]
  /\ UNCHANGED <<main, wg, sub, outcome, channel, slice>>

\* ... and, last, wg.Done().
Done(d) ==
  /\ pc[d] = "done"
  /\ wg' = wg - 1
  /\ pc' = [pc EXCEPT ![d] = "ended"]
  /\ UNCHANGED <<main, sem, sub, outcome, channel, slice>>

-----------------------------------------------------------------------------

Main == Acquire \/ Go \/ Wait \/ Drain

Collect(d) ==
  \/ Parse(d) \/ Succeed(d) \/ FailWithError(d) \/ TimeOut(d)
  \/ LockSlice(d) \/ AppendAndUnlock(d) \/ Release(d) \/ Done(d)

Finished == mpc = "report" /\ UNCHANGED vars

Next == Main \/ (\E d \in DSN : Collect(d) \/ SubEnds(d)) \/ Finished

\* Go schedules every goroutine that can run, and every timer fires.  A
\* connector may hang for ever.  The mutex is taken at most once by each
\* goroutine, so weak fairness is enough to get it.
Fairness == WF_vars(Main) /\ \A d \in DSN : WF_vars(Collect(d))

Spec == Init /\ [][Next]_vars /\ Fairness

-----------------------------------------------------------------------------
(* Properties *)

TypeOK ==
  /\ mpc \in {"acquire", "go", "drain", "report"}
  /\ next \in 1 .. N + 1
  /\ sem \in 0 .. Conn
  /\ wg \in Nat
  /\ pc \in [DSN -> {"none", "parse", "select", "lock", "append", "release",
                     "done", "ended"}]
  /\ sub \in [DSN -> {"none", "running", "ended"}]
  /\ outcome \in [DSN -> {"none", "ok", "err"}]
  /\ metricCh \in Seq(Metric)
  /\ closed \in BOOLEAN
  /\ mu \in 0 .. N
  /\ seen \in [DSN -> SUBSET DSN]
  /\ instances \in SUBSET DSN
  /\ metrics \in Seq(Metric)

\* The DSNs that are being collected: their goroutines hold a token.
Active == {d \in DSN : pc[d] \notin {"none", "done", "ended"}}

\* No more than Conn DSNs are being collected at a time (not counting the
\* connectors that a timeout left behind), whatever way a collection ends.
ConnRespected == Cardinality(Active) <= Conn

\* No goroutine is left that could send to the metrics channel once it is
\* closed, which would end the process.
NoSendOnClosed == closed => \A d \in DSN : pc[d] = "ended"

\* The channel has room for every metric: a goroutine that has a result never
\* waits for the main goroutine, which does not read before all have ended.
SendNeverBlocks == \A d \in DSN : pc[d] = "select" => Len(metricCh) < N

RangeOf(s) == {s[i] : i \in 1 .. Len(s)}

\* The report accounts for each DSN once: one metric for each that parses, and
\* an instance exactly for those whose metric says success.  No append is
\* lost, and no outcome that arrives after its timeout gets in.
ReportAccounts ==
  mpc = "report" =>
    /\ {m.dsn : m \in RangeOf(metrics)} = DSN \ Invalid
    /\ Len(metrics) = Cardinality(DSN \ Invalid)
    /\ instances = {m.dsn : m \in {x \in RangeOf(metrics) : x.success}}

\* The collection ends, even if every connector hangs.
CollectionEnds == <>(mpc = "report")

=============================================================================
