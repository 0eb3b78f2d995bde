------------------------------ MODULE CheckRun ------------------------------
(* `dbexplain check`: every DSN that parses is checked by a goroutine of its
   own, which runs the connector in a second goroutine and takes its answer or
   the timer, whichever the select finds first.  The rows travel to the main
   goroutine through a channel that a third kind of goroutine closes.

   An entry of the configuration is the label its DSN carries, or Malformed
   for one that does not parse.  A row is abstracted to its verdict:
   "invalid" (syntax), "partial" (not yet checked), "ok", "err" (any error of
   the connector, the context's included), "deadline" (the timer).           *)
EXTENDS Integers, Sequences, FiniteSets

CONSTANTS N,          \* number of entries in the configuration
          Labels,
          Malformed,  \* an entry that does not parse
          NoLabel,    \* no --label on the command line
          Givens      \* the configurations

ASSUME CheckAssumption ==
  /\ N \in Nat
  /\ Malformed \notin Labels
  /\ NoLabel \notin Labels
  /\ Givens \subseteq [1 .. N -> Labels \cup {Malformed}]

Pos     == 1 .. N
Answer  == {"ok", "err"}
Verdict == Answer \cup {"invalid", "partial", "deadline"}
Writer  == {"stderr", "discard"}

VARIABLES given,      \* the entries loaded
          asked,      \* --label
          json,       \* --json
          mpc,        \* where the main goroutine stands
          kept,       \* the entries after the filter, by position
          results,    \* the slice of rows, one for each entry kept
          connOK, connFails, syntaxFails,
          wg,         \* the WaitGroup's counter
          pc,         \* pc[i]: where the goroutine of entry i stands
          row,        \* row[i]: its own copy of the row
          saved,      \* saved[i]: the log writer it will put back
          logOut,     \* the writer of the log package, one for the process
          sub,        \* sub[i]: its connector goroutine
          answer,     \* answer[i]: what the channel of one holds
          resultCh,   \* the channel of rows
          closed,
          printed,    \* printed[i]: how many rows have been printed for entry i
          exit        \* the exit status, 2 while the process runs

vars == <<given, asked, json, mpc, kept, results, connOK, connFails,
          syntaxFails, wg, pc, row, saved, logOut, sub, answer, resultCh,
          closed, printed, exit>>

flags   == <<given, asked, json>>
counts  == <<connOK, connFails, syntaxFails>>
report  == <<results, counts, printed, exit>>
log     == <<saved, logOut>>
conn    == <<sub, answer>>
channel == <<resultCh, closed>>

\* The entries that get a goroutine; the channel holds a row of each.
Tasks == {i \in kept : given[i] # Malformed}

Init ==
  /\ given \in Givens
  /\ asked \in Labels \cup {NoLabel}
  /\ json \in BOOLEAN
  /\ mpc = "load"
  /\ kept = {}
  /\ results = [i \in Pos |-> "none"]
  /\ connOK = 0 /\ connFails = 0 /\ syntaxFails = 0
  /\ wg = 0
  /\ pc = [i \in Pos |-> "none"]
  /\ row = [i \in Pos |-> "partial"]
  /\ saved = [i \in Pos |-> "stderr"]
  /\ logOut = "stderr"
  /\ sub = [i \in Pos |-> "none"]
  /\ answer = [i \in Pos |-> "none"]
  /\ resultCh = <<>>
  /\ closed = FALSE
  /\ printed = [i \in Pos |-> 0]
  /\ exit = 2

-----------------------------------------------------------------------------
(* The main goroutine, up to the start of the checks. *)

\* --label keeps the entries that parse and carry that label.
Filtered == {i \in Pos : asked = NoLabel \/ given[i] = asked}

Load ==
  /\ mpc = "load"
  /\ kept' = Filtered
  /\ IF Filtered = {}
     THEN mpc' = "exited" /\ exit' = 1
     ELSE mpc' = "parse"  /\ UNCHANGED exit
  /\ UNCHANGED <<flags, results, counts, wg, pc, row, log, conn, channel, printed>>

\* Every entry gets its row; a table starts with the rows that do not parse.
Parse ==
  /\ mpc = "parse"
  /\ results' = [i \in Pos |-> CASE i \in Tasks        -> "partial"
                                  [] i \in kept \ Tasks -> "invalid"
                                  [] OTHER             -> "none"]
  /\ syntaxFails' = Cardinality(kept \ Tasks)
  /\ printed' = [i \in Pos |-> IF ~json /\ i \in kept \ Tasks THEN 1 ELSE 0]
  /\ mpc' = "spawn"
  /\ UNCHANGED <<flags, kept, connOK, connFails, wg, pc, row, log, conn,
                 channel, exit>>

\* wg.Add(1) and go, for the entries in their order.
Spawn(i) ==
  /\ mpc = "spawn"
  /\ i \in Tasks
  /\ pc[i] = "none"
  /\ \A j \in Tasks : j < i => pc[j] # "none"
  /\ wg' = wg + 1
  /\ pc' = [pc EXCEPT ![i] = "start"]
  /\ UNCHANGED <<flags, mpc, kept, report, row, log, conn, channel>>

\* All are started, the goroutine that closes the channel as well.
Spawned ==
  /\ mpc = "spawn"
  /\ \A i \in Tasks : pc[i] # "none"
  /\ mpc' = "receive"
  /\ UNCHANGED <<flags, kept, report, wg, pc, row, log, conn, channel>>

-----------------------------------------------------------------------------
(* The goroutine of one entry. *)

\* It copies its row, and keeps the writer the log package has at this moment.
Save(i) ==
  /\ pc[i] = "start"
  /\ row' = [row EXCEPT ![i] = results[i]]
  /\ saved' = [saved EXCEPT ![i] = logOut]
  /\ pc' = [pc EXCEPT ![i] = "silence"]
  /\ UNCHANGED <<flags, mpc, kept, report, wg, logOut, conn, channel>>

\* The log is discarded, and the connector started.
Silence(i) ==
  /\ pc[i] = "silence"
  /\ logOut' = "discard"
  /\ sub' = [sub EXCEPT ![i] = "running"]
  /\ pc' = [pc EXCEPT ![i] = "select"]
  /\ UNCHANGED <<flags, mpc, kept, report, wg, row, saved, answer, channel>>

\* connector.Collect returns: maybe when nobody waits for it any more.  Its
\* channel has room for the answer, so that it ends either way.
CollectorEnds(i) ==
  /\ mpc # "exited"
  /\ sub[i] = "running"
  /\ sub' = [sub EXCEPT ![i] = "ended"]
  /\ \E a \in Answer : answer' = [answer EXCEPT ![i] = a]
  /\ UNCHANGED <<flags, mpc, kept, report, wg, pc, row, log, channel>>

Answered(i) ==
  /\ pc[i] = "select"
  /\ answer[i] # "none"
  /\ row' = [row EXCEPT ![i] = answer[i]]
  /\ pc' = [pc EXCEPT ![i] = "restore"]
  /\ UNCHANGED <<flags, mpc, kept, report, wg, log, conn, channel>>

\* A mutant of Timeout: the row is taken for connected unless an error came.
TimeoutIsOK(i) ==
  /\ pc[i] = "select"
  /\ row' = [row EXCEPT ![i] = "ok"]
  /\ pc' = [pc EXCEPT ![i] = "restore"]
  /\ UNCHANGED <<flags, mpc, kept, report, wg, log, conn, channel>>

\* A mutant of Timeout: no timer of its own, only the context's deadline,
\* which a connector may not look at.
TimeoutOfContext(i) ==
  /\ pc[i] = "select"
  /\ sub[i] = "ended"
  /\ row' = [row EXCEPT ![i] = "deadline"]
  /\ pc' = [pc EXCEPT ![i] = "restore"]
  /\ UNCHANGED <<flags, mpc, kept, report, wg, log, conn, channel>>

\* The timer: also when the answer is there, as select takes either.
Timeout(i) ==
  /\ pc[i] = "select"
  /\ row' = [row EXCEPT ![i] = "deadline"]
  /\ pc' = [pc EXCEPT ![i] = "restore"]
  /\ UNCHANGED <<flags, mpc, kept, report, wg, log, conn, channel>>

Restore(i) ==
  /\ pc[i] = "restore"
  /\ logOut' = saved[i]
  /\ pc' = [pc EXCEPT ![i] = "send"]
  /\ UNCHANGED <<flags, mpc, kept, report, wg, row, saved, conn, channel>>

Send(i) ==
  /\ pc[i] = "send"
  /\ Len(resultCh) < Cardinality(Tasks)
  /\ resultCh' = Append(resultCh, [index |-> i, verdict |-> row[i]])
  /\ pc' = [pc EXCEPT ![i] = "done"]
  /\ UNCHANGED <<flags, mpc, kept, report, wg, row, log, conn, closed>>

\* The deferred wg.Done().
Done(i) ==
  /\ pc[i] = "done"
  /\ wg' = wg - 1
  /\ pc' = [pc EXCEPT ![i] = "ended"]
  /\ UNCHANGED <<flags, mpc, kept, report, row, log, conn, channel>>

-----------------------------------------------------------------------------
(* The end of the run. *)

\* A mutant of Close: the channel is closed as soon as it is empty.
CloseWhenEmpty ==
  /\ mpc = "receive"
  /\ resultCh = <<>>
  /\ ~closed
  /\ closed' = TRUE
  /\ UNCHANGED <<flags, mpc, kept, report, wg, pc, row, log, conn, resultCh>>

\* A mutant of Close: it waits for one goroutine, and not for all of them.
CloseAfterFirst ==
  /\ mpc = "receive"
  /\ \E i \in Tasks : pc[i] = "ended"
  /\ ~closed
  /\ closed' = TRUE
  /\ UNCHANGED <<flags, mpc, kept, report, wg, pc, row, log, conn, resultCh>>

\* wg.Wait() and close(resultCh), in a goroutine of their own.
Close ==
  /\ mpc = "receive"
  /\ wg = 0
  /\ ~closed
  /\ closed' = TRUE
  /\ UNCHANGED <<flags, mpc, kept, report, wg, pc, row, log, conn, resultCh>>

\* A row is stored at its index and counted; a table prints it at once.
Receive ==
  /\ mpc = "receive"
  /\ resultCh # <<>>
  /\ LET res == Head(resultCh)
     IN  /\ results' = [results EXCEPT ![res.index] = res.verdict]
         /\ connOK' = connOK + IF res.verdict = "ok" THEN 1 ELSE 0
         /\ connFails' = connFails + IF res.verdict = "ok" THEN 0 ELSE 1
         /\ printed' = [printed EXCEPT ![res.index] = @ + IF json THEN 0 ELSE 1]
  /\ resultCh' = Tail(resultCh)
  /\ UNCHANGED <<flags, mpc, kept, syntaxFails, wg, pc, row, log, conn,
                 closed, exit>>

\* A mutant of Report: only failed connections make the command fail.
ReportConnections ==
  /\ mpc = "receive"
  /\ resultCh = <<>>
  /\ closed
  /\ printed' = [i \in Pos |-> printed[i] + IF json /\ i \in kept THEN 1 ELSE 0]
  /\ exit' = IF connFails > 0 THEN 1 ELSE 0
  /\ mpc' = "exited"
  /\ UNCHANGED <<flags, kept, results, counts, wg, pc, row, log, conn, channel>>

\* The channel is closed and drained: the summary (and in JSON the rows).
Report ==
  /\ mpc = "receive"
  /\ resultCh = <<>>
  /\ closed
  /\ printed' = [i \in Pos |-> printed[i] + IF json /\ i \in kept THEN 1 ELSE 0]
  /\ exit' = IF syntaxFails > 0 \/ connFails > 0 THEN 1 ELSE 0
  /\ mpc' = "exited"
  /\ UNCHANGED <<flags, kept, results, counts, wg, pc, row, log, conn, channel>>

Exited == mpc = "exited" /\ UNCHANGED vars

Main      == Load \/ Parse \/ (\E i \in Pos : Spawn(i)) \/ Spawned
             \/ Receive \/ Report
Select(i) == Answered(i) \/ Timeout(i)
Worker(i) == Save(i) \/ Silence(i) \/ Select(i) \/ Restore(i) \/ Send(i) \/ Done(i)

Next ==
  \/ Main
  \/ Close
  \/ \E i \in Pos : Worker(i) \/ CollectorEnds(i)
  \/ Exited

\* The Go scheduler runs every goroutine that can run, and a timer fires.  A
\* connector may never return.
Fairness ==
  /\ WF_vars(Main)
  /\ WF_vars(Close)
  /\ \A i \in Pos : WF_vars(Worker(i))

Spec == Init /\ [][Next]_vars /\ Fairness

-----------------------------------------------------------------------------
(* Properties. *)

Row == [index : Pos, verdict : Verdict \cup {"none"}]

\* The type of every variable; a WaitGroup that goes below zero would panic.
TypeOK ==
  /\ given \in [Pos -> Labels \cup {Malformed}]
  /\ asked \in Labels \cup {NoLabel}
  /\ json \in BOOLEAN
  /\ mpc \in {"load", "parse", "spawn", "receive", "exited"}
  /\ kept \subseteq Pos
  /\ results \in [Pos -> Verdict \cup {"none"}]
  /\ connOK \in Nat /\ connFails \in Nat /\ syntaxFails \in Nat
  /\ wg \in Nat
  /\ pc \in [Pos -> {"none", "start", "silence", "select", "restore", "send",
                     "done", "ended"}]
  /\ row \in [Pos -> Verdict \cup {"none"}]
  /\ saved \in [Pos -> Writer]
  /\ logOut \in Writer
  /\ sub \in [Pos -> {"none", "running", "ended"}]
  /\ answer \in [Pos -> Answer \cup {"none"}]
  /\ resultCh \in Seq(Row)
  /\ closed \in BOOLEAN
  /\ printed \in [Pos -> Nat]
  /\ exit \in {0, 1, 2}

\* A goroutine about to send finds room in the channel and the channel open,
\* however slowly the main goroutine reads: it can neither block nor panic.
SendsSafe ==
  \A i \in Pos : pc[i] = "send" => Len(resultCh) < Cardinality(Tasks) /\ ~closed

\* The row at an index is never another connector's verdict, nor one that its
\* own did not give: "ok" and "err" are only ever said by the connector.
RowsTruthful ==
  \A i \in Pos : results[i] \in {"ok", "err"} => answer[i] = results[i]

\* A run that got past its configuration has printed one row for each entry
\* it kept and none for another, and no row says that it was not checked.
EachRowOnce ==
  mpc = "exited" /\ kept # {} =>
    /\ \A i \in Pos : printed[i] = IF i \in kept THEN 1 ELSE 0
    /\ \A i \in kept : results[i] # "partial"

\* Status 0 means that every entry kept parses and that its connector, and
\* not the timer, has said so.
ExitTellsTruth ==
  exit = 0 => kept # {} /\ \A i \in kept : given[i] # Malformed /\ answer[i] = "ok"

\* The command ends, whatever the connectors do.
CheckEnds == <>(mpc = "exited")

=============================================================================
