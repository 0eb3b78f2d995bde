----------------------------- MODULE QueryExec -----------------------------
(* The query pipeline of internal/executor as the commands drive it.  A
   process runs one statement (`execute`) or one after the other (`repl`).  A
   statement whose sources are all of one kind is sent to one of them; a
   federated one reads each of its sources, in no particular order, and joins
   the rows in memory.  A file is read on the spot.  For any other source a
   pipeline checks the SQL, takes the lock of the source's label, runs the
   query in a goroutine of its own and waits for the answer or the timer,
   whichever comes first.  After a timeout the goroutine is left behind.

   `execute` shares one QueryLock in the process; `repl` makes a new one for
   every pipeline.                                                          *)
EXTENDS Naturals, FiniteSets

CONSTANTS Proc,          \* dbexplain processes
          Repl,          \* those of them that run `repl`
          Label,         \* labels of the data sources
          File,          \* those of file data sources
          Table,         \* tables
          Source,        \* the @label.table references statements make
          MaxPipelines   \* bound: sources a process reads

ASSUME ExecAssumption ==
  /\ Repl \subseteq Proc
  /\ Source \subseteq [label : Label, table : Table]
  /\ Source # {} /\ IsFiniteSet(Source)
  /\ MaxPipelines \in Nat

\* A query goroutine: the process, the number of its pipeline, its source.
Task == [proc : Proc, id : 0 .. MaxPipelines, src : Source]

VARIABLES pc,         \* pc[p]: where the statement of p stands
          stmt,       \* stmt[p]: the sources the statement is to read
          since,      \* since[p]: the last pipeline before the statement
          todo,       \* todo[p]: those not yet read
          cur,        \* cur[p]: the pipeline p is in
          gathered,   \* gathered[p]: the tasks whose rows the statement has
          held,       \* held[p]: the labels locked in the QueryLock of p
          tasks,      \* goroutines whose query is running at a database
          answers,    \* answers in the channels of their pipelines
          verdict     \* verdict[p]: how the last statement of p ended

vars == <<pc, stmt, since, todo, cur, gathered, held, tasks, answers, verdict>>

Answer == [task : Task, ok : BOOLEAN]

NoTask(p) == [proc |-> p, id |-> 0, src |-> CHOOSE s \in Source : TRUE]

Init ==
  /\ pc = [p \in Proc |-> "idle"]
  /\ stmt = [p \in Proc |-> {}]
  /\ since = [p \in Proc |-> 0]
  /\ todo = [p \in Proc |-> {}]
  /\ cur = [p \in Proc |-> NoTask(p)]
  /\ gathered = [p \in Proc |-> {}]
  /\ held = [p \in Proc |-> {}]
  /\ tasks = {}
  /\ answers = {}
  /\ verdict = [p \in Proc |-> "none"]

-----------------------------------------------------------------------------

IsFile(s) == s.label \in File

\* A statement goes to one source, or reads sources of more than one kind.
Plans == {{s} : s \in Source} \cup
         {S \in SUBSET Source : \E s, t \in S : IsFile(s) /\ ~IsFile(t)}

\* A statement is read and bound to its sources.
Begin(p) ==
  /\ pc[p] = "idle"
  /\ \E S \in Plans :
       /\ cur[p].id + Cardinality(S) <= MaxPipelines
       /\ stmt' = [stmt EXCEPT ![p] = S]
       /\ todo' = [todo EXCEPT ![p] = S]
  /\ since' = [since EXCEPT ![p] = cur[p].id]
  /\ gathered' = [gathered EXCEPT ![p] = {}]
  /\ pc' = [pc EXCEPT ![p] = "next"]
  /\ verdict' = [verdict EXCEPT ![p] = "none"]
  /\ UNCHANGED <<cur, held, tasks, answers>>

\* The sources of a statement are read in the order of a map's iteration.
NextSource(p) ==
  /\ pc[p] = "next"
  /\ \E s \in todo[p] :
       /\ ~IsFile(s)
       /\ cur' = [cur EXCEPT ![p] = [proc |-> p, id |-> cur[p].id + 1, src |-> s]]
       /\ todo' = [todo EXCEPT ![p] = @ \ {s}]
  /\ pc' = [pc EXCEPT ![p] = "check"]
  /\ UNCHANGED <<stmt, since, gathered, held, tasks, answers, verdict>>

Error(p, why) ==
  /\ verdict' = [verdict EXCEPT ![p] = why]
  /\ todo' = [todo EXCEPT ![p] = {}]
  /\ gathered' = [gathered EXCEPT ![p] = {}]

\* os.Exit(1) takes the goroutines with it.
Exit(p, why) ==
  /\ Error(p, why)
  /\ pc' = [pc EXCEPT ![p] = "exited"]
  /\ tasks' = {t \in tasks : t.proc # p}
  /\ answers' = {a \in answers : a.task.proc # p}

\* What an error does: `execute` exits, `repl` prints it and reads the next
\* statement.
Fail(p, why) ==
  IF p \in Repl
  THEN /\ Error(p, why)
       /\ pc' = [pc EXCEPT ![p] = "idle"]
       /\ UNCHANGED <<tasks, answers>>
  ELSE Exit(p, why)

\* No connector for the source, or one a federated query cannot read.
NoConnector(p) ==
  /\ pc[p] = "next"
  /\ todo[p] # {}
  /\ Fail(p, "NO_CONNECTOR")
  /\ UNCHANGED <<stmt, since, cur, held>>

\* A file is read without lock, timer or goroutine.
ReadFile(p) ==
  /\ pc[p] = "next"
  /\ \E s \in todo[p] :
       LET t == [proc |-> p, id |-> cur[p].id + 1, src |-> s]
       IN  /\ IsFile(s)
           /\ cur' = [cur EXCEPT ![p] = t]
           /\ gathered' = [gathered EXCEPT ![p] = @ \cup {t}]
           /\ todo' = [todo EXCEPT ![p] = @ \ {s}]
  /\ UNCHANGED <<pc, stmt, since, held, tasks, answers, verdict>>

\* A statement on one file goes through HandleFileExecute, which exits on any
\* error, whichever command called it.
FileFails(p) ==
  /\ pc[p] = "next"
  /\ \E s \in todo[p] :
       /\ IsFile(s)
       /\ IF stmt[p] = {s} THEN Exit(p, "QUERY_ERROR") ELSE Fail(p, "QUERY_ERROR")
  /\ UNCHANGED <<stmt, since, cur, held>>

\* sqlguard or a policy rejects the query.
Reject(p) ==
  /\ pc[p] = "check"
  /\ Fail(p, "rejected")
  /\ UNCHANGED <<stmt, since, cur, held>>

\* A mutant of Release: the lock outlives the pipeline.
NoRelease(p) == UNCHANGED held

\* The deferred Unlock of the label.
Release(p) == held' = [held EXCEPT ![p] = @ \ {cur[p].src.label}]

\* QueryLock.Lock: TryLock on the label's mutex.  The fresh QueryLock of `repl`
\* has no label locked, and nobody else ever sees it.
Lock(p) ==
  /\ pc[p] = "check"
  /\ IF p \in Repl
     THEN /\ pc' = [pc EXCEPT ![p] = "locked"]
          /\ UNCHANGED <<todo, gathered, held, tasks, answers, verdict>>
     ELSE IF cur[p].src.label \in held[p]
          THEN /\ Fail(p, "CONCURRENT_LIMIT")
               /\ UNCHANGED held
          ELSE /\ held' = [held EXCEPT ![p] = @ \cup {cur[p].src.label}]
               /\ pc' = [pc EXCEPT ![p] = "locked"]
               /\ UNCHANGED <<todo, gathered, tasks, answers, verdict>>
  /\ UNCHANGED <<stmt, since, cur>>

\* The connector is not Queryable.
Unsupported(p) ==
  /\ pc[p] = "locked"
  /\ Release(p)
  /\ Fail(p, "QUERY_NOT_SUPPORTED")
  /\ UNCHANGED <<stmt, since, cur>>

Spawn(p) ==
  /\ pc[p] = "locked"
  /\ tasks' = tasks \cup {cur[p]}
  /\ pc' = [pc EXCEPT ![p] = "select"]
  /\ UNCHANGED <<stmt, since, todo, cur, gathered, held, answers, verdict>>

\* The goroutine's query ends.  Its channel has room for the one answer, so
\* it ends whether or not anybody waits for it.
TaskEnds(t) ==
  /\ t \in tasks
  /\ tasks' = tasks \ {t}
  /\ \E ok \in BOOLEAN : answers' = answers \cup {[task |-> t, ok |-> ok]}
  /\ UNCHANGED <<pc, stmt, since, todo, cur, gathered, held, verdict>>

\* A mutant of Inbox: the process has one channel for all its pipelines.
SharedInbox(p) == {a \in answers : a.task.proc = p}

\* The answers a pipeline can receive: what its own channel holds.
Inbox(p) == {a \in answers : a.task = cur[p]}

Receive(p) ==
  /\ pc[p] = "select"
  /\ \E a \in Inbox(p) :
       /\ a.ok
       /\ gathered' = [gathered EXCEPT ![p] = @ \cup {a.task}]
       /\ answers' = answers \ {a}
  /\ Release(p)
  /\ pc' = [pc EXCEPT ![p] = "next"]
  /\ UNCHANGED <<stmt, since, todo, cur, tasks, verdict>>

ReceiveError(p) ==
  /\ pc[p] = "select"
  /\ \E a \in Inbox(p) : ~a.ok
  /\ Release(p)
  /\ Fail(p, "QUERY_ERROR")
  /\ UNCHANGED <<stmt, since, cur>>

\* A mutant of Timeout: once the timer fires, the goroutine is waited for.
TimeoutJoins(p) ==
  /\ pc[p] = "select"
  /\ cur[p] \notin tasks
  /\ Release(p)
  /\ Fail(p, "QUERY_TIMEOUT")
  /\ UNCHANGED <<stmt, since, cur>>

\* The timer of TimeoutSec+5 seconds.
Timeout(p) ==
  /\ pc[p] = "select"
  /\ Release(p)
  /\ Fail(p, "QUERY_TIMEOUT")
  /\ UNCHANGED <<stmt, since, cur>>

\* The join of a federated statement, in memory, fails.
JoinFails(p) ==
  /\ pc[p] = "next"
  /\ todo[p] = {}
  /\ Cardinality(stmt[p]) > 1
  /\ Fail(p, "QUERY_ERROR")
  /\ UNCHANGED <<stmt, since, cur, held>>

\* All sources are read: the rows are joined, if need be, and printed.
Finish(p) ==
  /\ pc[p] = "next"
  /\ todo[p] = {}
  /\ verdict' = [verdict EXCEPT ![p] = "printed"]
  /\ pc' = [pc EXCEPT ![p] = IF p \in Repl THEN "idle" ELSE "exited"]
  /\ UNCHANGED <<stmt, since, todo, cur, gathered, held, tasks, answers>>

-----------------------------------------------------------------------------

Pipeline(p) ==
  \/ NextSource(p) \/ NoConnector(p) \/ ReadFile(p) \/ FileFails(p)
  \/ Reject(p) \/ Lock(p) \/ Unsupported(p) \/ Spawn(p)
  \/ Receive(p) \/ ReceiveError(p) \/ Timeout(p)
  \/ JoinFails(p) \/ Finish(p)

Next == \/ \E p \in Proc : Begin(p) \/ Pipeline(p)
        \/ \E t \in tasks : TaskEnds(t)

\* A process that has a statement goes on with it: its code blocks nowhere but
\* in the select, whose timer fires, and in the read of a local file, which is
\* taken to end.  Nothing is assumed of a query.
Fairness == \A p \in Proc : WF_vars(Pipeline(p))

Spec == Init /\ [][Next]_vars /\ Fairness

-----------------------------------------------------------------------------
(* Properties *)

TypeOK ==
  /\ pc \in [Proc -> {"idle", "next", "check", "locked", "select", "exited"}]
  /\ stmt \in [Proc -> SUBSET Source]
  /\ since \in [Proc -> 0 .. MaxPipelines]
  /\ todo \in [Proc -> SUBSET Source]
  /\ cur \in [Proc -> Task]
  /\ gathered \in [Proc -> SUBSET Task]
  /\ held \in [Proc -> SUBSET Label]
  /\ tasks \subseteq Task
  /\ answers \subseteq Answer
  /\ verdict \in [Proc -> {"none", "printed", "rejected", "NO_CONNECTOR",
                           "CONCURRENT_LIMIT", "QUERY_NOT_SUPPORTED",
                           "QUERY_ERROR", "QUERY_TIMEOUT"}]

\* A statement that reads several tables of one label never refuses itself:
\* every way out of a pipeline, the timeout with its query still running
\* included, has released the label before the next pipeline asks for it.
NeverRefused == \A p \in Proc : verdict[p] # "CONCURRENT_LIMIT"

\* What is printed is complete and of this statement: one answer for each of
\* its sources, none of them the late answer of an abandoned query.
PrintedIsWhole ==
  \A p \in Proc : verdict[p] = "printed" =>
    /\ {t.src : t \in gathered[p]} = stmt[p]
    /\ \A t, u \in gathered[p] : t.src = u.src => t = u
    /\ \A t \in gathered[p] : t.proc = p /\ t.id > since[p]

\* A statement ends, however long its queries hang.
StatementEnds == \A p \in Proc : pc[p] = "next" ~> pc[p] \in {"idle", "exited"}

\* What the comments of execQuery say of its errors ("no os.Exit"): a session
\* of `repl` ends by .exit or end of input, never by a statement.
SessionSurvives == \A p \in Repl : pc[p] # "exited"

=============================================================================
