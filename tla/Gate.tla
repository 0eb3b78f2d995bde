-------------------------------- MODULE Gate --------------------------------
(* One statement on its way through ExecQuery (src/internal/executor): the   *)
(* guard, the policy of its source, the rewriting (EXPLAIN or LIMIT), the    *)
(* source, and what is done to the answer before it is shown.  QueryExec has *)
(* the locks and timeouts around the same path; here is what it does to the  *)
(* statement and to the rows.  Guard, parser and rewriting are parameters;   *)
(* the lexer that reads a text is the code's own.                            *)
EXTENDS Policy, SqlLexer, SequencesExt

CONSTANTS Jobs,             \* [kind, key, sql, explain, chars, text, tree, query]
          Env,              \* the policy variables: "global" and the keys of sources
          MaxRows,          \* the number token of the -limit flag
          Answers,          \* results a source may return
          Verdict(_),       \* Validate of sqlguard.go
          LimitAdded(_, _)  \* AutoLimit of sqlguard.go

Name == Seq(STRING)

\* A list is a variable of the environment; the one of an empty key is none.
Variable == [tables : Seq(Name), columns : Seq(Name), statements : Seq(Name),
             masks : Seq([col : Name, repl : STRING])]

ASSUME GateAssumption ==
  /\ "global" \in DOMAIN Env /\ "" \notin DOMAIN Env
  /\ \A k \in DOMAIN Env : Env[k] \in Variable
  /\ \A r \in Answers :
       /\ r \in [columns : Seq(STRING), rows : Seq(Seq(STRING))]
       /\ \A i \in 1 .. Len(r.rows) : Len(r.rows[i]) = Len(r.columns)

\* The words of a Redis command are sequences of letters.
ASSUME KeysAssumption ==
  \A given \in Jobs : ~ given.sql /\ given.query.kind = "redis" =>
                        given.query.args \in Seq(Seq(STRING))

\* A statement is a sequence of characters.
ASSUME TextAssumption == \A given \in Jobs : given.chars \in Seq(STRING)

VARIABLES job,    \* what was submitted
          phase,  \* where it is
          sent,   \* the text the source gets
          raw,    \* what the source answered
          shown   \* what is handed to the output

vars == <<job, phase, sent, raw, shown>>

Nothing == [columns |-> <<>>, rows |-> <<>>]
policy == LoadPolicy(Env, job.key)

Init == /\ job \in Jobs
        /\ phase = "given"
        /\ sent = <<>> /\ raw = Nothing /\ shown = Nothing

-----------------------------------------------------------------------------

\* hasExplainPrefix and wrapExplain.  A text that starts with a longer word than
\* EXPLAIN, which is not wrapped either, does not get past the guard.
ExplainPrefix(kind) ==
  CASE kind = "mysql" -> <<"EXPLAIN", " ", "FORMAT", "=", "JSON", " ">>
    [] kind = "postgres" -> <<"EXPLAIN", " ", "(", "ANALYZE", ",", " ", "BUFFERS", ",", " ",
                              "FORMAT", " ", "TEXT", ")", " ">>
    [] kind = "gaussdb" -> <<"EXPLAIN", " ", "(", "ANALYZE", ",", " ", "FORMAT", " ",
                             "TEXT", ")", " ">>
    [] kind = "sqlite" -> <<"EXPLAIN", " ", "QUERY", " ", "PLAN", " ">>
    [] kind = "clickhouse" -> <<"EXPLAIN", " ", "PLAN", " ">>
    [] kind = "oracle" -> <<"EXPLAIN", " ", "PLAN", " ", "FOR", " ">>
    [] OTHER -> <<"EXPLAIN", " ">>

WrapExplain(ts, kind) ==
  IF Trim(ts) # <<>> /\ Head(Trim(ts)) = "EXPLAIN" THEN ts ELSE ExplainPrefix(kind) \o ts

Guard ==
  /\ phase = "given" /\ job.sql
  /\ phase' = CASE Verdict(job.text) = "allowed" -> "guarded"
                [] Verdict(job.text) = "rejected" -> "rejected"
                [] OTHER -> "crashed"
  /\ UNCHANGED <<job, sent, raw, shown>>

CheckStatement ==
  /\ phase = "guarded"
  /\ phase' = IF CheckSQL(policy, job.text) = "passed" THEN "checked" ELSE "denied"
  /\ UNCHANGED <<job, sent, raw, shown>>

\* A native query meets no guard and is sent as it is.
CheckNativeQuery ==
  /\ phase = "given" /\ ~ job.sql
  /\ IF CheckNative(policy, job.query) = "passed"
     THEN phase' = "ready" /\ sent' = job.query.words
     ELSE phase' = "denied" /\ UNCHANGED sent
  /\ UNCHANGED <<job, raw, shown>>

Rewrite ==
  /\ phase = "checked"
  /\ sent' = IF job.explain THEN WrapExplain(job.text, job.kind)
             ELSE LimitAdded(job.text, MaxRows)
  /\ phase' = "ready"
  /\ UNCHANGED <<job, raw, shown>>

SourceAnswers ==
  /\ phase = "ready"
  /\ raw' \in Answers
  /\ phase' = "answered"
  /\ UNCHANGED <<job, sent, shown>>

SourceFails ==
  /\ phase = "ready"
  /\ phase' = "failed"
  /\ UNCHANGED <<job, sent, raw, shown>>

\* Masks first, then the denied columns leave.
Show ==
  /\ phase = "answered"
  /\ \E choice \in MaskChoices(policy, raw) :
       shown' = StripDeniedColumns(policy, ApplyMask(policy, raw, choice))
  /\ phase' = "shown"
  /\ UNCHANGED <<job, sent, raw>>

Next == \/ Guard \/ CheckStatement \/ CheckNativeQuery \/ Rewrite
        \/ SourceAnswers \/ SourceFails \/ Show

Spec == Init /\ [][Next]_vars

-----------------------------------------------------------------------------
(* What the gate promises.                                                   *)

Passed == phase \in {"checked", "ready", "answered", "failed", "shown"}

\* What is shown of a column is what the source said under that name: of the
\* columns that are not denied none is missing, each is at its place, and every
\* row keeps their cells there and no other; a cell under a masked column is a
\* replacement unless it was empty, any other is the source's (ApplyMask, Strip).
ShownIsOwn ==
  phase = "shown" =>
    LET kept == Kept(policy, raw)
        Right(v, w, col) ==
          IF w = Null \/ Masks(policy, col) = {} THEN v = w
          ELSE v \in {policy.masks[m] : m \in Masks(policy, col)}
    IN  /\ Len(shown.columns) = Cardinality(kept) /\ Len(shown.rows) = Len(raw.rows)
        /\ \A r \in 1 .. Len(raw.rows) : Len(shown.rows[r]) = Cardinality(kept)
        /\ \A i \in kept :
             /\ shown.columns[Place(kept, i)] = raw.columns[i]
             /\ \A r \in 1 .. Len(raw.rows) :
                  Right(shown.rows[r][Place(kept, i)], raw.rows[r][i], raw.columns[i])

\* A source's own variables add to the global policy: what the global policy
\* refuses no source lets through, and a column masked for all is masked for
\* each, with the source's own text where it has one (Load).
PolicyAdds ==
  LET global == LoadPolicy(Env, "")
  IN  /\ Passed => IF job.sql THEN CheckSQL(global, job.text) = "passed"
                   ELSE CheckNative(global, job.query) = "passed"
      /\ \A m \in DOMAIN global.masks :
           /\ m \in DOMAIN policy.masks
           /\ job.key \in DOMAIN Env /\ m \in DOMAIN LoadMask(Env[job.key].masks)
                => policy.masks[m] = LoadMask(Env[job.key].masks)[m]

\* What the stars of a pattern may stand for: a cut of the name into as many
\* pieces as the pattern has letters, one letter for each that is no star and
\* none for the stroke that makes the letter after it stand for itself.
Globs(pattern, name) ==
  \E plain \in SUBSET (1 .. Len(pattern)) :
    /\ \A i \in 1 .. Len(pattern) :
         i \in plain <=> i > 1 /\ pattern[i - 1] = "\\" /\ i - 1 \notin plain
    /\ \E cut \in [0 .. Len(pattern) -> 0 .. Len(name)] :
         /\ cut[0] = 0 /\ cut[Len(pattern)] = Len(name)
         /\ \A i \in 1 .. Len(pattern) :
              \/ i \notin plain /\ pattern[i] = "*" /\ cut[i] >= cut[i - 1]
              \/ i \notin plain /\ pattern[i] = "\\" /\ i < Len(pattern) /\ cut[i] = cut[i - 1]
              \/ /\ i \in plain \/ pattern[i] \notin {"*", "\\"}
                 /\ cut[i] = cut[i - 1] + 1
                 /\ \/ pattern[i] = name[cut[i]]
                    \/ i \notin plain /\ pattern[i] = "?"

\* A Redis command is refused exactly when its first key fits a denied
\* pattern, however the stars have to stretch, or is the pattern letter for
\* letter (CheckNative, globMatch).
KeysGlobbed ==
  ~ job.sql /\ job.query.kind = "redis" /\ phase # "given"
    /\ ~ DeniedStatement(policy, job.query.words) =>
  (phase = "denied" <=>
     \E k \in RedisKeys(job.query), d \in Range(policy.tables) : Globs(d, k) \/ d = k)

\* The lexer drops nothing but white space and cuts as late as it can: the
\* tokens follow each other with blanks between them, two that touch could not
\* be one, and it gives up only at a character of no token, a lone ! or a
\* quote that is never closed (lexer.go).
LexedWhole ==
  job.sql /\ job.chars # <<>> =>
  LET cs == job.chars
      ts == Tokenize(cs)
      broken == ts # <<>> /\ Last(ts).class = "error"
      Blank(i, j) == \A k \in i .. j : cs[k] \in Blanks
      Glued(s, t) == /\ s.to + 1 = t.from
                     /\ \/ s.class \in {"word", "number"} /\ cs[t.from] \in Digits
                        \/ s.class = "word" /\ t.class = "word"
                        \/ s.class = "string" /\ cs[t.from] = cs[s.from]
                        \/ <<cs[s.to], cs[t.from]>> \in Pairs /\ s.from = s.to
      Open(i) == Cardinality({k \in i .. Len(cs) : cs[k] = cs[i]}) % 2 = 1
  IN  /\ \A n \in 1 .. Len(ts) - 1 : /\ Blank(ts[n].to + 1, ts[n + 1].from - 1)
                                     /\ ts[n].to < ts[n + 1].from
                                     /\ ~ Glued(ts[n], ts[n + 1])
      /\ IF ts = <<>> THEN Blank(1, Len(cs)) ELSE Blank(1, ts[1].from - 1)
      /\ ts # <<>> /\ ~ broken => Blank(Last(ts).to + 1, Len(cs))
      /\ broken => LET c == cs[Last(ts).from]
                   IN  IF c \in QuoteMarks THEN Open(Last(ts).from)
                       ELSE c \notin Letters \cup Digits \cup Marks \cup {"<", ">"}
=============================================================================
