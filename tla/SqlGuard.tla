------------------------------ MODULE SqlGuard ------------------------------
(* The read-only guard of src/internal/sqlguard/sqlguard.go: Validate, which *)
(* says whether a statement may run, and AutoLimit, which adds a LIMIT to    *)
(* one that has none.  Both work on the text and, where the parser takes it, *)
(* on its tree.  The tests on the text look for letters and white space, not  *)
(* for tokens: a text is its tokens with the white space between them, and   *)
(* two words that touch would be one.  Of a string token only the words and  *)
(* semicolons in it count, parentheses and quotes in it and comments are not *)
(* modelled.                                                                 *)
EXTENDS SqlParser, WhiteSpace, FiniteSets, SequencesExt

CONSTANTS Inside,    \* <<string token, word it holds between blanks, or a semicolon>>
          Endings,   \* <<identifier, letters of a keyword it ends in>>
          Variables  \* tokens that start with @ or :

ASSUME GuardAssumption ==
  Inside \subseteq Text \X STRING /\ Endings \subseteq Ident \X STRING

WriteOps == {"INSERT", "UPDATE", "DELETE", "DROP", "ALTER", "CREATE", "TRUNCATE",
             "RENAME", "REPLACE", "GRANT", "REVOKE", "MERGE", "UPSERT", "LOAD",
             "IMPORT", "EXPORT", "ANALYZE", "REINDEX", "KILL", "SHUTDOWN",
             "FLUSH", "SET", "RESET", "INSTALL", "UNINSTALL", "CALL", "PURGE"}

ReadOps == {"SELECT", "WITH", "SHOW", "DESCRIBE", "DESC", "PRAGMA", "CHECK"}

Positions(ts, t) == {i \in 1 .. Len(ts) : ts[i] = t}
From(ts, i) == SubSeq(ts, i, Len(ts))

\* strings.Index: the first of some positions, from one on; 0 when there is none.
First(positions, from) ==
  LET later == {i \in positions : i >= from}
  IN  IF later = {} THEN 0 ELSE CHOOSE i \in later : \A j \in later : i <= j

\* The letters of a word and then a member of S: at the end of a token, which
\* may be a longer one, or inside a string.
Spelled(ts, i, word, S) ==
  \/ <<ts[i], word>> \in Inside
  \/ (ts[i] = word \/ <<ts[i], word>> \in Endings) /\ At(ts, i + 1) \in S

\* What comes before white space or one of the marks.
Run(ts, marks) ==
  LET n == CHOOSE n \in 0 .. Len(ts) :
             /\ \A i \in 1 .. n : ts[i] \notin White \cup marks
             /\ n < Len(ts) => ts[n + 1] \in White \cup marks
  IN  SubSeq(ts, 1, n)

\* A run that is one word, or else no word of the lists below.
Word(run) == IF Len(run) = 1 THEN run[1] ELSE "other"

\* firstWord: an opening parenthesis before it is passed over.
FirstWord(text) ==
  LET ts == Trim(text)
  IN  Word(Run(IF At(ts, 1) = "(" THEN Trim(Tail(ts)) ELSE ts, {}))

-----------------------------------------------------------------------------
(* splitStatements: the parts between semicolons that are not blank.  It     *)
(* does not know string literals, so a semicolon inside one splits too.      *)

Part(ts, i, j) == SubSeq(ts, i, j)
Breaks(ts) == Positions(ts, ";")
Parts(ts) ==
  {<<i, j>> \in ({1} \cup {b + 1 : b \in Breaks(ts)})
                 \X ({Len(ts)} \cup {b - 1 : b \in Breaks(ts)}) :
     /\ (i .. j) \cap Breaks(ts) = {}
     /\ Trim(Part(ts, i, j)) # <<>>}

StatementCount(ts) ==
  Cardinality(Parts(ts))
    + Cardinality({i \in 1 .. Len(ts) : <<ts[i], ";">> \in Inside})

OnlyPart(ts) ==
  LET p == CHOOSE p \in Parts(ts) : TRUE IN Trim(Part(ts, p[1], p[2]))

-----------------------------------------------------------------------------
(* The checks on the text.                                                   *)

\* isSelectInto: the first INTO with white space on both sides, or the edge of
\* the text, decides; a variable after it is no table.
IntoAt(ts) ==
  {i \in 1 .. Len(ts) :
     \/ <<ts[i], "INTO">> \in Inside
     \/ /\ ts[i] = "INTO"
        /\ i = 1 \/ ts[i - 1] \in White
        /\ i = Len(ts) \/ ts[i + 1] \in White}

IsSelectInto(ts) ==
  LET i == First(IntoAt(ts), 1)
  IN  i # 0 /\ ~ (ts[i] = "INTO" /\ At(Trim(From(ts, i + 1)), 1) \in Variables)

CTEWrites == {"INSERT", "UPDATE", "DELETE", "DROP", "ALTER", "TRUNCATE"}

\* Where a body may start: the first parenthesis after the word AS between two
\* blanks, from a position on.
AsAt(ts) == {i \in 1 .. Len(ts) - 2 : SubSeq(ts, i, i + 2) = <<" ", "AS", " ">>}
BodyAt(ts, from) ==
  LET as == First(AsAt(ts), from)
  IN  IF as = 0 THEN 0 ELSE First(Positions(ts, "("), as + 3)

\* The scan of containsCTEWrite from the position of a parenthesis.  A verb and
\* a blank are looked for at depth 1; a comma after a closed body leads to the
\* next body, whose parenthesis is counted on top of the depth 1 already set.
RECURSIVE ScanCTE(_, _, _)
ScanCTE(ts, i, depth) ==
  LET rest == Trim(From(ts, i + 1))
      body == BodyAt(ts, i + 1)
  IN  CASE i > Len(ts) -> FALSE
        [] At(ts, i) = "(" -> ScanCTE(ts, i + 1, depth + 1)
        [] At(ts, i) = ")" /\ depth > 1 -> ScanCTE(ts, i + 1, depth - 1)
        [] At(ts, i) = ")" /\ At(rest, 1) = "," -> body # 0 /\ ScanCTE(ts, body, 1)
        [] At(ts, i) = ")" -> FirstWord(rest) \in WriteOps
        [] OTHER -> (depth = 1 /\ \E verb \in CTEWrites : Spelled(ts, i, verb, {" "}))
                      \/ ScanCTE(ts, i + 1, depth)

ContainsCTEWrite(ts) == BodyAt(ts, 1) # 0 /\ ScanCTE(ts, BodyAt(ts, 1), 0)

\* stripExplainPrefix: the keyword, a balanced list of options, then the
\* option words, FORMAT with its value.  An unbalanced list leaves nothing, and
\* a text that does not start with the keyword is returned as it is.
Modifiers == {"ANALYZE", "VERBOSE", "FORMAT", "QUERY", "PLAN", "FOR"}

RECURSIVE CloseAt(_, _, _)
CloseAt(ts, i, depth) ==
  CASE i > Len(ts) -> 0
    [] At(ts, i) = ")" /\ depth = 1 -> i
    [] OTHER -> CloseAt(ts, i + 1, CASE At(ts, i) = "(" -> depth + 1
                                     [] At(ts, i) = ")" -> depth - 1
                                     [] OTHER -> depth)

\* nextToken, which ends before white space or =, and what comes after it.
NextWord(ts) == Run(Trim(ts), {"="})
AfterNext(ts) == Trim(From(Trim(ts), Len(NextWord(ts)) + 1))

RECURSIVE DropModifiers(_)
DropModifiers(ts) ==
  LET rest == AfterNext(ts)
  IN  CASE Word(NextWord(ts)) \notin Modifiers -> Trim(ts)
        [] Word(NextWord(ts)) # "FORMAT" -> DropModifiers(rest)
        [] OTHER -> DropModifiers(AfterNext(From(rest, Past(rest, 1, "="))))

\* (Mutant: an option list in parentheses is left to the inner statement.)
MutStripExplainPrefix(ts) ==
  IF ts[1] # "EXPLAIN" THEN ts ELSE DropModifiers(Tail(ts))

StripExplainPrefix(ts) ==
  LET rest  == Trim(Tail(ts))
      close == CloseAt(rest, 1, 0)
  IN  CASE ts[1] # "EXPLAIN" \/ (Len(ts) > 1 /\ ts[2] \notin White) -> ts
        [] At(rest, 1) # "(" -> DropModifiers(rest)
        [] close = 0 -> <<>>
        [] OTHER -> DropModifiers(From(rest, close + 1))

-----------------------------------------------------------------------------
(* Validate.  Two outcomes are no verdict: "panic" is the index out of range *)
(* that a text of semicolons alone runs into (it is not empty and has no     *)
(* statement), "endless" the recursion on a text that stripExplainPrefix     *)
(* left as it was.                                                           *)

\* The verb decides when the parser does not take the text.
ByVerb(ts) ==
  LET verb == FirstWord(ts)
  IN  CASE verb \in WriteOps -> "rejected"
        [] verb = "SELECT" /\ IsSelectInto(ts) -> "rejected"
        [] verb \in ReadOps -> "allowed"
        [] OTHER -> "rejected"

ByTree(ts) ==
  IF Parse(Words(ts)).val.kind = "select" /\ IsSelectInto(ts) THEN "rejected" ELSE "allowed"

RECURSIVE Validate(_)
Validate(text) ==
  LET ts    == Trim(text)
      one   == OnlyPart(ts)
      inner == StripExplainPrefix(one)
  IN  CASE ts = <<>> -> "rejected"
        [] StatementCount(ts) > 1 -> "rejected"
        [] StatementCount(ts) = 0 -> "panic"
        [] FirstWord(one) = "WITH" ->
             IF ContainsCTEWrite(one) THEN "rejected" ELSE "allowed"
        [] FirstWord(one) = "EXPLAIN" ->
             CASE inner = <<>> -> "rejected"
               [] inner = one -> "endless"
               [] OTHER -> Validate(inner)
        [] Parse(Words(ts)).ok -> ByTree(ts)
        [] OTHER -> ByVerb(one)

-----------------------------------------------------------------------------
(* AutoLimit.                                                                *)

\* What is outside parentheses, which are dropped.
RECURSIVE Outer(_, _, _)
Outer(ts, i, depth) ==
  CASE i > Len(ts) -> <<>>
    [] At(ts, i) = "(" -> Outer(ts, i + 1, depth + 1)
    [] At(ts, i) = ")" -> Outer(ts, i + 1, IF depth > 0 THEN depth - 1 ELSE 0)
    [] depth = 0 -> <<At(ts, i)>> \o Outer(ts, i + 1, depth)
    [] OTHER -> Outer(ts, i + 1, depth)

\* (Mutant: only what the tree says counts.)
MutHasOuterLimit(ts) == FALSE

\* hasOuterLimit: the letters LIMIT and white space after them, or nothing.
HasOuterLimit(ts) ==
  LET outer == Trim(Outer(ts, 1, 0))
  IN  \E i \in 1 .. Len(outer) : Spelled(outer, i, "LIMIT", White \cup {"EOF"})

\* A tree that already has its limit.
Limited(tree, ts) ==
  IF tree.kind = "select" THEN tree.limit > 0 \/ HasOuterLimit(ts)
  ELSE tree.left.limit > 0

\* The suffix of AutoLimit; it is separated by a blank.
LimitClause(max) == <<" ", "LIMIT", " ", max>>

AutoLimit(text, max) ==
  LET ts   == Trim(text)
      tree == Parse(Words(ts))
  IN  CASE tree.ok /\ Limited(tree.val, ts) -> ts
        [] tree.ok -> TrimEnd(ts, White \cup {";"}) \o LimitClause(max)
        [] FirstWord(ts) \notin {"SELECT", "WITH", "EXPLAIN"} -> ts
        [] HasOuterLimit(ts) -> ts
        [] OTHER ->
             Trim(IF Last(ts) = ";" THEN Front(ts) ELSE ts) \o LimitClause(max)
=============================================================================
