----------------------------- MODULE Gate_proofs -----------------------------
(* What holds of the gate for every guard, every reading of a statement,
   every environment of policy variables and every answer of a source, and
   of the lexer for every text and every alphabet.                         *)
EXTENDS Gate, NatOrder, SequenceTheorems

-----------------------------------------------------------------------------
(* A source's own variables and the global ones.                            *)

\* The parts of a loaded policy.
Own == IF job.key \in DOMAIN Env THEN Env[job.key] ELSE Unset
Global == LoadPolicy(Env, "")

LEMMA OwnType == Own \in Variable /\ Env["global"] \in Variable
  <1>1. \A k \in DOMAIN Env : Env[k] \in Variable
    BY GateAssumption
  <1>2. \A S : <<>> \in Seq(S)
    OBVIOUS
  <1>3. Unset \in Variable
    BY <1>2 DEF Unset, Variable
  <1> QED
    BY <1>1, <1>3, GateAssumption DEF Own

\* A source without variables of its own has the global policy.
LEMMA GlobalParts ==
  /\ Global.tables = Env["global"].tables
  /\ Global.columns = Env["global"].columns
  /\ Global.statements = Env["global"].statements
  /\ DOMAIN Global.masks = DOMAIN LoadMask(Env["global"].masks)
  <1> DEFINE all == Env["global"]
  <1>1. all \in Variable
    BY GateAssumption
  <1>2. Global = [tables |-> all.tables \o <<>>, columns |-> all.columns \o <<>>,
                  statements |-> all.statements \o <<>>,
                  masks |-> Replaced(LoadMask(all.masks), LoadMask(<<>>))]
    BY GateAssumption DEF Global, LoadPolicy, Unset
  <1>3. ASSUME NEW S, NEW s \in Seq(S)
        PROVE  s \o <<>> = s
    BY <1>3
  <1>4. DOMAIN LoadMask(<<>>) = {}
    BY DEF LoadMask
  <1>5. DOMAIN Replaced(LoadMask(all.masks), LoadMask(<<>>)) = DOMAIN LoadMask(all.masks)
    BY <1>4 DEF Replaced
  <1>6. all.tables \in Seq(Name) /\ all.columns \in Seq(Name) /\ all.statements \in Seq(Name)
    BY <1>1 DEF Variable
  <1>7. /\ all.tables \o <<>> = all.tables /\ all.columns \o <<>> = all.columns
        /\ all.statements \o <<>> = all.statements
    BY <1>3, <1>6
  <1> HIDE DEF all
  <1>8. /\ Global.tables = all.tables \o <<>> /\ Global.columns = all.columns \o <<>>
        /\ Global.statements = all.statements \o <<>>
        /\ Global.masks = Replaced(LoadMask(all.masks), LoadMask(<<>>))
    BY <1>2
  <1> QED
    BY <1>5, <1>7, <1>8 DEF all

\* The lists of a source begin with the global ones.
LEMMA PolicyParts ==
  /\ policy.tables = Global.tables \o Own.tables
  /\ policy.columns = Global.columns \o Own.columns
  /\ policy.statements = Global.statements \o Own.statements
  /\ policy.masks = Replaced(LoadMask(Env["global"].masks), LoadMask(Own.masks))
  BY GlobalParts DEF policy, LoadPolicy, Own

\* What is in the first of two lists is in both together.
LEMMA Begins ==
  ASSUME NEW S, NEW s \in Seq(S), NEW t \in Seq(S)
  PROVE  /\ Len(s \o t) >= Len(s)
         /\ \A i \in 1 .. Len(s) : i \in 1 .. Len(s \o t) /\ (s \o t)[i] = s[i]
         /\ Range(s) \subseteq Range(s \o t)
  <1>1. Len(s \o t) >= Len(s) /\ DOMAIN s = 1 .. Len(s) /\ DOMAIN (s \o t) = 1 .. Len(s \o t)
    OBVIOUS
  <1>2. \A i \in 1 .. Len(s) : i \in 1 .. Len(s \o t) /\ (s \o t)[i] = s[i]
    OBVIOUS
  <1> QED
    BY <1>1, <1>2 DEF Range

\* A loaded policy refuses whatever the global one refuses.
LEMMA GlobalWithin ==
  /\ Range(Global.tables) \subseteq Range(policy.tables)
  /\ Range(Global.columns) \subseteq Range(policy.columns)
  /\ \A ts : DeniedStatement(Global, ts) => DeniedStatement(policy, ts)
  /\ policy.tables = <<>> => Global.tables = <<>>
  <1>1. /\ Global.tables \in Seq(Name) /\ Global.columns \in Seq(Name)
        /\ Global.statements \in Seq(Name)
    BY GlobalParts, OwnType DEF Variable
  <1>2. /\ Own.tables \in Seq(Name) /\ Own.columns \in Seq(Name)
        /\ Own.statements \in Seq(Name)
    BY OwnType DEF Variable
  <1>3. /\ Range(Global.tables) \subseteq Range(Global.tables \o Own.tables)
        /\ Range(Global.columns) \subseteq Range(Global.columns \o Own.columns)
        /\ Len(Global.tables \o Own.tables) >= Len(Global.tables)
        /\ \A i \in 1 .. Len(Global.statements) :
             /\ i \in 1 .. Len(Global.statements \o Own.statements)
             /\ (Global.statements \o Own.statements)[i] = Global.statements[i]
    <2> HIDE DEF Own, Global, Name
    <2>1. /\ Range(Global.tables) \subseteq Range(Global.tables \o Own.tables)
          /\ Len(Global.tables \o Own.tables) >= Len(Global.tables)
      BY <1>1, <1>2, Begins
    <2>2. Range(Global.columns) \subseteq Range(Global.columns \o Own.columns)
      BY <1>1, <1>2, Begins
    <2>3. \A i \in 1 .. Len(Global.statements) :
             /\ i \in 1 .. Len(Global.statements \o Own.statements)
             /\ (Global.statements \o Own.statements)[i] = Global.statements[i]
      BY <1>1, <1>2, Begins
    <2> QED
      BY <2>1, <2>2, <2>3
  <1>4. ASSUME NEW ts, DeniedStatement(Global, ts)
        PROVE  DeniedStatement(policy, ts)
    <2>1. PICK i \in 1 .. Len(Global.statements) : HasRun(OneSpace(ts), Global.statements[i])
      BY <1>4 DEF DeniedStatement
    <2>2. /\ i \in 1 .. Len(policy.statements)
          /\ policy.statements[i] = Global.statements[i]
      BY <1>3, PolicyParts
    <2> QED
      BY <2>1, <2>2 DEF DeniedStatement
  <1>5. policy.tables = <<>> => Global.tables = <<>>
    <2>1. Len(policy.tables) >= Len(Global.tables)
      BY <1>3, PolicyParts
    <2> QED
      BY <1>1, <2>1
  <1> QED
    BY <1>3, <1>4, <1>5, PolicyParts

LEMMA StatementPasses ==
  ASSUME NEW ts, CheckSQL(policy, ts) = "passed"
  PROVE  CheckSQL(Global, ts) = "passed"
  <1>1. /\ ~ DeniedStatement(policy, ts)
        /\ NamedTables(ts) \cap Range(policy.tables) = {}
        /\ NamedColumns(ts) \cap Range(policy.columns) = {}
    BY DEF CheckSQL
  <1>2. /\ ~ DeniedStatement(Global, ts)
        /\ NamedTables(ts) \cap Range(Global.tables) = {}
        /\ NamedColumns(ts) \cap Range(Global.columns) = {}
    BY <1>1, GlobalWithin
  <1> QED
    BY <1>2 DEF CheckSQL

LEMMA NativePasses ==
  ASSUME NEW q, CheckNative(policy, q) = "passed"
  PROVE  CheckNative(Global, q) = "passed"
  <1>1. ~ DeniedStatement(policy, q.words) /\ ~ DeniedStatement(Global, q.words)
    <2>1. ~ DeniedStatement(policy, q.words)
      BY DEF CheckNative
    <2> QED
      BY <2>1, GlobalWithin
  <1>2. CASE policy.tables = <<>>
    <2>1. Global.tables = <<>>
      BY <1>2, GlobalWithin
    <2> QED
      BY <1>1, <2>1 DEF CheckNative
  <1>3. CASE policy.tables # <<>> /\ q.kind \in {"mongodb", "qdrant"}
    <2>1. CheckDocument(policy, q) = "passed"
      BY <1>1, <1>3 DEF CheckNative
    <2>2. CheckDocument(Global, q) = "passed"
      BY <2>1, GlobalWithin DEF CheckDocument
    <2> QED
      BY <1>1, <1>3, <2>2 DEF CheckNative
  <1>4. CASE policy.tables # <<>> /\ q.kind = "redis"
    <2>1. CheckKeys(policy, q) = "passed"
      BY <1>1, <1>4 DEF CheckNative
    <2>2. CheckKeys(Global, q) = "passed"
      BY <2>1, GlobalWithin DEF CheckKeys
    <2> QED
      BY <1>1, <1>4, <2>2 DEF CheckNative
  <1>5. CASE policy.tables # <<>> /\ q.kind = "prometheus"
    <2>1. CheckPromQL(policy, q) = "passed"
      BY <1>1, <1>5 DEF CheckNative
    <2>2. CheckPromQL(Global, q) = "passed"
      BY <2>1, GlobalWithin DEF CheckPromQL
    <2> QED
      BY <1>1, <1>5, <2>2 DEF CheckNative
  <1>6. CASE q.kind \notin {"mongodb", "qdrant", "redis", "prometheus"}
    BY <1>1, <1>6 DEF CheckNative
  <1> QED
    BY <1>2, <1>3, <1>4, <1>5, <1>6

\* A mask of the global policy stays, with the source's own text where it has
\* one.
LEMMA MasksStay ==
  \A m \in DOMAIN Global.masks :
    /\ m \in DOMAIN policy.masks
    /\ job.key \in DOMAIN Env /\ m \in DOMAIN LoadMask(Env[job.key].masks)
         => policy.masks[m] = LoadMask(Env[job.key].masks)[m]
  BY GlobalParts, PolicyParts DEF Replaced, Own

-----------------------------------------------------------------------------
(* What passed the checks.                                                  *)

\* Only SQL is guarded, what is past the checks passed those of its own source's
\* policy, and a native query is denied by that policy alone.
Checked ==
  /\ job \in Jobs
  /\ phase = "guarded" => job.sql
  /\ Passed => IF job.sql THEN CheckSQL(policy, job.text) = "passed"
               ELSE CheckNative(policy, job.query) = "passed"
  /\ ~ job.sql => /\ phase \in {"given", "denied"} \/ Passed
                  /\ phase = "denied" => CheckNative(policy, job.query) # "passed"

LEMMA InitChecked == Init => Checked
  BY DEF Init, Checked, Passed

LEMMA NextChecked == Checked /\ [Next]_vars => Checked'
  <1> SUFFICES ASSUME Checked, [Next]_vars
               PROVE  Checked'
    OBVIOUS
  <1> USE DEF Checked, Passed
  <1>0. job' = job /\ policy' = policy
    BY DEF Next, vars, Guard, CheckStatement, CheckNativeQuery, Rewrite, SourceAnswers,
           SourceFails, Show, policy
  <1>1. CASE Guard
    BY <1>0, <1>1 DEF Guard
  <1>2. CASE CheckStatement
    BY <1>0, <1>2 DEF CheckStatement
  <1>3. CASE CheckNativeQuery
    BY <1>0, <1>3 DEF CheckNativeQuery
  <1>4. CASE Rewrite
    BY <1>0, <1>4 DEF Rewrite
  <1>5. CASE SourceAnswers
    BY <1>0, <1>5 DEF SourceAnswers
  <1>6. CASE SourceFails
    BY <1>0, <1>6 DEF SourceFails
  <1>7. CASE Show
    BY <1>0, <1>7 DEF Show
  <1>8. CASE UNCHANGED vars
    BY <1>0, <1>8 DEF vars
  <1> QED
    BY <1>1, <1>2, <1>3, <1>4, <1>5, <1>6, <1>7, <1>8 DEF Next

LEMMA CheckedAlways == Spec => []Checked
  BY InitChecked, NextChecked, PTL DEF Spec

\* Whatever a source's own variables say, the global policy holds of it too:
\* nothing the global lists deny gets past the checks and no global mask is
\* lost (Load, CheckSQL, CheckNative of policy.go).
THEOREM GlobalPolicyHolds == Spec => []PolicyAdds
  <1>1. Checked => PolicyAdds
    BY StatementPasses, NativePasses, MasksStay DEF Checked, PolicyAdds, Global
  <1> QED
    BY <1>1, CheckedAlways, PTL

-----------------------------------------------------------------------------
(* What is shown.                                                           *)

\* An answer on its way out is one the source may give.
Answered == phase \in {"answered", "shown"} => raw \in Answers

\* Masking changes cells only, and only those under a masked column.
LEMMA Masked ==
  ASSUME raw \in Answers, NEW choice \in MaskChoices(policy, raw),
         NEW r \in 1 .. Len(raw.rows), NEW i \in 1 .. Len(raw.columns)
  PROVE  LET v == ApplyMask(policy, raw, choice).rows[r][i]
             w == raw.rows[r][i]
             col == raw.columns[i]
         IN  IF w = Null \/ Masks(policy, col) = {} THEN v = w
             ELSE v \in {policy.masks[m] : m \in Masks(policy, col)}
  <1> DEFINE col == raw.columns[i]
             w == raw.rows[r][i]
             v == ApplyMask(policy, raw, choice).rows[r][i]
  <1>1. /\ raw \in [columns : Seq(STRING), rows : Seq(Seq(STRING))]
        /\ Len(raw.rows[r]) = Len(raw.columns)
    BY GateAssumption
  <1>2. v = IF w = Null \/ choice[i] = <<>> THEN w ELSE policy.masks[choice[i]]
    BY <1>1 DEF ApplyMask
  <1>3. IF Masks(policy, col) = {} THEN choice[i] = <<>> ELSE choice[i] \in Masks(policy, col)
    BY DEF MaskChoices
  <1>4. <<>> \notin Masks(policy, col)
    <2>1. /\ <<>> \notin DOMAIN LoadMask(Env["global"].masks)
          /\ <<>> \notin DOMAIN LoadMask(Own.masks)
      BY DEF LoadMask
    <2>2. DOMAIN policy.masks = DOMAIN LoadMask(Env["global"].masks) \cup DOMAIN LoadMask(Own.masks)
      BY PolicyParts DEF Replaced
    <2> QED
      BY <2>1, <2>2 DEF Masks
  <1> HIDE DEF v, w, col
  <1>5. IF w = Null \/ Masks(policy, col) = {} THEN v = w
        ELSE v \in {policy.masks[m] : m \in Masks(policy, col)}
    BY <1>2, <1>3, <1>4
  <1> QED
    BY <1>5 DEF v, w, col

\* What is left of a masked answer.
LEMMA Stripped ==
  ASSUME raw \in Answers, NEW choice
  PROVE  LET m == ApplyMask(policy, raw, choice)
             K == Kept(policy, raw)
         IN  /\ K \in SUBSET (1 .. Len(raw.columns)) /\ Len(raw.columns) \in Nat
             /\ Len(raw.rows) \in Nat
             /\ StripDeniedColumns(policy, m) =
                  [columns |-> Picked(raw.columns, K),
                   rows |-> [r \in 1 .. Len(raw.rows) |-> Picked(m.rows[r], K)]]
  <1> DEFINE m == ApplyMask(policy, raw, choice)
             K == Kept(policy, raw)
  <1>1. raw \in [columns : Seq(STRING), rows : Seq(Seq(STRING))]
    BY GateAssumption
  <1>2. /\ m.columns = raw.columns
        /\ m.rows = [r \in 1 .. Len(raw.rows) |-> m.rows[r]]
    BY <1>1 DEF ApplyMask
  <1>3. Len(m.rows) = Len(raw.rows)
    <2> DEFINE S == {m.rows[r] : r \in 1 .. Len(raw.rows)}
    <2> HIDE DEF m
    <2>1. m.rows \in [1 .. Len(raw.rows) -> S]
      BY <1>2
    <2>2. Len(raw.rows) \in Nat
      BY <1>1
    <2> HIDE DEF S
    <2> QED
      BY <2>1, <2>2
  <1>4. Kept(policy, m) = K
    <2> HIDE DEF m
    <2> QED
      BY <1>2 DEF Kept
  <1>5. K \in SUBSET (1 .. Len(raw.columns)) /\ Len(raw.columns) \in Nat
    BY <1>1 DEF Kept
  <1>6. StripDeniedColumns(policy, m) =
          [columns |-> Picked(m.columns, Kept(policy, m)),
           rows |-> [r \in 1 .. Len(m.rows) |-> Picked(m.rows[r], Kept(policy, m))]]
    BY DEF StripDeniedColumns
  <1> HIDE DEF m, K
  <1>7. StripDeniedColumns(policy, m) =
          [columns |-> Picked(raw.columns, K),
           rows |-> [r \in 1 .. Len(raw.rows) |-> Picked(m.rows[r], K)]]
    BY <1>2, <1>3, <1>4, <1>6
  <1> QED
    BY <1>1, <1>5, <1>7 DEF m, K

\* What ShownIsOwn says of a policy, an answer and what is shown of it.
OwnOf(p, a, s) ==
  LET kept == Kept(p, a)
      Right(v, w, col) ==
        IF w = Null \/ Masks(p, col) = {} THEN v = w
        ELSE v \in {p.masks[m] : m \in Masks(p, col)}
  IN  /\ Len(s.columns) = Cardinality(kept) /\ Len(s.rows) = Len(a.rows)
      /\ \A r \in 1 .. Len(a.rows) : Len(s.rows[r]) = Cardinality(kept)
      /\ \A i \in kept :
           /\ s.columns[Place(kept, i)] = a.columns[i]
           /\ \A r \in 1 .. Len(a.rows) :
                Right(s.rows[r][Place(kept, i)], a.rows[r][i], a.columns[i])

LEMMA OwnMeans == ShownIsOwn <=> (phase = "shown" => OwnOf(policy, raw, shown))
  BY DEF ShownIsOwn, OwnOf

LEMMA OwnMeansNext ==
  ShownIsOwn' <=> (phase' = "shown" => OwnOf(policy', raw', shown'))
  <1>1. ShownIsOwn' <=> (phase = "shown" => OwnOf(policy, raw, shown))'
    BY OwnMeans, PTL
  <1> QED
    BY <1>1

LEMMA ShowIsOwn ==
  ASSUME raw \in Answers, Show
  PROVE  OwnOf(policy, raw, shown')
  <1> DEFINE K == Kept(policy, raw)
             C == Cardinality(K)
  <1>1. PICK choice \in MaskChoices(policy, raw) :
          shown' = StripDeniedColumns(policy, ApplyMask(policy, raw, choice))
    BY DEF Show
  <1> DEFINE m == ApplyMask(policy, raw, choice)
  <1>2. /\ shown' = [columns |-> Picked(raw.columns, K),
                     rows |-> [r \in 1 .. Len(raw.rows) |-> Picked(m.rows[r], K)]]
        /\ K \in SUBSET (1 .. Len(raw.columns)) /\ Len(raw.columns) \in Nat
        /\ Len(raw.rows) \in Nat
    BY <1>1, Stripped
  <1> HIDE DEF K, m
  <1>4. shown'.columns = Picked(raw.columns, K) /\ Len(shown'.columns) = C
    BY <1>2, KeptAtPlace
  <1>5. \A r \in 1 .. Len(raw.rows) : shown'.rows[r] = Picked(m.rows[r], K)
    BY <1>2
  <1>6. Len(shown'.rows) = Len(raw.rows)
    <2> DEFINE S == {Picked(m.rows[r], K) : r \in 1 .. Len(raw.rows)}
    <2>1. shown'.rows \in [1 .. Len(raw.rows) -> S]
      BY <1>2
    <2> HIDE DEF S
    <2> QED
      BY <1>2, <2>1
  <1>7. \A r \in 1 .. Len(raw.rows) : Len(shown'.rows[r]) = C
    BY <1>2, <1>5, KeptAtPlace
  <1>8. ASSUME NEW i \in K
        PROVE  /\ shown'.columns[Place(K, i)] = raw.columns[i]
               /\ \A r \in 1 .. Len(raw.rows) : shown'.rows[r][Place(K, i)] = m.rows[r][i]
    BY <1>2, <1>4, <1>5, KeptAtPlace
  <1>9. ASSUME NEW i \in K, NEW r \in 1 .. Len(raw.rows)
        PROVE  LET v == m.rows[r][i]
                   w == raw.rows[r][i]
                   col == raw.columns[i]
               IN  IF w = Null \/ Masks(policy, col) = {} THEN v = w
                   ELSE v \in {policy.masks[k] : k \in Masks(policy, col)}
    <2>1. i \in 1 .. Len(raw.columns)
      BY <1>2
    <2> QED
      BY <1>1, <2>1, Masked DEF m
  <1>10. \A i \in K : \A r \in 1 .. Len(raw.rows) :
          LET v == shown'.rows[r][Place(K, i)]
              w == raw.rows[r][i]
              col == raw.columns[i]
          IN  IF w = Null \/ Masks(policy, col) = {} THEN v = w
              ELSE v \in {policy.masks[k] : k \in Masks(policy, col)}
    BY <1>8, <1>9
  <1> QED
    BY <1>4, <1>6, <1>7, <1>8, <1>10 DEF OwnOf, K

LEMMA NextShown == Answered /\ ShownIsOwn /\ [Next]_vars => Answered' /\ ShownIsOwn'
  <1> SUFFICES ASSUME Answered, ShownIsOwn, [Next]_vars
               PROVE  Answered' /\ ShownIsOwn'
    OBVIOUS
  <1>1. CASE Show
    <2>1. raw \in Answers /\ raw' = raw /\ phase' = "shown" /\ policy' = policy
      BY <1>1 DEF Show, Answered, policy
    <2> QED
      BY <1>1, <2>1, ShowIsOwn, OwnMeansNext DEF Answered
  <1>2. CASE SourceAnswers
    BY <1>2, OwnMeansNext DEF SourceAnswers, Answered
  <1>3. CASE UNCHANGED vars
    <2>1. phase' = phase /\ raw' = raw /\ shown' = shown /\ policy' = policy
      BY <1>3 DEF vars, policy
    <2> QED
      BY <2>1, OwnMeans, OwnMeansNext DEF Answered
  <1>4. CASE Guard \/ CheckStatement \/ CheckNativeQuery \/ Rewrite \/ SourceFails
    <2>1. phase' \notin {"answered", "shown"}
      BY <1>4 DEF Guard, CheckStatement, CheckNativeQuery, Rewrite, SourceFails
    <2> QED
      BY <2>1, OwnMeansNext DEF Answered
  <1> QED
    BY <1>1, <1>2, <1>3, <1>4 DEF Next

\* Whatever the answer and the policy, what is shown of a column is what the
\* source said under that name, masked where the policy masks it, in every row
\* and at its place (ApplyMask, StripDeniedColumns of policy.go).
THEOREM ShownAlwaysOwn == Spec => []ShownIsOwn
  <1>1. Init => Answered /\ ShownIsOwn
    BY DEF Init, Answered, ShownIsOwn
  <1> QED
    BY <1>1, NextShown, PTL DEF Spec
-----------------------------------------------------------------------------
(* The patterns of keys.  GlobMatch is a recursive function, so it has first
   to be shown that there is one.                                           *)

\* What the pattern takes from its i-th letter on, given what it takes from the
\* next letter on (a) and from the one after that (b).
FitsAt(p, n, i, a, b) ==
  {j \in 1 .. Len(n) + 1 :
     CASE i > Len(p) -> i = Len(p) + 1 /\ j > Len(n)
       [] i <= Len(p) /\ p[i] = "*" -> \E k \in j .. Len(n) + 1 : k \in a
       [] i <= Len(p) /\ p[i] = "\\" ->
            /\ i < Len(p) /\ j <= Len(n) /\ n[j] = p[i + 1]
            /\ j + 1 \in b
       [] OTHER -> /\ j <= Len(n) /\ p[i] \in {"?", n[j]}
                   /\ j + 1 \in a}

FitsOf(p, n) ==
  CHOOSE f : f = [i \in 1 .. Len(p) + 2 |-> FitsAt(p, n, i, f[i + 1], f[i + 2])]

LEMMA GlobMatchIs ==
  ASSUME NEW p, NEW n
  PROVE  GlobMatch(p, n) <=> 1 \in FitsOf(p, n)[1]
  BY DEF GlobMatch, FitsOf, FitsAt

\* The four kinds of letters.
LEMMA FitsCases ==
  ASSUME NEW p \in Seq(STRING), NEW n \in Seq(STRING), NEW i \in Nat \ {0}, NEW a, NEW b
  PROVE  /\ FitsAt(p, n, i, a, b) \subseteq 1 .. Len(n) + 1
         /\ i = Len(p) + 1 => FitsAt(p, n, i, a, b) = {Len(n) + 1}
         /\ i > Len(p) + 1 => FitsAt(p, n, i, a, b) = {}
         /\ i <= Len(p) /\ p[i] = "*" => FitsAt(p, n, i, a, b) =
              {j \in 1 .. Len(n) + 1 : \E k \in j .. Len(n) + 1 : k \in a}
         /\ i <= Len(p) /\ p[i] = "\\" => FitsAt(p, n, i, a, b) =
              {j \in 1 .. Len(n) : i < Len(p) /\ n[j] = p[i + 1] /\ j + 1 \in b}
         /\ i <= Len(p) /\ p[i] \notin {"*", "\\"} => FitsAt(p, n, i, a, b) =
              {j \in 1 .. Len(n) : p[i] \in {"?", n[j]} /\ j + 1 \in a}
  <1>0. Len(p) \in Nat /\ Len(n) \in Nat /\ "*" # "\\"
    OBVIOUS
  <1>1. FitsAt(p, n, i, a, b) \subseteq 1 .. Len(n) + 1
    BY DEF FitsAt
  <1>2. ASSUME i > Len(p)
        PROVE  FitsAt(p, n, i, a, b) = {j \in 1 .. Len(n) + 1 : i = Len(p) + 1 /\ j > Len(n)}
    BY <1>0, <1>2 DEF FitsAt
  <1>3. ASSUME i <= Len(p), p[i] = "*"
        PROVE  FitsAt(p, n, i, a, b) =
                 {j \in 1 .. Len(n) + 1 : \E k \in j .. Len(n) + 1 : k \in a}
    BY <1>0, <1>3 DEF FitsAt
  <1>4. ASSUME i <= Len(p), p[i] = "\\"
        PROVE  FitsAt(p, n, i, a, b) =
                 {j \in 1 .. Len(n) : i < Len(p) /\ n[j] = p[i + 1] /\ j + 1 \in b}
    BY <1>0, <1>4 DEF FitsAt
  <1>5. ASSUME i <= Len(p), p[i] \notin {"*", "\\"}
        PROVE  FitsAt(p, n, i, a, b) =
                 {j \in 1 .. Len(n) : p[i] \in {"?", n[j]} /\ j + 1 \in a}
    BY <1>0, <1>5 DEF FitsAt
  <1>6. ASSUME i = Len(p) + 1
        PROVE  FitsAt(p, n, i, a, b) = {Len(n) + 1}
    BY <1>0, <1>2, <1>6
  <1>7. ASSUME i > Len(p) + 1
        PROVE  FitsAt(p, n, i, a, b) = {}
    BY <1>0, <1>2, <1>7
  <1> QED
    BY <1>1, <1>3, <1>4, <1>5, <1>6, <1>7

LEMMA FitsEnd ==
  ASSUME NEW p \in Seq(STRING), NEW n \in Seq(STRING), NEW i \in Nat \ {0}, i > Len(p)
  PROVE  \A a, b, c, d : FitsAt(p, n, i, a, b) = FitsAt(p, n, i, c, d)
  <1>1. i = Len(p) + 1 \/ i > Len(p) + 1
    <2>1. Len(p) \in Nat
      OBVIOUS
    <2> QED
      BY <2>1
  <1>2. ASSUME i = Len(p) + 1, NEW a, NEW b
        PROVE  FitsAt(p, n, i, a, b) = {Len(n) + 1}
    BY <1>2, FitsCases
  <1>3. ASSUME i > Len(p) + 1, NEW a, NEW b
        PROVE  FitsAt(p, n, i, a, b) = {}
    BY <1>3, FitsCases
  <1> QED
    BY <1>1, <1>2, <1>3

\* The function globMatch computes exists: from the end of the pattern back,
\* each letter needs only the next two.
LEMMA FitsExists ==
  ASSUME NEW p \in Seq(STRING), NEW n \in Seq(STRING)
  PROVE  \E f : f = [i \in 1 .. Len(p) + 2 |-> FitsAt(p, n, i, f[i + 1], f[i + 2])]
  <1> DEFINE N == Len(p) + 2
             Places == SUBSET (1 .. Len(n) + 1)
             Done(t, g) == \A i \in 1 .. N : i > N - t => g[i] = FitsAt(p, n, i, g[i + 1], g[i + 2])
             T == {t \in Nat : t <= N => \E g \in [1 .. N -> Places] : Done(t, g)}
  <1>0. N \in Nat /\ Len(p) \in Nat
    OBVIOUS
  <1>1. 0 \in T
    <2>1. [i \in 1 .. N |-> {}] \in [1 .. N -> Places]
      OBVIOUS
    <2>2. \A g : Done(0, g)
      BY <1>0
    <2> QED
      BY <2>1, <2>2
  <1>2. ASSUME NEW t \in Nat, t \in T
        PROVE  t + 1 \in T
    <2> SUFFICES ASSUME t + 1 <= N
                 PROVE  \E h \in [1 .. N -> Places] : Done(t + 1, h)
      OBVIOUS
    <2>1. PICK g \in [1 .. N -> Places] : Done(t, g)
      BY <1>2, <1>0
    <2> DEFINE c == N - t
               new == FitsAt(p, n, c, g[c + 1], g[c + 2])
               h == [g EXCEPT ![c] = new]
    <2>2. c \in 1 .. N
      BY <1>0
    <2>3. new \in Places
      BY <2>2, FitsCases
    <2>4. h \in [1 .. N -> Places] /\ h[c] = new /\ \A i \in 1 .. N : i # c => h[i] = g[i]
      BY <2>2, <2>3
    <2> HIDE DEF new, h
    <2>5. ASSUME NEW i \in 1 .. N, i > c
          PROVE  h[i] = FitsAt(p, n, i, h[i + 1], h[i + 2])
      <3>1. h[i] = FitsAt(p, n, i, g[i + 1], g[i + 2])
        BY <1>0, <2>1, <2>2, <2>4, <2>5
      <3>2. CASE i > Len(p)
        <4>1. i \in Nat \ {0}
          BY <1>0
        <4>2. \A a, b, x, y : FitsAt(p, n, i, a, b) = FitsAt(p, n, i, x, y)
          BY <3>2, <4>1, FitsEnd
        <4> QED
          BY <3>1, <4>2
      <3>3. CASE i <= Len(p)
        <4>1. i + 1 \in 1 .. N /\ i + 2 \in 1 .. N /\ i + 1 # c /\ i + 2 # c
          BY <1>0, <2>2, <2>5, <3>3
        <4>2. h[i + 1] = g[i + 1] /\ h[i + 2] = g[i + 2]
          BY <2>4, <4>1
        <4> QED
          BY <3>1, <4>2
      <3> QED
        BY <1>0, <3>2, <3>3
    <2>6. h[c] = FitsAt(p, n, c, h[c + 1], h[c + 2])
      <3>1. CASE c > Len(p)
        <4>1. c \in Nat \ {0}
          BY <1>0, <2>2
        <4> HIDE DEF c
        <4>2. \A a, b, x, y : FitsAt(p, n, c, a, b) = FitsAt(p, n, c, x, y)
          BY <3>1, <4>1, FitsEnd
        <4> QED
          BY <2>4, <4>2 DEF new
      <3>2. CASE c <= Len(p)
        <4>1. c + 1 \in 1 .. N /\ c + 2 \in 1 .. N /\ c + 1 # c /\ c + 2 # c
          BY <1>0, <2>2, <3>2
        <4>2. h[c + 1] = g[c + 1] /\ h[c + 2] = g[c + 2]
          BY <2>4, <4>1
        <4> QED
          BY <2>4, <4>2 DEF new
      <3> QED
        BY <1>0, <2>2, <3>1, <3>2
    <2>7. \A i \in 1 .. N : i > N - (t + 1) => i = c \/ i > c
      BY <1>0
    <2>8. Done(t + 1, h)
      BY <2>5, <2>6, <2>7
    <2> QED
      BY <2>4, <2>8
  <1>3. N \in T
    <2> HIDE DEF T
    <2> QED
      BY <1>0, <1>1, <1>2, NatInd
  <1>4. PICK g \in [1 .. N -> Places] : Done(N, g)
    BY <1>0, <1>3
  <1>5. \A i \in 1 .. N : g[i] = FitsAt(p, n, i, g[i + 1], g[i + 2])
    BY <1>0, <1>4
  <1>6. g = [i \in 1 .. N |-> FitsAt(p, n, i, g[i + 1], g[i + 2])]
    BY <1>5
  <1> QED
    BY <1>6

LEMMA FitsEquation ==
  ASSUME NEW p \in Seq(STRING), NEW n \in Seq(STRING), NEW i \in 1 .. Len(p) + 2
  PROVE  FitsOf(p, n)[i] = FitsAt(p, n, i, FitsOf(p, n)[i + 1], FitsOf(p, n)[i + 2])
  <1> DEFINE f == FitsOf(p, n)
  <1>1. f = [k \in 1 .. Len(p) + 2 |-> FitsAt(p, n, k, f[k + 1], f[k + 2])]
    BY FitsExists DEF FitsOf
  <1> HIDE DEF f
  <1>2. f[i] = FitsAt(p, n, i, f[i + 1], f[i + 2])
    BY <1>1
  <1> QED
    BY <1>2 DEF f
\* What Globs says of the pattern from its i-th letter on and the name from its
\* j-th on: one letter of the pattern, the letters that stand for themselves,
\* the whole.
LetterFits(p, n, i, plain, before, after) ==
  \/ i \notin plain /\ p[i] = "*" /\ after >= before
  \/ i \notin plain /\ p[i] = "\\" /\ i < Len(p) /\ after = before
  \/ /\ i \in plain \/ p[i] \notin {"*", "\\"}
     /\ after = before + 1
     /\ \/ p[i] = n[after]
        \/ i \notin plain /\ p[i] = "?"

PlainFrom(p, i, plain) ==
  /\ plain \subseteq i .. Len(p) /\ i \notin plain
  /\ \A k \in i + 1 .. Len(p) : k \in plain <=> p[k - 1] = "\\" /\ k - 1 \notin plain

CutFrom(p, n, i, j, plain, cut) ==
  /\ cut \in [i - 1 .. Len(p) -> 0 .. Len(n)]
  /\ cut[i - 1] = j - 1 /\ cut[Len(p)] = Len(n)
  /\ \A k \in i .. Len(p) : LetterFits(p, n, k, plain, cut[k - 1], cut[k])

GlobsFrom(p, n, i, j) ==
  \E plain, cut : PlainFrom(p, i, plain) /\ CutFrom(p, n, i, j, plain, cut)

LEMMA GlobsWhole ==
  ASSUME NEW p \in Seq(STRING), NEW n \in Seq(STRING)
  PROVE  Globs(p, n) <=> GlobsFrom(p, n, 1, 1)
  <1>0. Len(p) \in Nat /\ Len(n) \in Nat /\ 1 - 1 = 0
    OBVIOUS
  <1> DEFINE Marked(plain) == \A i \in 1 .. Len(p) :
               i \in plain <=> i > 1 /\ p[i - 1] = "\\" /\ i - 1 \notin plain
             Ways(plain, cut) ==
               /\ cut \in [0 .. Len(p) -> 0 .. Len(n)]
               /\ cut[0] = 0 /\ cut[Len(p)] = Len(n)
               /\ \A k \in 1 .. Len(p) : LetterFits(p, n, k, plain, cut[k - 1], cut[k])
  <1>1. Globs(p, n) <=>
          \E plain \in SUBSET (1 .. Len(p)) : Marked(plain) /\ \E cut : Ways(plain, cut)
    BY DEF Globs, LetterFits
  <1>2. \A plain : PlainFrom(p, 1, plain) <=> plain \in SUBSET (1 .. Len(p)) /\ Marked(plain)
    <2> SUFFICES ASSUME NEW plain
                 PROVE  PlainFrom(p, 1, plain) <=>
                          plain \in SUBSET (1 .. Len(p)) /\ Marked(plain)
      OBVIOUS
    <2>1. ASSUME PlainFrom(p, 1, plain)
          PROVE  plain \in SUBSET (1 .. Len(p)) /\ Marked(plain)
      BY <1>0, <2>1 DEF PlainFrom
    <2>2. ASSUME plain \in SUBSET (1 .. Len(p)), Marked(plain)
          PROVE  PlainFrom(p, 1, plain)
      BY <1>0, <2>2 DEF PlainFrom
    <2> QED
      BY <2>1, <2>2
  <1>3. \A plain, cut : CutFrom(p, n, 1, 1, plain, cut) <=> Ways(plain, cut)
    BY <1>0 DEF CutFrom
  <1> HIDE DEF Marked, Ways
  <1> QED
    BY <1>1, <1>2, <1>3 DEF GlobsFrom

LEMMA GlobsEnd ==
  ASSUME NEW p \in Seq(STRING), NEW n \in Seq(STRING), NEW j \in 1 .. Len(n) + 1
  PROVE  GlobsFrom(p, n, Len(p) + 1, j) <=> j = Len(n) + 1
  <1> DEFINE i == Len(p) + 1
  <1>0. /\ Len(p) \in Nat /\ Len(n) \in Nat /\ i \in Nat /\ i - 1 = Len(p)
        /\ \A k : ~ (k \in i .. Len(p)) /\ ~ (k \in i + 1 .. Len(p))
        /\ Len(n) \in 0 .. Len(n) /\ j \in Nat /\ j - 1 \in 0 .. Len(n)
    OBVIOUS
  <1> HIDE DEF i
  <1>1. ASSUME NEW plain, NEW cut, CutFrom(p, n, i, j, plain, cut)
        PROVE  j = Len(n) + 1
    BY <1>0, <1>1 DEF CutFrom
  <1>2. ASSUME j = Len(n) + 1
        PROVE  GlobsFrom(p, n, i, j)
    <2> DEFINE cut == [k \in Len(p) .. Len(p) |-> Len(n)]
    <2>1. CutFrom(p, n, i, j, {}, cut)
      BY <1>0, <1>2 DEF CutFrom
    <2>2. PlainFrom(p, i, {})
      BY <1>0 DEF PlainFrom
    <2> QED
      BY <2>1, <2>2 DEF GlobsFrom
  <1> QED
    BY <1>1, <1>2 DEF GlobsFrom, i

\* A letter that is no stroke takes a piece of the name and leaves the rest to
\* the next.
LEMMA GlobsLetter ==
  ASSUME NEW p \in Seq(STRING), NEW n \in Seq(STRING), NEW i \in 1 .. Len(p),
         NEW j \in 1 .. Len(n) + 1, p[i] # "\\"
  PROVE  GlobsFrom(p, n, i, j) <=>
           \E k \in 1 .. Len(n) + 1 : /\ LetterFits(p, n, i, {}, j - 1, k - 1)
                                       /\ GlobsFrom(p, n, i + 1, k)
  <1>0. /\ Len(p) \in Nat /\ Len(n) \in Nat /\ i \in Nat /\ i + 1 - 1 = i
        /\ i - 1 \in i - 1 .. Len(p) /\ i \in i .. Len(p) /\ i \in i - 1 .. Len(p)
        /\ Len(p) \in i .. Len(p)
        /\ \A k \in i + 1 .. Len(p) : k \in i .. Len(p) /\ k - 1 \in i .. Len(p) /\ k # i
        /\ \A k \in i .. Len(p) : k \in i - 1 .. Len(p) /\ k # i - 1
    OBVIOUS
  <1>1. ASSUME GlobsFrom(p, n, i, j)
        PROVE  \E k \in 1 .. Len(n) + 1 : /\ LetterFits(p, n, i, {}, j - 1, k - 1)
                                           /\ GlobsFrom(p, n, i + 1, k)
    <2>1. PICK plain, cut : PlainFrom(p, i, plain) /\ CutFrom(p, n, i, j, plain, cut)
      BY <1>1 DEF GlobsFrom
    <2> DEFINE rest == [k \in i .. Len(p) |-> cut[k]]
               next == cut[i] + 1
    <2>2. cut \in [i - 1 .. Len(p) -> 0 .. Len(n)] /\ cut[i] \in 0 .. Len(n)
      BY <1>0, <2>1 DEF CutFrom
    <2>3. LetterFits(p, n, i, {}, j - 1, cut[i])
      BY <1>0, <2>1 DEF CutFrom, PlainFrom, LetterFits
    <2>4. next \in 1 .. Len(n) + 1 /\ next - 1 = cut[i]
      BY <1>0, <2>2
    <2>5. PlainFrom(p, i + 1, plain)
      <3>1. i + 1 \notin plain
        BY <1>0, <2>1 DEF PlainFrom
      <3>2. plain \subseteq i + 1 .. Len(p)
        BY <1>0, <2>1 DEF PlainFrom
      <3>3. \A k \in i + 2 .. Len(p) : k \in i + 1 .. Len(p)
        BY <1>0
      <3>4. i + 1 + 1 = i + 2
        BY <1>0
      <3> QED
        BY <2>1, <3>1, <3>2, <3>3, <3>4 DEF PlainFrom
    <2>6. CutFrom(p, n, i + 1, next, plain, rest)
      <3>1. rest \in [i .. Len(p) -> 0 .. Len(n)]
        BY <1>0, <2>2
      <3>2. rest[i] = cut[i] /\ rest[Len(p)] = Len(n)
        BY <1>0, <2>1 DEF CutFrom
      <3>3. ASSUME NEW k \in i + 1 .. Len(p)
            PROVE  LetterFits(p, n, k, plain, rest[k - 1], rest[k])
        <4>1. rest[k - 1] = cut[k - 1] /\ rest[k] = cut[k]
          BY <1>0
        <4> HIDE DEF rest
        <4> QED
          BY <1>0, <2>1, <4>1 DEF CutFrom
      <3> HIDE DEF rest
      <3> QED
        BY <1>0, <2>4, <3>1, <3>2, <3>3 DEF CutFrom
    <2> HIDE DEF rest, next
    <2> QED
      BY <2>3, <2>4, <2>5, <2>6 DEF GlobsFrom
  <1>2. ASSUME NEW k \in 1 .. Len(n) + 1, LetterFits(p, n, i, {}, j - 1, k - 1),
               GlobsFrom(p, n, i + 1, k)
        PROVE  GlobsFrom(p, n, i, j)
    <2>1. PICK plain, cut :
            PlainFrom(p, i + 1, plain) /\ CutFrom(p, n, i + 1, k, plain, cut)
      BY <1>2 DEF GlobsFrom
    <2> DEFINE all == [x \in i - 1 .. Len(p) |-> IF x = i - 1 THEN j - 1 ELSE cut[x]]
    <2>2. cut \in [i .. Len(p) -> 0 .. Len(n)] /\ cut[i] = k - 1 /\ cut[Len(p)] = Len(n)
      BY <1>0, <2>1 DEF CutFrom
    <2>3. /\ all[i - 1] = j - 1
          /\ \A x \in i .. Len(p) : all[x] = cut[x]
      BY <1>0
    <2>4. all \in [i - 1 .. Len(p) -> 0 .. Len(n)]
      <3>1. \A x \in i - 1 .. Len(p) : x = i - 1 \/ x \in i .. Len(p)
        BY <1>0
      <3>2. j - 1 \in 0 .. Len(n)
        BY <1>0
      <3> QED
        BY <2>2, <3>1, <3>2
    <2> HIDE DEF all
    <2>5. PlainFrom(p, i, plain)
      <3>1. i \notin plain /\ plain \subseteq i .. Len(p)
        BY <1>0, <2>1 DEF PlainFrom
      <3>2. \A x \in i + 1 .. Len(p) : x = i + 1 \/ x \in i + 2 .. Len(p)
        BY <1>0
      <3>3. i + 1 + 1 = i + 2 /\ i + 1 \notin plain
        BY <1>0, <2>1 DEF PlainFrom
      <3> QED
        BY <1>0, <2>1, <3>1, <3>2, <3>3 DEF PlainFrom
    <2>6. ASSUME NEW x \in i .. Len(p)
          PROVE  LetterFits(p, n, x, plain, all[x - 1], all[x])
      <3>1. CASE x = i
        <4>1. LetterFits(p, n, i, plain, j - 1, k - 1)
          BY <1>2, <2>5 DEF LetterFits, PlainFrom
        <4> QED
          BY <1>0, <2>2, <2>3, <3>1, <4>1
      <3>2. CASE x # i
        <4>1. x \in i + 1 .. Len(p)
          BY <1>0, <3>2
        <4>2. all[x - 1] = cut[x - 1] /\ all[x] = cut[x]
          BY <1>0, <2>3, <4>1
        <4> QED
          BY <2>1, <4>1, <4>2 DEF CutFrom
      <3> QED
        BY <3>1, <3>2
    <2>7. CutFrom(p, n, i, j, plain, all)
      BY <1>0, <2>2, <2>3, <2>4, <2>6 DEF CutFrom
    <2> QED
      BY <2>5, <2>7 DEF GlobsFrom
  <1> QED
    BY <1>1, <1>2
\* A stroke takes, with the letter after it, that letter.
LEMMA GlobsStroke ==
  ASSUME NEW p \in Seq(STRING), NEW n \in Seq(STRING), NEW i \in 1 .. Len(p),
         NEW j \in 1 .. Len(n) + 1, p[i] = "\\"
  PROVE  GlobsFrom(p, n, i, j) <=>
           /\ i < Len(p) /\ j <= Len(n) /\ n[j] = p[i + 1]
           /\ GlobsFrom(p, n, i + 2, j + 1)
  <1>0. /\ Len(p) \in Nat /\ Len(n) \in Nat /\ i \in Nat /\ j \in Nat
        /\ i + 1 - 1 = i /\ i + 2 - 1 = i + 1 /\ j + 1 - 1 = j
        /\ i - 1 \in i - 1 .. Len(p) /\ i \in i .. Len(p) /\ i \in i - 1 .. Len(p)
        /\ "*" # "\\"
    OBVIOUS
  <1>1. ASSUME GlobsFrom(p, n, i, j)
        PROVE  /\ i < Len(p) /\ j <= Len(n) /\ n[j] = p[i + 1]
               /\ GlobsFrom(p, n, i + 2, j + 1)
    <2>1. PICK plain, cut : PlainFrom(p, i, plain) /\ CutFrom(p, n, i, j, plain, cut)
      BY <1>1 DEF GlobsFrom
    <2>2. cut \in [i - 1 .. Len(p) -> 0 .. Len(n)] /\ cut[i - 1] = j - 1
      BY <2>1 DEF CutFrom
    <2>3. LetterFits(p, n, i, plain, cut[i - 1], cut[i])
      BY <1>0, <2>1 DEF CutFrom
    <2>4. i < Len(p) /\ cut[i] = j - 1
      BY <1>0, <2>1, <2>2, <2>3 DEF LetterFits, PlainFrom
    <2>5. i + 1 \in i + 1 .. Len(p) /\ i + 1 \in i .. Len(p) /\ i + 1 \in i - 1 .. Len(p)
      BY <1>0, <2>4
    <2>6. i + 1 \in plain
      BY <1>0, <2>1, <2>5 DEF PlainFrom
    <2>7. LetterFits(p, n, i + 1, plain, cut[i], cut[i + 1])
      BY <1>0, <2>1, <2>5 DEF CutFrom
    <2>8. cut[i + 1] = j /\ p[i + 1] = n[j]
      <3>1. cut[i + 1] = cut[i] + 1 /\ p[i + 1] = n[cut[i + 1]]
        BY <2>6, <2>7 DEF LetterFits
      <3> QED
        BY <1>0, <2>4, <3>1
    <2>9. j <= Len(n)
      BY <1>0, <2>2, <2>5, <2>8
    <2> DEFINE rest == [k \in i + 1 .. Len(p) |-> cut[k]]
               left == plain \ {i + 1}
    <2>10. PlainFrom(p, i + 2, left)
      <3>1. left \subseteq i + 2 .. Len(p)
        <4>1. \A k \in i .. Len(p) : k = i \/ k = i + 1 \/ k \in i + 2 .. Len(p)
          BY <1>0
        <4> QED
          BY <2>1, <4>1 DEF PlainFrom
      <3>2. i + 2 \notin plain
        <4>1. CASE i + 2 \in i + 1 .. Len(p)
          BY <1>0, <2>1, <2>6, <4>1 DEF PlainFrom
        <4>2. CASE i + 2 \notin i + 1 .. Len(p)
          <5>1. i + 2 \notin i .. Len(p)
            BY <1>0, <4>2
          <5> QED
            BY <2>1, <5>1 DEF PlainFrom
        <4> QED
          BY <4>1, <4>2
      <3>3. ASSUME NEW k \in i + 2 + 1 .. Len(p)
            PROVE  k \in left <=> p[k - 1] = "\\" /\ k - 1 \notin left
        <4>1. k \in i + 1 .. Len(p) /\ k # i + 1 /\ k - 1 # i + 1
          BY <1>0
        <4> QED
          BY <2>1, <4>1 DEF PlainFrom
      <3> HIDE DEF left
      <3>4. i + 2 \notin left
        BY <3>2 DEF left
      <3> QED
        BY <3>1, <3>3, <3>4 DEF PlainFrom
    <2>11. CutFrom(p, n, i + 2, j + 1, left, rest)
      <3>1. rest \in [i + 1 .. Len(p) -> 0 .. Len(n)]
        <4>1. \A k \in i + 1 .. Len(p) : k \in i - 1 .. Len(p)
          BY <1>0
        <4> QED
          BY <2>2, <4>1
      <3>2. rest[i + 1] = j /\ rest[Len(p)] = Len(n)
        <4>1. Len(p) \in i + 1 .. Len(p)
          BY <1>0, <2>4
        <4> QED
          BY <2>1, <2>5, <2>8, <4>1 DEF CutFrom
      <3>3. ASSUME NEW k \in i + 2 .. Len(p)
            PROVE  LetterFits(p, n, k, left, rest[k - 1], rest[k])
        <4>1. /\ k \in i + 1 .. Len(p) /\ k - 1 \in i + 1 .. Len(p)
              /\ k \in i .. Len(p) /\ k # i + 1
          BY <1>0
        <4>2. rest[k - 1] = cut[k - 1] /\ rest[k] = cut[k]
          BY <4>1
        <4>3. k \in left <=> k \in plain
          BY <4>1
        <4> HIDE DEF rest, left
        <4>4. LetterFits(p, n, k, plain, cut[k - 1], cut[k])
          BY <2>1, <4>1 DEF CutFrom
        <4> QED
          BY <4>2, <4>3, <4>4 DEF LetterFits
      <3> HIDE DEF rest, left
      <3> QED
        BY <1>0, <3>1, <3>2, <3>3 DEF CutFrom
    <2> HIDE DEF rest, left
    <2> QED
      BY <2>4, <2>8, <2>9, <2>10, <2>11 DEF GlobsFrom
  <1>2. ASSUME i < Len(p), j <= Len(n), n[j] = p[i + 1], GlobsFrom(p, n, i + 2, j + 1)
        PROVE  GlobsFrom(p, n, i, j)
    <2>1. PICK left, cut :
            PlainFrom(p, i + 2, left) /\ CutFrom(p, n, i + 2, j + 1, left, cut)
      BY <1>2 DEF GlobsFrom
    <2> DEFINE plain == left \cup {i + 1}
               all == [x \in i - 1 .. Len(p) |-> IF x \in {i - 1, i} THEN j - 1 ELSE cut[x]]
    <2>2. cut \in [i + 1 .. Len(p) -> 0 .. Len(n)] /\ cut[i + 1] = j /\ cut[Len(p)] = Len(n)
      BY <1>0, <2>1 DEF CutFrom
    <2>3. /\ i + 1 \in i + 1 .. Len(p) /\ i + 1 \in i .. Len(p) /\ Len(p) \in i + 1 .. Len(p)
          /\ \A x \in i + 1 .. Len(p) : x \in i .. Len(p) /\ x \in i - 1 .. Len(p) /\ x \notin {i - 1, i}
          /\ \A x \in i + 2 .. Len(p) : x \in i + 1 .. Len(p) /\ x - 1 \in i + 1 .. Len(p) /\ x # i + 1
          /\ \A x \in i + 1 .. Len(p) : x = i + 1 \/ x \in i + 2 .. Len(p)
          /\ \A x \in i .. Len(p) : x = i \/ x = i + 1 \/ x \in i + 2 .. Len(p)
          /\ \A x \in i - 1 .. Len(p) : x \in {i - 1, i} \/ x \in i + 1 .. Len(p)
      BY <1>0, <1>2
    <2>4. /\ all[i - 1] = j - 1 /\ all[i] = j - 1
          /\ \A x \in i + 1 .. Len(p) : all[x] = cut[x]
      BY <1>0, <2>3
    <2>5. all \in [i - 1 .. Len(p) -> 0 .. Len(n)]
      <3>1. j - 1 \in 0 .. Len(n)
        BY <1>0
      <3> QED
        BY <2>2, <2>3, <3>1
    <2> HIDE DEF all
    <2>6. i \notin plain /\ i + 1 \in plain /\ i + 2 \notin plain
      <3>1. i \notin i + 2 .. Len(p) /\ i # i + 1 /\ i + 2 # i + 1
        BY <1>0
      <3> QED
        BY <2>1, <3>1 DEF PlainFrom
    <2>7. PlainFrom(p, i, plain)
      <3>1. plain \subseteq i .. Len(p)
        BY <2>1, <2>3 DEF PlainFrom
      <3>2. ASSUME NEW x \in i + 1 .. Len(p)
            PROVE  x \in plain <=> p[x - 1] = "\\" /\ x - 1 \notin plain
        <4>1. CASE x = i + 1
          BY <1>0, <2>6, <4>1
        <4>2. CASE x = i + 2
          <5>1. x - 1 = i + 1
            BY <1>0, <4>2
          <5> QED
            BY <2>6, <4>2, <5>1
        <4>3. CASE x # i + 1 /\ x # i + 2
          <5>1. x \in i + 2 + 1 .. Len(p) /\ x - 1 # i + 1
            BY <1>0, <4>3
          <5> QED
            BY <2>1, <4>3, <5>1 DEF PlainFrom
        <4> QED
          BY <4>1, <4>2, <4>3
      <3> HIDE DEF plain
      <3> QED
        BY <2>6, <3>1, <3>2 DEF PlainFrom
    <2>8. ASSUME NEW x \in i .. Len(p)
          PROVE  LetterFits(p, n, x, plain, all[x - 1], all[x])
      <3>1. CASE x = i
        <4> HIDE DEF plain
        <4> QED
          BY <1>0, <1>2, <2>4, <2>6, <3>1 DEF LetterFits
      <3>2. CASE x = i + 1
        <4>1. all[x - 1] = j - 1 /\ all[x] = j /\ j = j - 1 + 1
          BY <1>0, <2>2, <2>3, <2>4, <3>2
        <4> HIDE DEF plain
        <4> QED
          BY <1>2, <2>6, <3>2, <4>1 DEF LetterFits
      <3>3. CASE x \in i + 2 .. Len(p)
        <4>1. all[x - 1] = cut[x - 1] /\ all[x] = cut[x]
          BY <2>3, <2>4, <3>3
        <4>2. x \in plain <=> x \in left
          BY <2>3, <3>3
        <4>3. LetterFits(p, n, x, left, cut[x - 1], cut[x])
          BY <2>1, <3>3 DEF CutFrom
        <4> HIDE DEF plain
        <4> QED
          BY <4>1, <4>2, <4>3 DEF LetterFits
      <3> QED
        BY <2>3, <3>1, <3>2, <3>3
    <2>9. CutFrom(p, n, i, j, plain, all)
      <3>1. all[Len(p)] = Len(n)
        BY <2>2, <2>3, <2>4
      <3> HIDE DEF plain
      <3> QED
        BY <2>4, <2>5, <2>8, <3>1 DEF CutFrom
    <2> HIDE DEF plain
    <2> QED
      BY <2>7, <2>9 DEF GlobsFrom
  <1> QED
    BY <1>1, <1>2

\* The places found from the end of the pattern back are the right ones.
LEMMA FitsRight ==
  ASSUME NEW p \in Seq(STRING), NEW n \in Seq(STRING)
  PROVE  \A i \in 1 .. Len(p) + 1 : \A j \in 1 .. Len(n) + 1 :
           j \in FitsOf(p, n)[i] <=> GlobsFrom(p, n, i, j)
  <1> DEFINE F == FitsOf(p, n)
             Right(i) == \A j \in 1 .. Len(n) + 1 : j \in F[i] <=> GlobsFrom(p, n, i, j)
             T == {t \in Nat : \A s \in 0 .. t : s <= Len(p) => Right(Len(p) + 1 - s)}
  <1>0. Len(p) \in Nat /\ Len(n) \in Nat
    OBVIOUS
  <1>1. \A i \in 1 .. Len(p) + 2 : F[i] = FitsAt(p, n, i, F[i + 1], F[i + 2])
    BY FitsEquation
  <1> HIDE DEF F
  <1>2. Right(Len(p) + 1)
    <2>1. Len(p) + 1 \in 1 .. Len(p) + 2 /\ Len(p) + 1 \in Nat \ {0}
      BY <1>0
    <2>2. F[Len(p) + 1] = {Len(n) + 1}
      BY <1>1, <2>1, FitsCases
    <2> QED
      BY <2>2, GlobsEnd
  <1>3. ASSUME NEW i \in 1 .. Len(p), Right(i + 1), i < Len(p) => Right(i + 2)
        PROVE  Right(i)
    <2> SUFFICES ASSUME NEW j \in 1 .. Len(n) + 1
                 PROVE  j \in F[i] <=> GlobsFrom(p, n, i, j)
      OBVIOUS
    <2>0. i \in 1 .. Len(p) + 2 /\ i \in Nat \ {0} /\ i <= Len(p)
      BY <1>0
    <2>1. F[i] = FitsAt(p, n, i, F[i + 1], F[i + 2])
      BY <1>1, <2>0
    <2>2. CASE p[i] = "*"
      <3>1. F[i] = {x \in 1 .. Len(n) + 1 : \E k \in x .. Len(n) + 1 : k \in F[i + 1]}
        BY <2>0, <2>1, <2>2, FitsCases
      <3>2. \A k \in 1 .. Len(n) + 1 :
              LetterFits(p, n, i, {}, j - 1, k - 1) <=> k \in j .. Len(n) + 1
        BY <1>0, <2>2 DEF LetterFits
      <3>3. \A k \in j .. Len(n) + 1 : k \in 1 .. Len(n) + 1
        BY <1>0
      <3>4. p[i] # "\\"
        BY <2>2
      <3>5. GlobsFrom(p, n, i, j) <=> \E k \in j .. Len(n) + 1 : GlobsFrom(p, n, i + 1, k)
        BY <3>2, <3>3, <3>4, GlobsLetter
      <3> QED
        BY <1>3, <3>1, <3>3, <3>5
    <2>3. CASE p[i] = "\\"
      <3>1. F[i] = {x \in 1 .. Len(n) : i < Len(p) /\ n[x] = p[i + 1] /\ x + 1 \in F[i + 2]}
        BY <2>0, <2>1, <2>3, FitsCases
      <3>2. GlobsFrom(p, n, i, j) <=>
              /\ i < Len(p) /\ j <= Len(n) /\ n[j] = p[i + 1]
              /\ GlobsFrom(p, n, i + 2, j + 1)
        BY <2>3, GlobsStroke
      <3>3. j \in 1 .. Len(n) <=> j <= Len(n)
        BY <1>0
      <3>4. j <= Len(n) => j + 1 \in 1 .. Len(n) + 1
        BY <1>0
      <3> QED
        BY <1>3, <3>1, <3>2, <3>3, <3>4
    <2>4. CASE p[i] \notin {"*", "\\"}
      <3>1. F[i] = {x \in 1 .. Len(n) : p[i] \in {"?", n[x]} /\ x + 1 \in F[i + 1]}
        BY <2>0, <2>1, <2>4, FitsCases
      <3>2. \A k \in 1 .. Len(n) + 1 :
              LetterFits(p, n, i, {}, j - 1, k - 1) <=>
                k = j + 1 /\ j <= Len(n) /\ p[i] \in {"?", n[j]}
        <4>1. \A k \in 1 .. Len(n) + 1 : k - 1 = j - 1 + 1 <=> k = j + 1 /\ j <= Len(n) /\ k - 1 = j
          BY <1>0
        <4> QED
          BY <2>4, <4>1 DEF LetterFits
      <3>3. j \in 1 .. Len(n) <=> j <= Len(n)
        BY <1>0
      <3>4. j <= Len(n) => j + 1 \in 1 .. Len(n) + 1
        BY <1>0
      <3>5. GlobsFrom(p, n, i, j) <=>
              j <= Len(n) /\ p[i] \in {"?", n[j]} /\ GlobsFrom(p, n, i + 1, j + 1)
        <4>1. p[i] # "\\"
          BY <2>4
        <4>2. GlobsFrom(p, n, i, j) <=>
                \E k \in 1 .. Len(n) + 1 : /\ LetterFits(p, n, i, {}, j - 1, k - 1)
                                           /\ GlobsFrom(p, n, i + 1, k)
          BY <4>1, GlobsLetter
        <4> QED
          BY <3>2, <3>4, <4>2
      <3> QED
        BY <1>3, <3>1, <3>3, <3>4, <3>5
    <2> QED
      BY <2>2, <2>3, <2>4
  <1> HIDE DEF Right
  <1>4. 0 \in T
    <2>1. \A s \in 0 .. 0 : Len(p) + 1 - s = Len(p) + 1
      BY <1>0
    <2> QED
      BY <1>2, <2>1
  <1>5. ASSUME NEW t \in Nat, t \in T
        PROVE  t + 1 \in T
    <2>1. ASSUME t + 1 <= Len(p)
          PROVE  Right(Len(p) + 1 - (t + 1))
      <3> DEFINE i == Len(p) - t
      <3>1. i \in 1 .. Len(p) /\ i + 1 = Len(p) + 1 - t
        BY <1>0, <2>1
      <3>2. Right(i + 1)
        BY <1>0, <1>5, <2>1, <3>1
      <3>3. ASSUME i < Len(p)
            PROVE  Right(i + 2)
        <4>1. t - 1 \in 0 .. t /\ t - 1 <= Len(p) /\ i + 2 = Len(p) + 1 - (t - 1)
          BY <1>0, <2>1, <3>3
        <4> QED
          BY <1>5, <4>1
      <3>4. Len(p) + 1 - (t + 1) = i
        BY <1>0
      <3> HIDE DEF i
      <3> QED
        BY <1>3, <3>1, <3>2, <3>3, <3>4
    <2>2. \A s \in 0 .. t + 1 : s = t + 1 \/ s \in 0 .. t
      OBVIOUS
    <2> QED
      BY <1>5, <2>1, <2>2
  <1>6. Len(p) \in T
    <2> HIDE DEF T
    <2> QED
      BY <1>0, <1>4, <1>5, NatInd
  <1>7. ASSUME NEW i \in 1 .. Len(p) + 1
        PROVE  Right(i)
    <2>1. /\ Len(p) + 1 - i \in 0 .. Len(p) /\ Len(p) + 1 - i <= Len(p)
          /\ Len(p) + 1 - (Len(p) + 1 - i) = i
      BY <1>0
    <2>2. Right(Len(p) + 1 - (Len(p) + 1 - i))
      BY <1>6, <2>1
    <2> QED
      BY <2>1, <2>2
  <1> QED
    BY <1>7 DEF Right, F

\* globMatch takes a name exactly when the pattern can be stretched over it,
\* for names and patterns of any length (policy.go).
THEOREM GlobMatchStretches ==
  ASSUME NEW p \in Seq(STRING), NEW n \in Seq(STRING)
  PROVE  GlobMatch(p, n) <=> Globs(p, n)
  <1>1. 1 \in 1 .. Len(p) + 1 /\ 1 \in 1 .. Len(n) + 1
    OBVIOUS
  <1> QED
    BY <1>1, GlobMatchIs, FitsRight, GlobsWhole
-----------------------------------------------------------------------------
(* Which keys are refused.                                                  *)

\* A Redis command no denied statement is part of is refused for its key.
LEMMA KeysChecked ==
  ASSUME NEW q, q.kind = "redis", q.args \in Seq(Seq(STRING)),
         ~ DeniedStatement(policy, q.words)
  PROVE  CheckNative(policy, q) # "passed" <=>
           \E k \in RedisKeys(q), d \in Range(policy.tables) : Globs(d, k) \/ d = k
  <1>1. policy.tables \in Seq(Seq(STRING))
    <2>1. Global.tables \in Seq(Name) /\ Own.tables \in Seq(Name)
      BY GlobalParts, OwnType DEF Variable
    <2> HIDE DEF Global, Own
    <2>2. Global.tables \o Own.tables \in Seq(Seq(STRING))
      BY <2>1 DEF Name
    <2> QED
      BY <2>2, PolicyParts
  <1>2. \A d \in Range(policy.tables) : d \in Seq(STRING)
    BY <1>1 DEF Range
  <1>3. \A k \in RedisKeys(q) : k \in Seq(STRING)
    BY DEF RedisKeys
  <1>4. \A k \in RedisKeys(q), d \in Range(policy.tables) : GlobMatch(d, k) <=> Globs(d, k)
    BY <1>2, <1>3, GlobMatchStretches
  <1>5. CheckKeys(policy, q) # "passed" <=>
          \E k \in RedisKeys(q), d \in Range(policy.tables) : Globs(d, k) \/ d = k
    BY <1>4 DEF CheckKeys
  <1>6. policy.tables = <<>> => Range(policy.tables) = {}
    BY DEF Range
  <1>7. CheckNative(policy, q) = IF policy.tables = <<>> THEN "passed" ELSE CheckKeys(policy, q)
    BY DEF CheckNative
  <1> QED
    BY <1>5, <1>6, <1>7

\* A Redis command is refused exactly when its first key fits one of the
\* denied patterns or is one letter for letter, whatever the keys and the
\* patterns (CheckNative and globMatch of policy.go).
THEOREM KeysAlwaysGlobbed == Spec => []KeysGlobbed
  <1>1. Checked => KeysGlobbed
    <2> SUFFICES ASSUME Checked, ~ job.sql, job.query.kind = "redis", phase # "given",
                        ~ DeniedStatement(policy, job.query.words)
                 PROVE  phase = "denied" <=>
                          \E k \in RedisKeys(job.query), d \in Range(policy.tables) :
                            Globs(d, k) \/ d = k
      BY DEF KeysGlobbed
    <2>1. phase = "denied" <=> CheckNative(policy, job.query) # "passed"
      BY DEF Checked, Passed
    <2>2. job.query.args \in Seq(Seq(STRING))
      BY KeysAssumption DEF Checked
    <2> QED
      BY <2>1, <2>2, KeysChecked
  <1> QED
    BY <1>1, CheckedAlways, PTL

-----------------------------------------------------------------------------
(* The lexer.                                                                *)

\* Where a run ends.
LEMMA PastRunIs ==
  ASSUME NEW cs, Len(cs) \in Nat, NEW i \in 1 .. Len(cs) + 1, NEW S, "end" \notin S
  PROVE  LET j == PastRun(cs, i, S)
         IN  /\ j \in i .. Len(cs) + 1
             /\ \A k \in i .. j - 1 : cs[k] \in S
             /\ Char(cs, j) \notin S
  <1> DEFINE J == {j \in i .. Len(cs) + 1 : Char(cs, j) \notin S}
  <1>1. Len(cs) + 1 \in J
    BY DEF Char
  <1>2. J \in SUBSET Nat /\ J # {}
    BY <1>1
  <1>3. PICK j \in J : \A k \in J : j <= k
    BY <1>2, LeastNat
  <1>4. j \in i .. Len(cs) + 1 /\ Char(cs, j) \notin S
    OBVIOUS
  <1>5. ASSUME NEW k \in i .. j - 1
        PROVE  cs[k] \in S
    <2>1. k \in i .. Len(cs) + 1 /\ k \in 1 .. Len(cs) /\ ~ (j <= k)
      BY <1>4
    <2>2. Char(cs, k) \in S
      BY <1>3, <2>1
    <2> QED
      BY <2>1, <2>2 DEF Char
  <1> HIDE DEF J
  <1> QED
    BY <1>4, <1>5 DEF PastRun

\* The equation of StringEnd, for the positions from k on.
Closes(cs, q, k, close) ==
  close = [m \in k .. Len(cs) + 2 |->
             IF m > Len(cs) THEN 0
             ELSE IF cs[m] # q THEN close[m + 1]
             ELSE IF Char(cs, m + 1) = q THEN close[m + 2]
             ELSE m]

\* A function that satisfies it exists, which is found from the end back.
LEMMA ClosesExists ==
  ASSUME NEW cs, Len(cs) \in Nat, NEW q, NEW n \in Nat, n <= Len(cs)
  PROVE  \E close : Closes(cs, q, Len(cs) + 1 - n, close)
  <1> DEFINE N == Len(cs)
             T == {m \in Nat : m <= N => \E close : Closes(cs, q, N + 1 - m, close)}
             Value(m, f) == IF m > N THEN 0
                            ELSE IF cs[m] # q THEN f[m + 1]
                            ELSE IF Char(cs, m + 1) = q THEN f[m + 2]
                            ELSE m
  <1>1. 0 \in T
    <2> DEFINE f == [m \in N + 1 .. N + 2 |-> 0]
    <2>1. f = [m \in N + 1 .. N + 2 |-> Value(m, f)]
      <3>1. \A m \in N + 1 .. N + 2 : m > N
        OBVIOUS
      <3> QED
        BY <3>1
    <2> HIDE DEF f
    <2>2. Closes(cs, q, N + 1, f)
      BY <2>1 DEF Closes
    <2>3. N + 1 - 0 = N + 1
      OBVIOUS
    <2> QED
      BY <2>2, <2>3
  <1>2. ASSUME NEW m \in Nat, m \in T
        PROVE  m + 1 \in T
    <2> SUFFICES ASSUME m + 1 <= N
                 PROVE  \E close : Closes(cs, q, N + 1 - (m + 1), close)
      OBVIOUS
    <2> DEFINE k == N + 1 - (m + 1)
    <2>1. k \in 1 .. N /\ N + 1 - m = k + 1
      OBVIOUS
    <2>2. PICK f : Closes(cs, q, k + 1, f)
      BY <1>2, <2>1
    <2>3. f = [j \in k + 1 .. N + 2 |-> Value(j, f)]
      BY <2>2 DEF Closes
    <2> DEFINE now == Value(k, f)
               g == [j \in k .. N + 2 |-> IF j = k THEN now ELSE f[j]]
    <2> HIDE DEF k, now
    <2>4. \A j \in k .. N + 2 : g[j] = IF j = k THEN now ELSE f[j]
      OBVIOUS
    <2>5. g = [j \in k .. N + 2 |-> g[j]]
      OBVIOUS
    <2> HIDE DEF g
    <2>6. ASSUME NEW j \in k .. N + 2
          PROVE  g[j] = Value(j, g)
      <3>1. CASE j > N
        <4>1. j # k /\ j \in k + 1 .. N + 2
          BY <2>1, <3>1
        <4> QED
          BY <2>3, <2>4, <3>1, <4>1
      <3>2. CASE j <= N
        <4>1. /\ j + 1 \in k .. N + 2 /\ j + 1 # k
              /\ j + 2 \in k .. N + 2 /\ j + 2 # k
          BY <2>1, <3>2
        <4>2. g[j + 1] = f[j + 1] /\ g[j + 2] = f[j + 2]
          BY <2>4, <4>1
        <4>3. g[j] = Value(j, f)
          <5>1. CASE j = k
            BY <2>4, <5>1 DEF now
          <5>2. CASE j # k
            <6>1. j \in k + 1 .. N + 2
              BY <2>1, <5>2
            <6> QED
              BY <2>3, <2>4, <5>2, <6>1
          <5> QED
            BY <5>1, <5>2
        <4> QED
          BY <4>2, <4>3
      <3> QED
        BY <2>1, <3>1, <3>2
    <2>7. g = [j \in k .. N + 2 |-> Value(j, g)]
      BY <2>5, <2>6
    <2>8. Closes(cs, q, k, g)
      BY <2>7 DEF Closes
    <2> QED
      BY <2>8 DEF k
  <1> HIDE DEF T
  <1>3. n \in T
    BY <1>1, <1>2, NatInd
  <1> QED
    BY <1>3 DEF T

\* The quotes from a position on.
Quotes(cs, q, k) == {m \in k .. Len(cs) : cs[m] = q}

\* A quote more at every quote passed.
LEMMA QuotesCount ==
  ASSUME NEW cs, Len(cs) \in Nat, NEW q, NEW k \in Nat \ {0}
  PROVE  /\ Cardinality(Quotes(cs, q, k)) \in Nat
         /\ k > Len(cs) => Cardinality(Quotes(cs, q, k)) = 0
         /\ k <= Len(cs) /\ cs[k] # q => Quotes(cs, q, k) = Quotes(cs, q, k + 1)
         /\ k <= Len(cs) /\ cs[k] = q
              => Cardinality(Quotes(cs, q, k)) = Cardinality(Quotes(cs, q, k + 1)) + 1
  <1> DEFINE N == Len(cs)
             here == Quotes(cs, q, k)
             next == Quotes(cs, q, k + 1)
  <1>1. IsFiniteSet(here) /\ IsFiniteSet(next)
    <2>1. IsFiniteSet(1 .. N)
      <3>1. 1 \in Int /\ N \in Int
        OBVIOUS
      <3> QED
        BY <3>1, FS_Interval
    <2>2. here \subseteq 1 .. N /\ next \subseteq 1 .. N
      BY DEF Quotes
    <2> QED
      BY <2>1, <2>2, FS_Subset
  <1>2. Cardinality(here) \in Nat
    BY <1>1, FS_CardinalityType
  <1>3. ASSUME k > N
        PROVE  Cardinality(here) = 0
    <2>1. here = {}
      BY <1>3 DEF Quotes
    <2> QED
      BY <2>1, FS_EmptySet
  <1>4. ASSUME k <= N, cs[k] # q
        PROVE  here = next
    <2>1. \A m : m \in here <=> m \in next
      BY <1>4 DEF Quotes
    <2> QED
      BY <2>1
  <1>5. ASSUME k <= N, cs[k] = q
        PROVE  Cardinality(here) = Cardinality(next) + 1
    <2>1. k \notin next /\ \A m : m \in here <=> m \in next \/ m = k
      BY <1>5 DEF Quotes
    <2> HIDE DEF here, next
    <2>2. here = next \cup {k}
      BY <2>1
    <2> QED
      BY <1>1, <2>1, <2>2, FS_AddElement
  <1> QED
    BY <1>2, <1>3, <1>4, <1>5

\* A string ends at a quote that is not followed by another one, or else its
\* quotes can be put in pairs.
LEMMA StringEndIs ==
  ASSUME NEW cs, Len(cs) \in Nat, NEW q, q # "end", NEW i \in 1 .. Len(cs) + 2
  PROVE  \/ StringEnd(cs, i, q) = 0 /\ Cardinality(Quotes(cs, q, i)) % 2 = 0
         \/ StringEnd(cs, i, q) \in i .. Len(cs) /\ Char(cs, StringEnd(cs, i, q) + 1) # q
  <1> DEFINE N == Len(cs)
             close == CHOOSE f : Closes(cs, q, 1, f)
             Even(k) == Cardinality(Quotes(cs, q, k)) % 2 = 0
             Right(k) == \/ close[k] = 0 /\ Even(k)
                         \/ close[k] \in k .. N /\ Char(cs, close[k] + 1) # q
             T == {m \in Nat : \A k \in 1 .. N + 2 : k >= N + 2 - m => Right(k)}
  <1>1. Closes(cs, q, 1, close)
    <2>1. N + 1 - N = 1
      OBVIOUS
    <2>2. \E f : Closes(cs, q, 1, f)
      BY <2>1, ClosesExists
    <2> QED
      BY <2>2
  <1>2. StringEnd(cs, i, q) = close[i]
    BY DEF StringEnd, Closes
  <1> HIDE DEF close
  <1>3. \A k \in 1 .. N + 2 : close[k] = IF k > N THEN 0
                                         ELSE IF cs[k] # q THEN close[k + 1]
                                         ELSE IF Char(cs, k + 1) = q THEN close[k + 2]
                                         ELSE k
    BY <1>1 DEF Closes
  <1>4. ASSUME NEW k \in 1 .. N + 2, \A j \in 1 .. N + 2 : j > k => Right(j)
        PROVE  Right(k)
    <2>1. CASE k > N
      <3>1. close[k] = 0 /\ Cardinality(Quotes(cs, q, k)) = 0
        BY <1>3, <2>1, QuotesCount
      <3> QED
        BY <3>1
    <2>2. CASE k <= N /\ cs[k] # q
      <3>1. close[k] = close[k + 1] /\ Quotes(cs, q, k) = Quotes(cs, q, k + 1) /\ Right(k + 1)
        BY <1>3, <1>4, <2>2, QuotesCount
      <3> QED
        BY <3>1
    <2>3. CASE k <= N /\ cs[k] = q /\ Char(cs, k + 1) = q
      <3>1. k + 1 <= N /\ cs[k + 1] = q
        BY <2>3 DEF Char
      <3>2. close[k] = close[k + 2] /\ Right(k + 2)
        BY <1>3, <1>4, <2>3, <3>1
      <3>3. /\ Cardinality(Quotes(cs, q, k)) = Cardinality(Quotes(cs, q, k + 1)) + 1
            /\ Cardinality(Quotes(cs, q, k + 1)) = Cardinality(Quotes(cs, q, k + 1 + 1)) + 1
        BY <2>3, <3>1, QuotesCount
      <3>4. k + 1 + 1 = k + 2 /\ Cardinality(Quotes(cs, q, k + 2)) \in Nat
        BY QuotesCount
      <3>5. Even(k + 2) => Even(k)
        <4> DEFINE c == Cardinality(Quotes(cs, q, k + 2))
                   d == Cardinality(Quotes(cs, q, k))
        <4>1. c \in Nat /\ d = c + 2
          BY <3>3, <3>4
        <4> HIDE DEF c, d
        <4>2. c % 2 = 0 => d % 2 = 0
          BY <4>1
        <4> QED
          BY <4>2 DEF c, d
      <3>6. close[k + 2] \in k + 2 .. N => close[k + 2] \in k .. N
        OBVIOUS
      <3> HIDE DEF Even
      <3> QED
        BY <3>2, <3>5, <3>6
    <2>4. CASE k <= N /\ cs[k] = q /\ Char(cs, k + 1) # q
      <3>1. close[k] = k
        BY <1>3, <2>4
      <3> QED
        BY <2>4, <3>1
    <2> QED
      BY <2>1, <2>2, <2>3, <2>4
  <1> HIDE DEF Right
  <1>5. 0 \in T
    <2>1. ASSUME NEW k \in 1 .. N + 2, k >= N + 2 - 0
          PROVE  Right(k)
      <3>1. ~ \E j \in 1 .. N + 2 : j > k
        BY <2>1
      <3> QED
        BY <1>4, <3>1
    <2> QED
      BY <2>1
  <1>6. ASSUME NEW m \in Nat, m \in T
        PROVE  m + 1 \in T
    <2>1. ASSUME NEW k \in 1 .. N + 2, k >= N + 2 - (m + 1)
          PROVE  Right(k)
      <3>1. \A j \in 1 .. N + 2 : j > k => j >= N + 2 - m
        BY <2>1
      <3> QED
        BY <1>4, <1>6, <3>1
    <2> QED
      BY <2>1
  <1>7. i >= N + 2 - (N + 2) /\ N + 2 \in Nat
    OBVIOUS
  <1>8. N + 2 \in T
    <2> HIDE DEF T
    <2> QED
      BY <1>5, <1>6, <1>7, NatInd
  <1>9. Right(i)
    BY <1>7, <1>8
  <1> QED
    BY <1>2, <1>9 DEF Right

\* What is right of a token by itself: it is one of the text, as long as it can
\* be, and an error only where no token begins.
TokenRight(cs, t) ==
  /\ t.from \in 1 .. Len(cs) /\ t.to \in t.from .. Len(cs)
  /\ t.class \in {"word", "number"} => Char(cs, t.to + 1) \notin Digits
  /\ t.class = "word" => cs[t.from] \in Letters /\ Char(cs, t.to + 1) \notin Letters
  /\ t.class = "string" => Char(cs, t.to + 1) # cs[t.from]
  /\ t.from = t.to => <<cs[t.from], Char(cs, t.from + 1)>> \notin Pairs
  /\ t.class = "error" =>
       /\ t.to = t.from
       /\ IF cs[t.from] \in QuoteMarks THEN Cardinality(Quotes(cs, cs[t.from], t.from)) % 2 = 1
          ELSE cs[t.from] \notin Letters \cup Digits \cup Marks \cup {"<", ">"}

\* A word ends where its letters and digits do.
LEMMA WordEndIs ==
  ASSUME NEW cs, Len(cs) \in Nat, NEW i \in 1 .. Len(cs), cs[i] \in Letters
  PROVE  /\ WordEnd(cs, i) \in i .. Len(cs)
         /\ Char(cs, WordEnd(cs, i) + 1) \notin Letters \cup Digits
  <1> DEFINE S == Letters \cup Digits
             j == PastRun(cs, i, S)
  <1>1. "end" \notin S
    BY LexerAssumption
  <1>2. j \in i .. Len(cs) + 1 /\ Char(cs, j) \notin S
    <2> HIDE DEF S
    <2> QED
      BY <1>1, PastRunIs
  <1>3. j # i
    <2>1. Char(cs, i) \in S
      BY DEF Char
    <2> HIDE DEF j
    <2> QED
      BY <1>2, <2>1
  <1>4. WordEnd(cs, i) = j - 1
    BY DEF WordEnd
  <1> HIDE DEF j
  <1>5. j - 1 \in i .. Len(cs) /\ j - 1 + 1 = j
    BY <1>2, <1>3
  <1> QED
    BY <1>2, <1>4, <1>5

\* A number ends where its digits do, or those after its point.
LEMMA NumberEndIs ==
  ASSUME NEW cs, Len(cs) \in Nat, NEW i \in 1 .. Len(cs), cs[i] \in Digits
  PROVE  NumberEnd(cs, i) \in i .. Len(cs) /\ Char(cs, NumberEnd(cs, i) + 1) \notin Digits
  <1> DEFINE j == PastRun(cs, i, Digits)
             k == PastRun(cs, j + 1, Digits)
             float == Char(cs, j) = "." /\ Char(cs, j + 1) \in Digits
  <1>1. "end" \notin Digits
    BY LexerAssumption
  <1>2. j \in i .. Len(cs) + 1 /\ Char(cs, j) \notin Digits
    BY <1>1, PastRunIs
  <1>3. NumberEnd(cs, i) = IF float THEN k - 1 ELSE j - 1
    BY DEF NumberEnd
  <1> HIDE DEF j, k
  <1>4. j # i
    BY <1>2 DEF Char
  <1>5. CASE float
    <2>1. j <= Len(cs)
      BY <1>5, <1>2 DEF Char
    <2>2. j + 1 \in 1 .. Len(cs) + 1
      BY <1>2, <2>1
    <2>3. k \in j + 1 .. Len(cs) + 1 /\ Char(cs, k) \notin Digits
      BY <1>1, <2>2, PastRunIs DEF k
    <2>4. k - 1 \in i .. Len(cs) /\ k - 1 + 1 = k
      BY <1>2, <2>3
    <2> QED
      BY <1>3, <1>5, <2>3, <2>4
  <1>6. CASE ~ float
    <2>1. j - 1 \in i .. Len(cs) /\ j - 1 + 1 = j
      BY <1>2, <1>4
    <2> QED
      BY <1>2, <1>3, <1>6, <2>1
  <1> QED
    BY <1>5, <1>6

\* Next gives such a token, from where it stands on.
LEMMA NextTokenIs ==
  ASSUME NEW cs, Len(cs) \in Nat, NEW i \in 1 .. Len(cs)
  PROVE  NextToken(cs, i).from = i /\ TokenRight(cs, NextToken(cs, i))
  <1> DEFINE c == cs[i]
             close == StringEnd(cs, i + 1, c)
             t == NextToken(cs, i)
             pair == <<c, Char(cs, i + 1)>> \in Pairs
             mark == c \in Marks \cup {"<", ">"}
             quote == c \in QuoteMarks
  <1>1. \A class, a, b : LET s == Token(class, a, b)
                         IN  s.class = class /\ s.from = a /\ s.to = b
    BY DEF Token
  <1>2. t = IF pair THEN Token("mark", i, i + 1)
            ELSE IF mark THEN Token("mark", i, i)
            ELSE IF quote /\ close # 0 THEN Token("string", i, close)
            ELSE IF c \in Digits THEN Token("number", i, NumberEnd(cs, i))
            ELSE IF c \in Letters THEN Token("word", i, WordEnd(cs, i))
            ELSE Token("error", i, i)
    BY DEF NextToken
  <1>3. quote => \/ close = 0 /\ Cardinality(Quotes(cs, c, i + 1)) % 2 = 0
                 \/ close \in i + 1 .. Len(cs) /\ Char(cs, close + 1) # c
    <2>1. quote => c # "end"
      BY Zenon DEF QuoteMarks
    <2>2. i + 1 \in 1 .. Len(cs) + 2
      OBVIOUS
    <2> HIDE DEF c
    <2> QED
      BY <2>1, <2>2, StringEndIs
  <1>4. pair => i + 1 <= Len(cs)
    <2>1. pair => Char(cs, i + 1) # "end"
      BY DEF Pairs
    <2> QED
      BY <2>1 DEF Char
  <1> HIDE DEF close, t
  <1>5. CASE pair
    <2>1. t.class = "mark" /\ t.from = i /\ t.to = i + 1
      BY <1>1, <1>2, <1>5
    <2> QED
      BY <1>4, <1>5, <2>1 DEF TokenRight, t
  <1>6. CASE ~ pair /\ mark
    <2>1. t.class = "mark" /\ t.from = i /\ t.to = i
      BY <1>1, <1>2, <1>6
    <2> QED
      BY <1>6, <2>1 DEF TokenRight, t
  <1>7. CASE ~ pair /\ ~ mark /\ quote /\ close # 0
    <2>1. t.class = "string" /\ t.from = i /\ t.to = close
      BY <1>1, <1>2, <1>7
    <2>2. close \in i .. Len(cs) /\ close # i /\ Char(cs, close + 1) # c
      BY <1>3, <1>7
    <2> QED
      BY <2>1, <2>2 DEF TokenRight, t
  <1>8. CASE ~ pair /\ ~ mark /\ ~ (quote /\ close # 0) /\ c \in Digits
    <2>1. t.class = "number" /\ t.from = i /\ t.to = NumberEnd(cs, i)
      BY <1>1, <1>2, <1>8
    <2>2. NumberEnd(cs, i) \in i .. Len(cs) /\ Char(cs, NumberEnd(cs, i) + 1) \notin Digits
      BY <1>8, NumberEndIs
    <2> QED
      BY <1>8, <2>1, <2>2 DEF TokenRight, t
  <1>9. CASE ~ pair /\ ~ mark /\ ~ (quote /\ close # 0) /\ c \notin Digits /\ c \in Letters
    <2>1. t.class = "word" /\ t.from = i /\ t.to = WordEnd(cs, i)
      BY <1>1, <1>2, <1>9
    <2>2. /\ WordEnd(cs, i) \in i .. Len(cs)
          /\ Char(cs, WordEnd(cs, i) + 1) \notin Letters \cup Digits
      BY <1>9, WordEndIs
    <2> QED
      BY <1>9, <2>1, <2>2 DEF TokenRight, t
  <1>10. CASE ~ pair /\ ~ mark /\ ~ (quote /\ close # 0) /\ c \notin Digits /\ c \notin Letters
    <2>1. t.class = "error" /\ t.from = i /\ t.to = i
      BY <1>1, <1>2, <1>10
    <2>2. quote => Cardinality(Quotes(cs, c, i)) % 2 = 1
      <3> DEFINE d == Cardinality(Quotes(cs, c, i + 1))
                 e == Cardinality(Quotes(cs, c, i))
      <3>1. quote => d % 2 = 0
        BY <1>3, <1>10
      <3>2. e = d + 1 /\ d \in Nat
        BY QuotesCount
      <3> HIDE DEF d, e
      <3>3. quote => e % 2 = 1
        BY <3>1, <3>2
      <3> QED
        BY <3>3 DEF e
    <2> QED
      BY <1>10, <2>1, <2>2 DEF TokenRight, t
  <1> QED
    BY <1>5, <1>6, <1>7, <1>8, <1>9, <1>10

\* The equation of Tokenize, for the positions from k on.
Lexed(cs, m, from) ==
  LET j == SkipBlanks(cs, m)
      t == NextToken(cs, j)
  IN  IF j > Len(cs) THEN <<>>
      ELSE IF t.class = "error" THEN <<t>>
      ELSE <<t>> \o from[t.to + 1]

Lexes(cs, k, from) == from = [m \in k .. Len(cs) + 1 |-> Lexed(cs, m, from)]

\* What follows a token is further on.
LEMMA LexedOn ==
  ASSUME NEW cs, Len(cs) \in Nat, NEW k \in 1 .. Len(cs) + 1
  PROVE  LET j == SkipBlanks(cs, k)
         IN  /\ j \in k .. Len(cs) + 1
             /\ \A m \in k .. j - 1 : cs[m] \in Blanks
             /\ j <= Len(cs) => /\ NextToken(cs, j).from = j
                                /\ TokenRight(cs, NextToken(cs, j))
                                /\ NextToken(cs, j).to + 1 \in j + 1 .. Len(cs) + 1
  <1> DEFINE j == PastRun(cs, k, Blanks)
  <1>1. "end" \notin Blanks
    BY LexerAssumption
  <1>2. /\ j \in k .. Len(cs) + 1
        /\ \A m \in k .. j - 1 : cs[m] \in Blanks
    BY <1>1, PastRunIs
  <1> HIDE DEF j
  <1>3. ASSUME j <= Len(cs)
        PROVE  /\ NextToken(cs, j).from = j
               /\ TokenRight(cs, NextToken(cs, j))
               /\ NextToken(cs, j).to + 1 \in j + 1 .. Len(cs) + 1
    <2>1. j \in 1 .. Len(cs)
      BY <1>2, <1>3
    <2>2. NextToken(cs, j).from = j /\ TokenRight(cs, NextToken(cs, j))
      BY <2>1, NextTokenIs
    <2>3. NextToken(cs, j).to \in j .. Len(cs)
      BY <2>2 DEF TokenRight
    <2> QED
      BY <2>1, <2>2, <2>3
  <1> QED
    BY <1>2, <1>3 DEF SkipBlanks, j

\* A function that satisfies it exists, as for Closes.
LEMMA LexesExists ==
  ASSUME NEW cs, Len(cs) \in Nat, NEW n \in Nat, n <= Len(cs)
  PROVE  \E from : Lexes(cs, Len(cs) + 1 - n, from)
  <1> DEFINE N == Len(cs)
             T == {m \in Nat : m <= N => \E from : Lexes(cs, N + 1 - m, from)}
  <1>1. 0 \in T
    <2> DEFINE f == [m \in N + 1 .. N + 1 |-> <<>>]
    <2>1. ASSUME NEW m \in N + 1 .. N + 1
          PROVE  Lexed(cs, m, f) = <<>>
      <3>1. SkipBlanks(cs, m) \in m .. N + 1
        BY LexedOn
      <3>2. SkipBlanks(cs, m) > N
        BY <3>1
      <3> QED
        BY <3>2 DEF Lexed
    <2>2. Lexes(cs, N + 1, f)
      BY <2>1 DEF Lexes
    <2>3. N + 1 - 0 = N + 1
      OBVIOUS
    <2> HIDE DEF f
    <2> QED
      BY <2>2, <2>3
  <1>2. ASSUME NEW m \in Nat, m \in T
        PROVE  m + 1 \in T
    <2> SUFFICES ASSUME m + 1 <= N
                 PROVE  \E from : Lexes(cs, N + 1 - (m + 1), from)
      OBVIOUS
    <2> DEFINE k == N + 1 - (m + 1)
    <2>1. k \in 1 .. N /\ N + 1 - m = k + 1
      OBVIOUS
    <2>2. PICK f : Lexes(cs, k + 1, f)
      BY <1>2, <2>1
    <2>3. f = [j \in k + 1 .. N + 1 |-> Lexed(cs, j, f)]
      BY <2>2 DEF Lexes
    <2> DEFINE now == Lexed(cs, k, f)
               g == [j \in k .. N + 1 |-> IF j = k THEN now ELSE f[j]]
    <2> HIDE DEF k, now
    <2>4. \A j \in k .. N + 1 : g[j] = IF j = k THEN now ELSE f[j]
      OBVIOUS
    <2>5. g = [j \in k .. N + 1 |-> g[j]]
      OBVIOUS
    <2> HIDE DEF g
    <2>6. ASSUME NEW j \in k .. N + 1
          PROVE  g[j] = Lexed(cs, j, g)
      <3> DEFINE at == SkipBlanks(cs, j)
                 next == NextToken(cs, at).to + 1
      <3>1. at \in j .. N + 1 /\ (at <= N => next \in at + 1 .. N + 1)
        <4>1. j \in 1 .. N + 1
          BY <2>1
        <4> QED
          BY <4>1, LexedOn
      <3>2. at <= N => g[next] = f[next]
        <4> HIDE DEF at, next
        <4>1. at <= N => next \in k .. N + 1 /\ next # k
          BY <2>1, <3>1
        <4> QED
          BY <2>4, <4>1
      <3>3. Lexed(cs, j, g) = Lexed(cs, j, f)
        <4>1. CASE at <= N
          BY <3>2, <4>1 DEF Lexed
        <4>2. CASE at > N
          BY <4>2 DEF Lexed
        <4> HIDE DEF at
        <4> QED
          BY <2>1, <3>1, <4>1, <4>2
      <3>4. CASE j = k
        BY <2>4, <3>3, <3>4 DEF now
      <3>5. CASE j # k
        <4>1. j \in k + 1 .. N + 1
          BY <2>1, <3>5
        <4> QED
          BY <2>3, <2>4, <3>3, <3>5, <4>1
      <3> QED
        BY <3>4, <3>5
    <2>7. g = [j \in k .. N + 1 |-> Lexed(cs, j, g)]
      BY <2>5, <2>6
    <2>8. Lexes(cs, k, g)
      BY <2>7 DEF Lexes
    <2> QED
      BY <2>8 DEF k
  <1> HIDE DEF T
  <1>3. n \in T
    BY <1>1, <1>2, NatInd
  <1> QED
    BY <1>3 DEF T

\* Nothing but white space.
BlankIn(cs, i, j) == \A k \in i .. j : cs[k] \in Blanks

TokensOf(cs) == {NextToken(cs, i) : i \in 1 .. Len(cs)}

\* Where the text is cut before the token after the n-th, for the text from k on.
CutAt(k, ts, n) == IF n = 0 THEN k ELSE ts[n].to + 1

\* The n-th token stands where the text is cut, but for blanks.
CutRight(cs, k, ts, n) ==
  /\ TokenRight(cs, ts[n])
  /\ CutAt(k, ts, n - 1) <= ts[n].from
  /\ BlankIn(cs, CutAt(k, ts, n - 1), ts[n].from - 1)
  /\ n < Len(ts) => ts[n].class # "error"

\* The text from k on is cut into the tokens, whole or up to an error.
TextCut(cs, k, ts) ==
  /\ ts \in Seq(TokensOf(cs))
  /\ \A n \in 1 .. Len(ts) : CutRight(cs, k, ts, n)
  /\ ts = <<>> \/ ts[Len(ts)].class # "error" => BlankIn(cs, CutAt(k, ts, Len(ts)), Len(cs))

\* A token before those of the text after it.
LEMMA CutBefore ==
  ASSUME NEW cs, Len(cs) \in Nat, NEW k \in 1 .. Len(cs) + 1,
         NEW t \in TokensOf(cs), TokenRight(cs, t), t.class # "error",
         k <= t.from, BlankIn(cs, k, t.from - 1),
         NEW rest, TextCut(cs, t.to + 1, rest)
  PROVE  TextCut(cs, k, <<t>> \o rest)
  <1> DEFINE S == TokensOf(cs)
             ts == <<t>> \o rest
             N == Len(rest)
  <1>1. rest \in Seq(S) /\ <<t>> \in Seq(S) /\ N \in Nat
    BY DEF TextCut
  <1> HIDE DEF S
  <1>2. ts \in Seq(S) /\ Len(ts) = N + 1 /\ ts[1] = t /\ \A n \in 1 .. N : ts[n + 1] = rest[n]
    <2>1. Len(<<t>>) = 1 /\ <<t>>[1] = t
      OBVIOUS
    <2> QED
      BY <1>1, <2>1, ConcatProperties
  <1> HIDE DEF ts, N
  <1>3. \A n \in 0 .. N : CutAt(k, ts, n + 1) = CutAt(t.to + 1, rest, n)
    BY <1>1, <1>2 DEF CutAt
  <1>4. CutRight(cs, k, ts, 1)
    <2>1. CutAt(k, ts, 1 - 1) = k
      BY DEF CutAt
    <2> QED
      BY <1>2, <2>1 DEF CutRight
  <1>5. ASSUME NEW n \in 1 .. N
        PROVE  CutRight(cs, k, ts, n + 1)
    <2>1. CutRight(cs, t.to + 1, rest, n)
      BY DEF TextCut, N
    <2>2. CutAt(k, ts, n + 1 - 1) = CutAt(t.to + 1, rest, n - 1)
      <3>1. n - 1 \in 0 .. N /\ n - 1 + 1 = n + 1 - 1
        BY <1>1
      <3> QED
        BY <1>3, <3>1
    <2>3. ts[n + 1] = rest[n] /\ (n + 1 < Len(ts) => n < Len(rest))
      BY <1>1, <1>2 DEF N
    <2> QED
      BY <2>1, <2>2, <2>3 DEF CutRight
  <1>6. \A n \in 1 .. Len(ts) : CutRight(cs, k, ts, n)
    <2>1. ASSUME NEW n \in 1 .. Len(ts)
          PROVE  CutRight(cs, k, ts, n)
      <3>1. n = 1 \/ (n - 1 \in 1 .. N /\ n = n - 1 + 1)
        BY <1>1, <1>2
      <3> QED
        BY <1>4, <1>5, <3>1
    <2> QED
      BY <2>1
  <1>7. ASSUME ts[Len(ts)].class # "error"
        PROVE  BlankIn(cs, CutAt(k, ts, Len(ts)), Len(cs))
    <2>1. CutAt(k, ts, Len(ts)) = CutAt(t.to + 1, rest, N)
      BY <1>1, <1>2, <1>3
    <2>2. rest = <<>> \/ rest[N].class # "error"
      <3>1. rest # <<>> => N \in 1 .. N
        BY <1>1 DEF N
      <3>2. N \in 1 .. N => ts[Len(ts)] = rest[N]
        BY <1>2
      <3> QED
        BY <1>7, <3>1, <3>2
    <2> QED
      BY <2>1, <2>2 DEF TextCut, N
  <1>8. ts # <<>>
    BY <1>1, <1>2
  <1> QED
    BY <1>2, <1>6, <1>7, <1>8 DEF TextCut, S, ts

\* The tokens of a text cut it.
LEMMA TokenizeCuts ==
  ASSUME NEW cs, Len(cs) \in Nat
  PROVE  TextCut(cs, 1, Tokenize(cs))
  <1> DEFINE N == Len(cs)
             from == CHOOSE f : Lexes(cs, 1, f)
             T == {m \in Nat : \A k \in 1 .. N + 1 : k >= N + 1 - m => TextCut(cs, k, from[k])}
  <1>1. Lexes(cs, 1, from)
    <2>1. N + 1 - N = 1
      OBVIOUS
    <2>2. \E f : Lexes(cs, 1, f)
      BY <2>1, LexesExists
    <2> QED
      BY <2>2
  <1>2. Tokenize(cs) = from[1]
    BY DEF Tokenize, Lexes, Lexed
  <1> HIDE DEF from
  <1>3. \A k \in 1 .. N + 1 : from[k] = Lexed(cs, k, from)
    BY <1>1 DEF Lexes
  <1>4. ASSUME NEW k \in 1 .. N + 1,
               \A j \in 1 .. N + 1 : j > k => TextCut(cs, j, from[j])
        PROVE  TextCut(cs, k, from[k])
    <2> DEFINE j == SkipBlanks(cs, k)
               t == NextToken(cs, j)
    <2>1. /\ j \in k .. N + 1
          /\ BlankIn(cs, k, j - 1)
          /\ j <= N => t.from = j /\ TokenRight(cs, t) /\ t.to + 1 \in j + 1 .. N + 1
      BY LexedOn DEF BlankIn
    <2>2. from[k] = IF j > N THEN <<>>
                    ELSE IF t.class = "error" THEN <<t>>
                    ELSE <<t>> \o from[t.to + 1]
      BY <1>3 DEF Lexed
    <2>3. j <= N => t \in TokensOf(cs)
      BY <2>1 DEF TokensOf
    <2> HIDE DEF j, t
    <2>4. CASE j > N
      <3>1. from[k] = <<>> /\ Len(<<>>) = 0 /\ j - 1 = N
        BY <2>1, <2>2, <2>4
      <3>2. <<>> \in Seq(TokensOf(cs)) /\ CutAt(k, <<>>, 0) = k /\ 1 .. 0 = {}
        BY DEF CutAt
      <3> QED
        BY <2>1, <3>1, <3>2 DEF TextCut
    <2>5. CASE j <= N /\ t.class = "error"
      <3>1. from[k] = <<t>> /\ Len(<<t>>) = 1 /\ <<t>>[1] = t /\ <<t>> # <<>>
        BY <2>1, <2>2, <2>5
      <3>2. <<t>> \in Seq(TokensOf(cs)) /\ CutAt(k, <<t>>, 1 - 1) = k
        BY <2>3, <2>5 DEF CutAt
      <3>3. CutRight(cs, k, <<t>>, 1)
        BY <2>1, <2>5, <3>1, <3>2 DEF CutRight
      <3> QED
        BY <2>5, <3>1, <3>2, <3>3 DEF TextCut
    <2>6. CASE j <= N /\ t.class # "error"
      <3>1. from[k] = <<t>> \o from[t.to + 1]
        BY <2>1, <2>2, <2>6
      <3>2. t.to + 1 \in 1 .. N + 1 /\ t.to + 1 > k /\ k <= t.from
        BY <2>1, <2>6
      <3>3. TextCut(cs, t.to + 1, from[t.to + 1])
        BY <1>4, <3>2
      <3>4. BlankIn(cs, k, t.from - 1) /\ TokenRight(cs, t) /\ t \in TokensOf(cs)
        BY <2>1, <2>3, <2>6
      <3> QED
        BY <2>6, <3>1, <3>2, <3>3, <3>4, CutBefore
    <2> QED
      BY <2>1, <2>4, <2>5, <2>6
  <1>5. 0 \in T
    <2>1. ASSUME NEW k \in 1 .. N + 1, k >= N + 1 - 0
          PROVE  TextCut(cs, k, from[k])
      <3>1. ~ \E j \in 1 .. N + 1 : j > k
        BY <2>1
      <3> QED
        BY <1>4, <3>1
    <2> QED
      BY <2>1
  <1>6. ASSUME NEW m \in Nat, m \in T
        PROVE  m + 1 \in T
    <2>1. ASSUME NEW k \in 1 .. N + 1, k >= N + 1 - (m + 1)
          PROVE  TextCut(cs, k, from[k])
      <3>1. \A j \in 1 .. N + 1 : j > k => j >= N + 1 - m
        BY <2>1
      <3> QED
        BY <1>4, <1>6, <3>1
    <2> QED
      BY <2>1
  <1>7. 1 >= N + 1 - N /\ N \in Nat /\ 1 \in 1 .. N + 1
    OBVIOUS
  <1>8. N \in T
    <2> HIDE DEF T
    <2> QED
      BY <1>5, <1>6, <1>7, NatInd
  <1>9. TextCut(cs, 1, from[1])
    BY <1>7, <1>8
  <1> QED
    BY <1>2, <1>9

\* The text is cut as LexedWhole says.
LEMMA TokensWhole ==
  ASSUME NEW cs \in Seq(STRING),
         job.chars = cs
  PROVE  LexedWhole
  <1> DEFINE ts == Tokenize(cs)
             N == Len(ts)
             broken == ts # <<>> /\ Last(ts).class = "error"
             Blank(i, j) == \A k \in i .. j : cs[k] \in Blanks
             Glued(s, t) == /\ s.to + 1 = t.from
                            /\ \/ s.class \in {"word", "number"} /\ cs[t.from] \in Digits
                               \/ s.class = "word" /\ t.class = "word"
                               \/ s.class = "string" /\ cs[t.from] = cs[s.from]
                               \/ <<cs[s.to], cs[t.from]>> \in Pairs /\ s.from = s.to
             Open(i) == Cardinality({k \in i .. Len(cs) : cs[k] = cs[i]}) % 2 = 1
             Ends(c) == c \notin Letters \cup Digits \cup Marks \cup {"<", ">"}
  <1>1. Len(cs) \in Nat
    OBVIOUS
  <1>2. TextCut(cs, 1, ts)
    BY <1>1, TokenizeCuts
  <1>3. ts \in Seq(TokensOf(cs)) /\ N \in Nat
    BY <1>2 DEF TextCut
  <1>4. ts # <<>> => N \in 1 .. N
    BY <1>3
  <1>5. Last(ts) = ts[N]
    BY DEF Last
  <1> HIDE DEF ts, N
  <1>6. \A n \in 1 .. N : TokenRight(cs, ts[n])
    BY <1>2 DEF TextCut, CutRight, N
  <1>7. ASSUME NEW n \in 1 .. N - 1
        PROVE  /\ Blank(ts[n].to + 1, ts[n + 1].from - 1)
               /\ ts[n].to < ts[n + 1].from
               /\ ~ Glued(ts[n], ts[n + 1])
    <2> DEFINE s == ts[n]
               t == ts[n + 1]
    <2>1. n \in 1 .. N /\ n + 1 \in 1 .. N /\ n + 1 - 1 = n /\ n # 0
      BY <1>3
    <2>2. TokenRight(cs, s) /\ TokenRight(cs, t)
      BY <1>6, <2>1
    <2>3. CutRight(cs, 1, ts, n + 1)
      BY <1>2, <2>1 DEF TextCut, N
    <2>4. CutAt(1, ts, n + 1 - 1) = s.to + 1
      BY <2>1 DEF CutAt
    <2>5. s.to + 1 <= t.from /\ Blank(s.to + 1, t.from - 1)
      BY <2>3, <2>4 DEF CutRight, BlankIn
    <2>6. s.to \in Nat /\ t.from \in 1 .. Len(cs)
      BY <2>2 DEF TokenRight
    <2> HIDE DEF s, t
    <2>7. ~ Glued(s, t)
      <3> SUFFICES ASSUME s.to + 1 = t.from
                   PROVE  /\ s.class \in {"word", "number"} => cs[t.from] \notin Digits
                          /\ s.class = "word" => t.class # "word"
                          /\ s.class = "string" => cs[t.from] # cs[s.from]
                          /\ s.from = s.to => <<cs[s.to], cs[t.from]>> \notin Pairs
        OBVIOUS
      <3>1. Char(cs, s.to + 1) = cs[t.from]
        BY <2>6 DEF Char
      <3> QED
        BY <2>2, <3>1 DEF TokenRight
    <2> QED
      BY <2>5, <2>6, <2>7 DEF s, t
  <1>8. /\ ts = <<>> => Blank(1, Len(cs))
        /\ ts # <<>> => Blank(1, ts[1].from - 1)
    <2>1. ASSUME ts = <<>>
          PROVE  Blank(1, Len(cs))
      <3>1. Len(ts) = 0 /\ CutAt(1, ts, 0) = 1
        BY <2>1 DEF CutAt
      <3> QED
        BY <1>2, <2>1, <3>1 DEF TextCut, BlankIn
    <2>2. ASSUME ts # <<>>
          PROVE  Blank(1, ts[1].from - 1)
      <3>1. 1 \in 1 .. N
        BY <1>3, <1>4, <2>2
      <3>2. CutRight(cs, 1, ts, 1) /\ CutAt(1, ts, 1 - 1) = 1
        BY <1>2, <3>1 DEF TextCut, CutAt, N
      <3> QED
        BY <3>2 DEF CutRight, BlankIn
    <2> QED
      BY <2>1, <2>2
  <1>9. ASSUME ts # <<>>, ~ broken
        PROVE  Blank(Last(ts).to + 1, Len(cs))
    <2>1. N # 0 /\ ts[N].class # "error"
      BY <1>3, <1>4, <1>5, <1>9
    <2>2. CutAt(1, ts, N) = Last(ts).to + 1
      BY <1>5, <2>1 DEF CutAt
    <2> QED
      BY <1>2, <2>1, <2>2 DEF TextCut, BlankIn, N
  <1>10. ASSUME broken
         PROVE  LET c == cs[Last(ts).from]
                IN  IF c \in QuoteMarks THEN Open(Last(ts).from) ELSE Ends(c)
    <2> DEFINE t == Last(ts)
    <2>1. TokenRight(cs, t) /\ t.class = "error"
      BY <1>4, <1>5, <1>6, <1>10
    <2> HIDE DEF t
    <2>2. IF cs[t.from] \in QuoteMarks THEN Cardinality(Quotes(cs, cs[t.from], t.from)) % 2 = 1
          ELSE Ends(cs[t.from])
      BY <2>1 DEF TokenRight
    <2>3. Quotes(cs, cs[t.from], t.from) = {k \in t.from .. Len(cs) : cs[k] = cs[t.from]}
      BY DEF Quotes
    <2> QED
      BY <2>2, <2>3 DEF t
  <1> HIDE DEF Blank, Glued, Open, Ends, broken
  <1> QED
    BY <1>7, <1>8, <1>9, <1>10
       DEF LexedWhole, ts, N, broken, Blank, Glued, Open, Ends

\* The lexer loses no character but white space and cuts as late as it can,
\* whatever the text and the classes of its characters (lexer.go).
THEOREM AlwaysLexedWhole == Spec => []LexedWhole
  <1>1. job \in Jobs => LexedWhole
    BY TextAssumption, TokensWhole
  <1>2. Init => job \in Jobs
    BY DEF Init
  <1>3. job \in Jobs /\ [Next]_vars => (job \in Jobs)'
    BY DEF Next, vars, Guard, CheckStatement, CheckNativeQuery, Rewrite, SourceAnswers,
           SourceFails, Show
  <1> QED
    BY <1>1, <1>2, <1>3, PTL DEF Spec
=============================================================================
