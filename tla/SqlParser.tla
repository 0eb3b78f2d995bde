----------------------------- MODULE SqlParser -----------------------------
(* The recursive descent SQL parser of src/internal/sqlast (parser.go,       *)
(* types.go) over the tokens its lexer yields.  A token is a string; a       *)
(* keyword or a punctuation mark stands for itself, and the constants below  *)
(* say which tokens the lexer classes as identifiers, numbers, strings or    *)
(* errors.  Letter case and white space are left to the lexer.               *)
(*                                                                           *)
(* A parsing operator takes the tokens and a position and returns            *)
(* [ok |-> TRUE, val |-> what it built, at |-> the next position], or Fail:  *)
(* the parser never backtracks, so its first error is the answer.  An        *)
(* optional part (WHERE, OVER, a frame) is a sequence of length 0 or 1, and  *)
(* a table name the sequence of its dotted parts.                            *)
EXTENDS Integers, Sequences

CONSTANTS Ident,      \* tokens of class IDENT
          Number,     \* tokens of class NUMBER
          Text,       \* tokens of class STRING
          Garbage,    \* tokens the lexer refuses
          IntValue    \* what strconv.Atoi makes of the numbers it accepts

ASSUME IntValueAssumption == DOMAIN IntValue \subseteq Number

-----------------------------------------------------------------------------
(* Results and tokens.                                                       *)

Ok(v, i) == [ok |-> TRUE, val |-> v, at |-> i]
Fail == [ok |-> FALSE]

\* r, then F on what it built.  The set makes TLC evaluate r once.
Then(r, F(_, _)) ==
  CHOOSE out \in {IF v.ok THEN F(v.val, v.at) ELSE Fail : v \in {r}} : TRUE

\* peek: beyond the last token there is only EOF.
At(ts, i) == IF i \in 1 .. Len(ts) THEN ts[i] ELSE "EOF"

Expect(ts, i, t) == IF At(ts, i) = t THEN Ok(t, i + 1) ELSE Fail

\* An optional keyword.
Past(ts, i, t) == IF At(ts, i) = t THEN i + 1 ELSE i

RECURSIVE SkipSemicolons(_, _)
SkipSemicolons(ts, i) ==
  IF At(ts, i) = ";" THEN SkipSemicolons(ts, i + 1) ELSE i

-----------------------------------------------------------------------------
(* The nodes of the tree (types.go).                                         *)

Col(t, c) == [kind |-> "col", table |-> t, name |-> c]
Num(v) == [kind |-> "num", number |-> v]
Str(v) == [kind |-> "str", text |-> v]
Bin(l, op, r) == [kind |-> "bin", left |-> l, op |-> op, right |-> r]
Un(op, e) == [kind |-> "un", op |-> op, operand |-> e]
Btw(e, l, h) == [kind |-> "between", expr |-> e, low |-> l, high |-> h]
Sub(s) == [kind |-> "subquery", stmt |-> s]
Call(f, args, d, over) ==
  [kind |-> "call", name |-> f, args |-> args, distinct |-> d, over |-> over]
Cast(e, type) == [kind |-> "cast", arg |-> e, type |-> type]

BlankSelect ==
  [kind |-> "select", distinctOn |-> <<>>, columns |-> <<>>, from |-> <<>>,
   fromAlias |-> "", joins |-> <<>>, where |-> <<>>, groupBy |-> <<>>,
   having |-> <<>>, orderBy |-> <<>>, limit |-> 0, offset |-> 0]

-----------------------------------------------------------------------------
(* Column references, sort keys and windows.                                 *)

ColumnName(ts, i) ==
  IF At(ts, i) \in Ident \cup {"*"} THEN Ok(At(ts, i), i + 1) ELSE Fail

\* parseColumnRef: [table.]column; only an identifier can be a qualifier.
ColumnRef(ts, i) ==
  Then(ColumnName(ts, i), LAMBDA c, j :
    IF c \in Ident /\ At(ts, j) = "."
    THEN Then(ColumnName(ts, j + 1), LAMBDA d, k : Ok(Col(c, d), k))
    ELSE Ok(Col("", c), j))

\* The comma lists of GROUP BY, DISTINCT ON and PARTITION BY.
RECURSIVE ColumnRefs(_, _)
ColumnRefs(ts, i) ==
  Then(ColumnRef(ts, i), LAMBDA c, j :
    IF At(ts, j) = ","
    THEN Then(ColumnRefs(ts, j + 1), LAMBDA cs, k : Ok(<<c>> \o cs, k))
    ELSE Ok(<<c>>, j))

\* One key of ORDER BY.  NULLS that neither FIRST nor LAST follows is taken
\* and says nothing.
OrderKey(ts, i) ==
  Then(ColumnRef(ts, i), LAMBDA c, j :
    LET dir   == IF At(ts, j) = "DESC" THEN "DESC" ELSE "ASC"
        k     == IF At(ts, j) \in {"ASC", "DESC"} THEN j + 1 ELSE j
        nulls == IF At(ts, k) = "NULLS" /\ At(ts, k + 1) \in {"FIRST", "LAST"}
                 THEN At(ts, k + 1) ELSE ""
        n     == Past(ts, k, "NULLS")
    IN  Ok([col |-> c, dir |-> dir, nulls |-> nulls],
           IF nulls = "" THEN n ELSE n + 1))

RECURSIVE OrderKeys(_, _)
OrderKeys(ts, i) ==
  Then(OrderKey(ts, i), LAMBDA o, j :
    IF At(ts, j) = ","
    THEN Then(OrderKeys(ts, j + 1), LAMBDA os, k : Ok(<<o>> \o os, k))
    ELSE Ok(<<o>>, j))

Bound(type, n) == [type |-> type, offset |-> n]

\* The direction that closes UNBOUNDED or n.
BoundEnd(ts, i, class, n) ==
  IF At(ts, i) = "PRECEDING"
  THEN Ok(Bound(class \o " PRECEDING", n), i + 1)
  ELSE Then(Expect(ts, i, "FOLLOWING"), LAMBDA t, j :
         Ok(Bound(class \o " FOLLOWING", n), j))

FrameBound(ts, i) ==
  CASE At(ts, i) = "UNBOUNDED" -> BoundEnd(ts, i + 1, "UNBOUNDED", 0)
    [] At(ts, i) = "CURRENT" ->
         IF At(ts, i + 1) \in {"ROW", "ROWS"}
         THEN Ok(Bound("CURRENT ROW", 0), i + 2) ELSE Fail
    [] At(ts, i) \in DOMAIN IntValue ->
         BoundEnd(ts, i + 1, "OFFSET", IntValue[At(ts, i)])
    [] OTHER -> Fail

\* ROWS|RANGE|ROW, BETWEEN two bounds or from one bound to the current row.
FrameClause(ts, i) ==
  LET type == IF At(ts, i) = "RANGE" THEN "RANGE" ELSE "ROWS"
      Frame(s, e) == <<[type |-> type, start |-> s, end |-> e]>>
  IN  IF At(ts, i + 1) = "BETWEEN"
      THEN Then(FrameBound(ts, i + 2), LAMBDA s, j :
             Then(Expect(ts, j, "AND"), LAMBDA t, k :
               Then(FrameBound(ts, k), LAMBDA e, n : Ok(Frame(s, e), n))))
      ELSE Then(FrameBound(ts, i + 1), LAMBDA s, j :
             Ok(Frame(s, Bound("CURRENT ROW", 0)), j))

\* A clause KEYWORD BY list: nothing when the keyword is absent.
ByClause(ts, i, keyword, List(_, _)) ==
  IF At(ts, i) # keyword THEN Ok(<<>>, i)
  ELSE Then(Expect(ts, i + 1, "BY"), LAMBDA t, j : List(ts, j))

\* OVER ( [PARTITION BY ..] [ORDER BY ..] [frame] ), after OVER was seen.
OverClause(ts, i) ==
  Then(Expect(ts, i + 1, "("), LAMBDA t, a :
    Then(ByClause(ts, a, "PARTITION", ColumnRefs), LAMBDA p, b :
      Then(ByClause(ts, b, "ORDER", OrderKeys), LAMBDA o, c :
        Then(IF At(ts, c) \in {"ROWS", "RANGE", "ROW"}
             THEN FrameClause(ts, c) ELSE Ok(<<>>, c), LAMBDA f, d :
          Then(Expect(ts, d, ")"), LAMBDA u, e :
            Ok(<<[partitionBy |-> p, orderBy |-> o, frame |-> f]>>, e))))))

-----------------------------------------------------------------------------
(* Expressions, lowest precedence first.                                     *)

\* The mutually recursive rules are the cases of one operator, at the end.
RECURSIVE Rule(_, _, _)
ParseExpr(ts, i) == Rule("expr", ts, i)
ParseAddSub(ts, i) == Rule("sum", ts, i)
ParseMulDiv(ts, i) == Rule("product", ts, i)
Primary(ts, i) == Rule("primary", ts, i)
SingleSelect(ts, i) == Rule("select", ts, i)

RECURSIVE LogicalTail(_, _, _), AddSubTail(_, _, _), MulDivTail(_, _, _),
          Arguments(_, _, _), InList(_, _)


\* Operators whose negation the parser forgets: a NOT before or after the
\* left side sets negate, and these arms do not look at it.
PlainOps == {"=", "!=", "<", ">", "<=", ">=", "LIKE"}

\* listToExpr: the values of IN as a chain of ORs.
RECURSIVE ListToExpr(_)
ListToExpr(list) ==
  IF Len(list) = 1 THEN list[1]
  ELSE Bin(ListToExpr(SubSeq(list, 1, Len(list) - 1)), "OR", list[Len(list)])

InTail(ts, i, left, op) ==
  Then(Expect(ts, i, "("), LAMBDA t, a :
    IF At(ts, a) = "SELECT"
    THEN Then(SingleSelect(ts, a), LAMBDA s, b :
           Then(Expect(ts, b, ")"), LAMBDA u, c :
             Ok(Bin(left, op, Sub(s)), c)))
    ELSE Then(InList(ts, a), LAMBDA es, b :
           Then(Expect(ts, b, ")"), LAMBDA u, c :
             Ok(Bin(left, op, ListToExpr(es)), c))))

BetweenTail(ts, i, left, negate) ==
  Then(ParseAddSub(ts, i), LAMBDA low, a :
    Then(Expect(ts, a, "AND"), LAMBDA t, b :
      Then(ParseAddSub(ts, b), LAMBDA high, c :
        Ok(IF negate
           THEN Bin(Bin(left, "<", low), "OR", Bin(left, ">", high))
           ELSE Btw(left, low, high), c))))

\* (Mutant: IS NOT NULL is taken for IS NULL.)
MutIsTail(ts, i, left) ==
  Then(Expect(ts, Past(ts, i, "NOT"), "NULL"), LAMBDA t, j :
    Ok(Bin(left, "IS NULL", Str("")), j))

IsTail(ts, i, left) ==
  LET op == IF At(ts, i) = "NOT" THEN "IS NOT NULL" ELSE "IS NULL"
  IN  Then(Expect(ts, Past(ts, i, "NOT"), "NULL"), LAMBDA t, j :
        Ok(Bin(left, op, Str("")), j))

Comparison(ts, i) ==
  Then(ParseAddSub(ts, Past(ts, i, "NOT")), LAMBDA left, a :
    LET j      == Past(ts, a, "NOT")
        negate == At(ts, i) = "NOT" \/ At(ts, a) = "NOT"
        op     == At(ts, j)
    IN  CASE op \in PlainOps ->
               Then(ParseAddSub(ts, j + 1), LAMBDA r, k : Ok(Bin(left, op, r), k))
          [] op = "IN" ->
               InTail(ts, j + 1, left, IF negate THEN "NOT IN" ELSE "IN")
          [] op = "BETWEEN" -> BetweenTail(ts, j + 1, left, negate)
          [] op = "IS" -> IsTail(ts, j + 1, left)
          [] OTHER -> Ok(IF negate THEN Un("NOT", left) ELSE left, j))

InList(ts, i) ==
  Then(ParseAddSub(ts, i), LAMBDA e, j :
    IF At(ts, j) = ","
    THEN Then(InList(ts, j + 1), LAMBDA es, k : Ok(<<e>> \o es, k))
    ELSE Ok(<<e>>, j))

\* parseLogical: AND and OR share one level and associate to the left.
LogicalTail(ts, i, left) ==
  IF At(ts, i) \notin {"AND", "OR"} THEN Ok(left, i)
  ELSE Then(Comparison(ts, i + 1), LAMBDA r, j :
         LogicalTail(ts, j, Bin(left, At(ts, i), r)))

LogicalRule(ts, i) ==
  Then(Comparison(ts, i), LAMBDA l, j : LogicalTail(ts, j, l))

AddSubTail(ts, i, left) ==
  IF At(ts, i) \notin {"+", "-"} THEN Ok(left, i)
  ELSE Then(ParseMulDiv(ts, i + 1), LAMBDA r, j :
         AddSubTail(ts, j, Bin(left, At(ts, i), r)))

AddSubRule(ts, i) ==
  Then(ParseMulDiv(ts, i), LAMBDA l, j : AddSubTail(ts, j, l))

MulDivTail(ts, i, left) ==
  IF At(ts, i) \notin {"*", "/"} THEN Ok(left, i)
  ELSE Then(Primary(ts, i + 1), LAMBDA r, j :
         MulDivTail(ts, j, Bin(left, At(ts, i), r)))

MulDivRule(ts, i) ==
  Then(Primary(ts, i), LAMBDA l, j : MulDivTail(ts, j, l))

\* parseCast, after CAST was taken: ( expr AS type ).
CastTail(ts, i) ==
  Then(Expect(ts, i, "("), LAMBDA t, a :
    Then(ParseExpr(ts, a), LAMBDA e, b :
      Then(Expect(ts, b, "AS"), LAMBDA u, c :
        IF At(ts, c) \notin Ident THEN Fail
        ELSE Then(Expect(ts, c + 1, ")"), LAMBDA v, d :
               Ok(Cast(e, At(ts, c)), d)))))

\* The arguments of a call: DISTINCT before any of them marks the call.
Arguments(ts, i, args) ==
  LET j == Past(ts, i, "DISTINCT")
  IN  Then(ParseExpr(ts, j), LAMBDA e, k :
        LET now == [args EXCEPT !.list = Append(@, e),
                                !.distinct = @ \/ j # i]
        IN  IF At(ts, k) = "," THEN Arguments(ts, k + 1, now) ELSE Ok(now, k))

NoArguments == [list |-> <<>>, distinct |-> FALSE]

\* parseFuncCall, at the parenthesis.
FuncCall(ts, i, f) ==
  Then(IF At(ts, i + 1) = ")" THEN Ok(NoArguments, i + 1)
       ELSE Arguments(ts, i + 1, NoArguments), LAMBDA a, j :
    Then(Expect(ts, j, ")"), LAMBDA t, k :
      IF At(ts, k) # "OVER" THEN Ok(Call(f, a.list, a.distinct, <<>>), k)
      ELSE Then(OverClause(ts, k), LAMBDA w, n :
             Ok(Call(f, a.list, a.distinct, w), n))))

PrimaryRule(ts, i) ==
  LET t == At(ts, i)
  IN  CASE t \in Number -> Ok(Num(t), i + 1)
        [] t \in Text -> Ok(Str(t), i + 1)
        [] t = "NULL" -> Ok(Num(""), i + 1)
        [] t = "TRUE" -> Ok(Num("1"), i + 1)
        [] t = "FALSE" -> Ok(Num("0"), i + 1)
        [] t = "(" -> Then(ParseExpr(ts, i + 1), LAMBDA e, j :
                        Then(Expect(ts, j, ")"), LAMBDA u, k : Ok(e, k)))
        [] t = "CAST" -> CastTail(ts, i + 1)
        [] t \in Ident /\ At(ts, i + 1) = "(" -> FuncCall(ts, i + 1, t)
        [] t \in Ident \cup {"*"} -> ColumnRef(ts, i)
        [] t = "-" -> Then(Primary(ts, i + 1), LAMBDA e, j : Ok(Un("-", e), j))
        [] OTHER -> Fail

-----------------------------------------------------------------------------
(* The clauses of SELECT: each takes the statement built so far.             *)

DistinctClause(ts, i, s) ==
  IF At(ts, i) # "DISTINCT" THEN Ok(s, i)
  ELSE IF At(ts, i + 1) # "ON" THEN Ok(s, i + 1)
  ELSE Then(Expect(ts, i + 2, "("), LAMBDA t, a :
         Then(ColumnRefs(ts, a), LAMBDA cs, b :
           Then(Expect(ts, b, ")"), LAMBDA u, c :
             Ok([s EXCEPT !.distinctOn = cs], c))))

\* What may follow an alias written without AS: otherwise the identifier is
\* left where it is.
AfterAlias == {",", "FROM", "WHERE", "GROUP", "ORDER", "LIMIT", "JOIN", "EOF", ";"}

RECURSIVE SelectItems(_, _)
SelectItems(ts, i) ==
  Then(ParseExpr(ts, i), LAMBDA e, j :
    LET implicit == At(ts, j) \in Ident /\ At(ts, j + 1) \in AfterAlias
        alias == CASE At(ts, j) = "AS" -> At(ts, j + 1)
                   [] implicit -> At(ts, j)
                   [] OTHER -> ""
        k == CASE At(ts, j) = "AS" -> j + 2 [] implicit -> j + 1 [] OTHER -> j
        item == [expr |-> e, alias |-> alias]
    IN  CASE At(ts, j) = "AS" /\ alias \notin Ident -> Fail
          [] At(ts, k) = "," ->
               Then(SelectItems(ts, k + 1), LAMBDA es, n : Ok(<<item>> \o es, n))
          [] OTHER -> Ok(<<item>>, k))

\* A list that starts with * is * alone.
SelectList(ts, i) ==
  IF At(ts, i) = "*" THEN Ok(<<[expr |-> Col("", "*"), alias |-> ""]>>, i + 1)
  ELSE SelectItems(ts, i)

\* parseTableRef: [schema.]table [alias].  AS is a keyword of the lexer and
\* no alias follows it here.
TableRef(ts, i) ==
  LET dotted == At(ts, i + 1) = "."
      name == IF dotted THEN <<At(ts, i), At(ts, i + 2)>> ELSE <<At(ts, i)>>
      j == IF dotted THEN i + 3 ELSE i + 1
  IN  IF \E n \in 1 .. Len(name) : name[n] \notin Ident THEN Fail
      ELSE IF At(ts, j) \in Ident
           THEN Ok([table |-> name, alias |-> At(ts, j)], j + 1)
           ELSE Ok([table |-> name, alias |-> ""], j)

FromClause(ts, i, s) ==
  IF At(ts, i) # "FROM" THEN Ok(s, i)
  ELSE Then(TableRef(ts, i + 1), LAMBDA r, j :
         Ok([s EXCEPT !.from = r.table, !.fromAlias = r.alias], j))

RECURSIVE JoinClauses(_, _, _)
JoinClauses(ts, i, s) ==
  LET side == At(ts, i)
      type == IF side \in {"LEFT", "RIGHT"} THEN side ELSE "INNER"
      j == IF type = "INNER" THEN i ELSE Past(ts, i + 1, "OUTER")
  IN  IF side \notin {"LEFT", "RIGHT", "JOIN"} THEN Ok(s, i)
      ELSE Then(Expect(ts, j, "JOIN"), LAMBDA t, a :
             Then(TableRef(ts, a), LAMBDA r, b :
               Then(Expect(ts, b, "ON"), LAMBDA u, c :
                 Then(ParseExpr(ts, c), LAMBDA e, d :
                   JoinClauses(ts, d, [s EXCEPT !.joins = Append(@,
                     [type |-> type, table |-> r.table, alias |-> r.alias,
                      on |-> e])])))))

ExprClause(ts, i, keyword) ==
  IF At(ts, i) # keyword THEN Ok(<<>>, i)
  ELSE Then(ParseExpr(ts, i + 1), LAMBDA e, j : Ok(<<e>>, j))

\* LIMIT and OFFSET: absent is 0, and so is the number 0.
NumberClause(ts, i, keyword) ==
  CASE At(ts, i) # keyword -> Ok(0, i)
    [] At(ts, i + 1) \in DOMAIN IntValue -> Ok(IntValue[At(ts, i + 1)], i + 2)
    [] OTHER -> Fail

\* The clauses after the joins, in the one order the parser knows.
TailClauses(ts, i, s) ==
  Then(ExprClause(ts, i, "WHERE"), LAMBDA w, a :
    Then(ByClause(ts, a, "GROUP", ColumnRefs), LAMBDA g, b :
      Then(ExprClause(ts, b, "HAVING"), LAMBDA h, c :
        Then(ByClause(ts, c, "ORDER", OrderKeys), LAMBDA o, d :
          Then(NumberClause(ts, d, "LIMIT"), LAMBDA l, e :
            Then(NumberClause(ts, e, "OFFSET"), LAMBDA f, k :
              Ok([s EXCEPT !.where = w, !.groupBy = g, !.having = h,
                           !.orderBy = o, !.limit = l, !.offset = f], k)))))))

SelectRule(ts, i) ==
  Then(Expect(ts, i, "SELECT"), LAMBDA t, a :
    Then(DistinctClause(ts, a, BlankSelect), LAMBDA s, b :
      Then(SelectList(ts, b), LAMBDA cs, c :
        Then(FromClause(ts, SkipSemicolons(ts, c), [s EXCEPT !.columns = cs]),
             LAMBDA f, d :
          Then(JoinClauses(ts, d, f), LAMBDA j, e : TailClauses(ts, e, j))))))

Rule(name, ts, i) ==
  CASE name = "expr" -> LogicalRule(ts, i)
    [] name = "sum" -> AddSubRule(ts, i)
    [] name = "product" -> MulDivRule(ts, i)
    [] name = "primary" -> PrimaryRule(ts, i)
    [] name = "select" -> SelectRule(ts, i)

\* parseStatement: what follows the statement is not looked at.
Statement(ts) ==
  Then(SingleSelect(ts, 1), LAMBDA left, a :
    LET b == SkipSemicolons(ts, a)
        c == Past(ts, b + 1, "ALL")
    IN  IF At(ts, b) # "UNION" THEN Ok(left, b)
        ELSE Then(SingleSelect(ts, c), LAMBDA right, d :
               Ok([kind |-> "union", left |-> left, right |-> right,
                   all |-> At(ts, b + 1) = "ALL"], SkipSemicolons(ts, d))))

\* Parse: a lexical error anywhere refuses the text.
Parse(ts) ==
  IF \E i \in 1 .. Len(ts) : ts[i] \in Garbage THEN Fail ELSE Statement(ts)
=============================================================================
