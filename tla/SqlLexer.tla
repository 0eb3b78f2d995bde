------------------------------ MODULE SqlLexer ------------------------------
(* The lexer of src/internal/sqlast/lexer.go: a text, a sequence of          *)
(* characters, is cut into tokens [class, from, to].  A token of one         *)
(* character or of two stands for itself; a word is a keyword or an          *)
(* identifier by the table of keywords, which the tokens of SqlParser stand  *)
(* for.                                                                      *)
EXTENDS Integers, Sequences

CONSTANTS Letters, Digits,  \* characters of words (with _) and of numbers
          Blanks,           \* white space
          Marks             \* characters that are a token by themselves

\* The end of a text is no character.
ASSUME LexerAssumption == "end" \notin Letters \cup Digits \cup Blanks

Char(cs, i) == IF i \in 1 .. Len(cs) THEN cs[i] ELSE "end"

\* The first position from i on whose character is none of S.
PastRun(cs, i, S) ==
  CHOOSE j \in i .. Len(cs) + 1 : /\ \A k \in i .. j - 1 : cs[k] \in S
                                 /\ Char(cs, j) \notin S

SkipBlanks(cs, i) == PastRun(cs, i, Blanks)

\* The last character of the word or number that starts at i; a number has one
\* point, and only before a digit.
WordEnd(cs, i) == PastRun(cs, i, Letters \cup Digits) - 1

NumberEnd(cs, i) ==
  LET j == PastRun(cs, i, Digits)
  IN  IF Char(cs, j) = "." /\ Char(cs, j + 1) \in Digits THEN PastRun(cs, j + 1, Digits) - 1
      ELSE j - 1

\* (Mutant: the first quote ends the string, doubled or not.)
MutStringEnd(cs, i, q) ==
  LET close[k \in 1 .. Len(cs) + 2] ==
        IF k > Len(cs) THEN 0 ELSE IF cs[k] # q THEN close[k + 1] ELSE k
  IN  close[i]

\* The closing quote of a string, from a position in it on, 0 when there is
\* none; a doubled quote is a quote of the string.
StringEnd(cs, i, q) ==
  LET close[k \in 1 .. Len(cs) + 2] ==
        IF k > Len(cs) THEN 0
        ELSE IF cs[k] # q THEN close[k + 1]
        ELSE IF Char(cs, k + 1) = q THEN close[k + 2]
        ELSE k
  IN  close[i]

QuoteMarks == {"'", "\""}

Token(class, i, j) == [class |-> class, from |-> i, to |-> j]

Pairs == {<<"<", "=">>, <<"<", ">">>, <<">", "=">>, <<"!", "=">>}

\* Lexer.Next at a character that is not blank.
NextToken(cs, i) ==
  LET c == cs[i]
      close == StringEnd(cs, i + 1, c)
  IN  IF <<c, Char(cs, i + 1)>> \in Pairs THEN Token("mark", i, i + 1)
      ELSE IF c \in Marks \cup {"<", ">"} THEN Token("mark", i, i)
      ELSE IF c \in QuoteMarks /\ close # 0 THEN Token("string", i, close)
      ELSE IF c \in Digits THEN Token("number", i, NumberEnd(cs, i))
      ELSE IF c \in Letters THEN Token("word", i, WordEnd(cs, i))
      ELSE Token("error", i, i)

\* All tokens, the first error the last of them.
Tokenize(cs) ==
  LET from[k \in 1 .. Len(cs) + 1] ==
        LET j == SkipBlanks(cs, k)
            t == NextToken(cs, j)
        IN  IF j > Len(cs) THEN <<>>
            ELSE IF t.class = "error" THEN <<t>>
            ELSE <<t>> \o from[t.to + 1]
  IN  from[1]
=============================================================================
