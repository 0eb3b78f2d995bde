----------------------------- MODULE WhiteSpace -----------------------------
(* A text as the tests on it see it: its tokens with the white space between *)
(* them.  " " is a blank and "\n" any other white space, a tab or the end of *)
(* a line.                                                                   *)
EXTENDS Integers, Sequences

White == {" ", "\n"}

\* What the lexer makes of the text.
Words(ts) == SelectSeq(ts, LAMBDA t : t \notin White)

\* The text without the members of S at its end, and strings.TrimSpace.
TrimEnd(ts, S) ==
  LET end == CHOOSE n \in 0 .. Len(ts) : /\ \A i \in n + 1 .. Len(ts) : ts[i] \in S
                                         /\ n > 0 => ts[n] \notin S
  IN  SubSeq(ts, 1, end)

Trim(ts) ==
  LET start == CHOOSE n \in 1 .. Len(ts) + 1 : /\ \A i \in 1 .. n - 1 : ts[i] \in White
                                               /\ n <= Len(ts) => ts[n] \notin White
  IN  TrimEnd(SubSeq(ts, start, Len(ts)), White)

\* normalizeWhitespace of policy.go: one blank for each run of white space.
OneSpace(text) ==
  LET ts == Trim(text)
      upTo[n \in 0 .. Len(ts)] ==
        IF n = 0 THEN <<>>
        ELSE IF ts[n] \notin White THEN Append(upTo[n - 1], ts[n])
        ELSE IF ts[n - 1] \in White THEN upTo[n - 1] ELSE Append(upTo[n - 1], " ")
  IN  upTo[Len(ts)]
=============================================================================
