---------------------------- MODULE MCCheckRun ----------------------------
(* CheckRun on three entries with two labels: every configuration in which one
   entry or more does not parse, that is, at most two goroutines at a time.  *)
EXTENDS CheckRun

CONSTANTS a, b

MCGivens == {g \in [1 .. 3 -> {a, b, Malformed}] : \E i \in 1 .. 3 : g[i] = Malformed}

=============================================================================
