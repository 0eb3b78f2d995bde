---------------------------- MODULE MCCacheStore ----------------------------
(* CacheStore on two tables with three possible schemas: s1 and s2 have the
   same fingerprint and differ only in what internal/diff looks at.          *)
EXTENDS CacheStore, TLC

CONSTANTS k1, k2, s1, s2, s3, h1, h2

MCFp     == s1 :> h1 @@ s2 :> h1 @@ s3 :> h2
MCFields == [s \in Schema |-> s]

Symm == Permutations(Key) \cup Permutations(Label)

=============================================================================
