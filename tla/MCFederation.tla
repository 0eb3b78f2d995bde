---------------------------- MODULE MCFederation ----------------------------
(* Federation on two databases, a file, a Prometheus server with a metric and
   a raw expression, a native source and a label without a DSN.             *)
EXTENDS Federation

CONSTANTS d1, d2, f1, m1, n1, u1, t1, t2, x, a

MCKind == [l \in Label |-> CASE l \in {d1, d2} -> "sql"
                             [] l = f1 -> "file"
                             [] l = m1 -> "prom"
                             [] l = n1 -> "native"
                             [] l = u1 -> "unbound"]

R(l, t) == [label |-> l, table |-> t]

MCRef == {R(d1, t1), R(d1, t2), R(d2, t1), R(f1, t1), R(f1, t2), R(m1, t2),
          R(m1, x), R(n1, t1), R(u1, t1)}

MCRaw == {R(m1, x)}

=============================================================================
