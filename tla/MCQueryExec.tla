---------------------------- MODULE MCQueryExec ----------------------------
(* QueryExec with statements on two tables of a database, l1, and one file,
   f1: one of each kind, and a federated one that reads l1 twice.           *)
EXTENDS QueryExec

CONSTANTS l1, f1, t1, t2

MCSource == {[label |-> l1, table |-> t1], [label |-> l1, table |-> t2],
             [label |-> f1, table |-> t1]}

=============================================================================
