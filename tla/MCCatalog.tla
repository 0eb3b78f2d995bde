------------------------------ MODULE MCCatalog ------------------------------
(* Instances of Catalog: two databases, two schemas and two table names, which
   may stand in several of them at once.                                     *)
EXTENDS Catalog

CONSTANTS d1, d2, public, s1, n1, n2,
          Kinds   \* the connectors

MCDatabases == <<d1, d2>>
MCSchemas   == <<public, s1>>
MCNames     == <<n1, n2>>

\* How many times a list of tables is denied before it is answered.
Levels(k) ==
  IF HasSchemas(Connector[k])
  THEN {[s \in Schema |-> 1], [s \in Schema |-> IF s = public THEN 3 ELSE 2],
        [s \in Schema |-> IF s = public THEN 1 ELSE 4]}
  ELSE {[s \in Schema |-> l] : l \in {1, 2}}

MCCalls ==
  UNION {[kind : {k}, dbname : {NoName, d2}, tables : {{}, {n1}},
          sample : BOOLEAN, opstats : {k = "mysql"}, level : Levels(k)] : k \in Kinds}

\* What stands in the schema public and in the other one: the same table in
\* both, or in both databases, and tables on their own.
MCServers ==
  {[d \in Database |-> [s \in Schema |->
      IF d = d1 THEN IF s = public THEN {n1} ELSE {n2}
      ELSE IF s = public THEN {n1, n2} ELSE {n1}]],
   [d \in Database |-> [s \in Schema |->
      IF d = d1 THEN IF s = public THEN {n1, n2} ELSE {n2}
      ELSE IF s = public THEN {} ELSE {n1}]]}
=============================================================================
