--------------------------- MODULE MCDatabasePoll ---------------------------
(* The instances of DatabasePoll that TLC checks: two databases of one type *)
(* that compete for its only slot, one database of another type, and two    *)
(* polls, so that workers of the first can outlive it.                      *)
EXTENDS DatabasePoll

CONSTANTS m1, m2, r1, mysql, redis
MCDatabases == {m1, m2, r1}
MCTypes == {mysql, redis}
MCTypeOf == [d \in MCDatabases |-> IF d = r1 THEN redis ELSE mysql]
MCLimit == [t \in MCTypes |-> 1]
=============================================================================
