---------------------------- MODULE MCRedisLease ----------------------------
(* Two tasks of one process and one of another, on one session id. *)
EXTENDS RedisLease

CONSTANTS t1, t2, t3, o1, o2

MCTasks == {t1, t2, t3}
MCOwners == {o1, o2}
MCOwnerOf == [t \in MCTasks |-> IF t = t3 THEN o2 ELSE o1]
=============================================================================
