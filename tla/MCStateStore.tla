---------------------------- MODULE MCStateStore ----------------------------
(* Three overlapping calls on two keys of one session id. *)
EXTENDS StateStore

CONSTANTS c1, c2, c3, workspace, pending_action, v1, v2

MCCallers == {c1, c2, c3}
MCKeys == {workspace, pending_action}
MCValues == {v1, v2}
MCBackends == {"memory", "postgres", "redis"}
Redis == {"redis"}
=============================================================================
