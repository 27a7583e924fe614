------------------------------ MODULE MCSetup ------------------------------
(* Two names for Redis URLs; every state store with every lease, and e2b    *)
(* and staso picked where the state store is Redis. *)
EXTENDS Setup, TLC

CONSTANTS REDIS_URL, REDIS_LEASE_URL

MCUrlNames == {REDIS_URL, REDIS_LEASE_URL}
MCPicks ==
    {sel \in Selections :
        /\ (sel.workspace.kind = "e2b") = (sel.state_store.kind = "redis")
        /\ (sel.tracing.kind = "staso") = (sel.state_store.kind = "redis")}
MCSymmetry == Permutations(MCUrlNames)
=============================================================================
