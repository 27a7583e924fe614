----------------------------- MODULE StateStore -----------------------------
(***************************************************************************)
(* The state stores (state_stores/*.py) and the keys of one session id.    *)
(* InMemoryStateStore takes a lock and PostgresStateStore sends one SQL    *)
(* statement: each call is one step.  RedisStateStore keeps a set of the   *)
(* session's key names beside the keys; its delete_session reads the set   *)
(* and deletes in a second round trip, and the other callers, in any       *)
(* process, run in between.                                                *)
(***************************************************************************)
CONSTANTS
    Callers,    \* calls of put, get and delete_session that may overlap
    Keys,       \* "workspace", "pending_action", "oak:ended", ...
    Values, Missing,
    Backends    \* subset of {"memory", "postgres", "redis"}

ASSUME StoreAssumption ==
    /\ Backends \subseteq {"memory", "postgres", "redis"}
    /\ Missing \notin Values

VARIABLES
    backend,
    data,       \* value of oak:session:<id>:<key>, or of the row
    index,      \* Redis: the set oak:session:index:<id>
    got,        \* what each caller's last get returned
    deleting,   \* callers between SMEMBERS and the transaction that deletes
    returned,   \* callers whose last delete_session has returned, not raised
    members,    \* the key names such a caller has read
    contested,  \* history: keys last put while some caller was in there
    undisturbed \* history: such callers since whose SMEMBERS no key was put

redis == <<index, members>>
history == <<contested, undisturbed>>
vars == <<backend, data, redis, got, deleting, returned, history>>

TypeOK ==
    /\ backend \in Backends
    /\ data \in [Keys -> Values \cup {Missing}]
    /\ index \subseteq Keys
    /\ got \in [Callers -> Values \cup {Missing}]
    /\ deleting \subseteq Callers
    /\ returned \subseteq Callers
    /\ members \in [Callers -> SUBSET Keys]
    /\ contested \subseteq Keys
    /\ undisturbed \subseteq deleting

Init ==
    /\ backend \in Backends
    /\ data = [k \in Keys |-> Missing]
    /\ index = {}
    /\ got = [c \in Callers |-> Missing]
    /\ deleting = {}
    /\ returned = {}
    /\ members = [c \in Callers |-> {}]
    /\ contested = {}
    /\ undisturbed = {}

\* Mutant: the key is set, but not added to the index.
PutUnindexed(c, k, v) ==
    /\ c \notin deleting
    /\ data' = [data EXCEPT ![k] = v]
    /\ contested' = IF deleting = {} THEN contested \ {k} ELSE contested \cup {k}
    /\ undisturbed' = {}
    /\ UNCHANGED <<backend, index, got, deleting, returned, members>>

\* SET and SADD in one MULTI; INSERT ... ON CONFLICT DO UPDATE; a dict entry.
Put(c, k, v) ==
    /\ c \notin deleting
    /\ data' = [data EXCEPT ![k] = v]
    /\ index' = IF backend = "redis" THEN index \cup {k} ELSE index
    /\ contested' = IF deleting = {} THEN contested \ {k} ELSE contested \cup {k}
    /\ undisturbed' = {}
    /\ UNCHANGED <<backend, got, deleting, returned, members>>

Get(c, k) ==
    /\ c \notin deleting
    /\ got' = [got EXCEPT ![c] = data[k]]
    /\ UNCHANGED <<backend, data, redis, deleting, returned, history>>

\* InMemoryStateStore and PostgresStateStore.
DeleteAtOnce(c) ==
    /\ backend # "redis"
    /\ data' = [k \in Keys |-> Missing]
    /\ contested' = {}
    /\ returned' = returned \cup {c}
    /\ UNCHANGED <<backend, redis, got, deleting, undisturbed>>

\* RedisStateStore: SMEMBERS.
ReadIndex(c) ==
    /\ backend = "redis"
    /\ c \notin deleting
    /\ deleting' = deleting \cup {c}
    /\ members' = [members EXCEPT ![c] = index]
    /\ undisturbed' = undisturbed \cup {c}
    /\ returned' = returned \ {c}
    /\ UNCHANGED <<backend, data, index, got, contested>>

\* Mutant: the history goes on with a call that is over.
LeaveListed(c) ==
    /\ deleting' = deleting \ {c}
    /\ members' = [members EXCEPT ![c] = {}]
    /\ UNCHANGED undisturbed

Leave(c) ==
    /\ deleting' = deleting \ {c}
    /\ undisturbed' = undisturbed \ {c}
    /\ members' = [members EXCEPT ![c] = {}]

\* Mutant: the index is deleted and the keys are forgotten.
DeleteIndexOnly(c) ==
    /\ c \in deleting
    /\ index' = {}
    /\ Leave(c)
    /\ returned' = returned \cup {c}
    /\ UNCHANGED <<backend, data, got, contested>>

\* RedisStateStore: DEL of the keys read and of the index, in one MULTI.
DeleteMembers(c) ==
    /\ c \in deleting
    /\ data' = [k \in Keys |-> IF k \in members[c] THEN Missing ELSE data[k]]
    /\ index' = {}
    /\ contested' = contested \ members[c]
    /\ Leave(c)
    /\ returned' = returned \cup {c}
    /\ UNCHANGED <<backend, got>>

\* Cancelled, or the connection is lost, between the two round trips.
BreakOff(c) ==
    /\ c \in deleting
    /\ Leave(c)
    /\ UNCHANGED <<backend, data, index, got, returned, contested>>

Step(c) ==
    \/ \E k \in Keys : Get(c, k) \/ \E v \in Values : Put(c, k, v)
    \/ DeleteAtOnce(c) \/ ReadIndex(c) \/ DeleteMembers(c) \/ BreakOff(c)

Next == \E c \in Callers : Step(c)

Spec == Init /\ [][Next]_vars

-----------------------------------------------------------------------------
Present == {k \in Keys : data[k] # Missing}

(***************************************************************************)
(* delete_session finds keys only through the index: a key is outside the  *)
(* index only if its last put overlapped a delete_session, and everything  *)
(* in the index exists.                                                    *)
(***************************************************************************)
KeysAreIndexed ==
    backend = "redis" => index \subseteq Present /\ Present \ contested \subseteq index

(***************************************************************************)
(* "delete_session('sess-1'), then get(...) return None": a call during    *)
(* which no key was put leaves no key behind.                              *)
(***************************************************************************)
DeleteSessionDeletes ==
    [][\A c \in undisturbed : DeleteMembers(c) => Present' = {}]_vars

(***************************************************************************)
(* Every backend implements StoreSpec: put and get are atomic, and a key   *)
(* outlives delete_session only if its last put overlapped one.            *)
(***************************************************************************)
Abstract == INSTANCE StoreSpec

RefinesStore == Abstract!StoreBehaviour
=============================================================================
