------------------------------ MODULE StoreSpec ------------------------------
(***************************************************************************)
(* What a SessionStateStore promises about the keys of one session id      *)
(* (protocols.py, SessionStateStore).  put and get take effect at once.    *)
(* delete_session takes time: a key whose last put overlapped one may      *)
(* outlive it, and any other key does not.                                 *)
(***************************************************************************)
CONSTANTS Callers, Keys, Values, Missing

VARIABLES
    data,       \* the value of each key, or Missing
    got,        \* what each caller's last get returned
    deleting,   \* callers inside delete_session
    returned,   \* callers whose last delete_session has returned, not raised
    contested   \* keys last put while some delete_session was under way

storeVars == <<data, got, deleting, returned, contested>>

Empty == [k \in Keys |-> Missing]

StoreInit ==
    /\ data = Empty
    /\ got = [c \in Callers |-> Missing]
    /\ deleting = {}
    /\ returned = {}
    /\ contested = {}

Write(c, k, v) ==
    /\ c \notin deleting
    /\ data' = [data EXCEPT ![k] = v]
    /\ contested' = IF deleting = {} THEN contested \ {k} ELSE contested \cup {k}
    /\ UNCHANGED <<got, deleting, returned>>

Read(c, k) ==
    /\ c \notin deleting
    /\ got' = [got EXCEPT ![c] = data[k]]
    /\ UNCHANGED <<data, deleting, returned, contested>>

CallDelete(c) ==
    /\ c \notin deleting
    /\ deleting' = deleting \cup {c}
    /\ returned' = returned \ {c}
    /\ UNCHANGED <<data, got, contested>>

\* The keys are gone, but for contested ones; the call may have begun just now.
Erase(c) ==
    /\ deleting' = deleting \ {c}
    /\ returned' = returned \cup {c}
    /\ \E survivors \in SUBSET contested :
          /\ data' = [k \in Keys |-> IF k \in survivors THEN data[k] ELSE Missing]
          /\ contested' = survivors
    /\ UNCHANGED got

\* delete_session breaks off before it has done anything.
Quit(c) ==
    /\ c \in deleting
    /\ deleting' = deleting \ {c}
    /\ UNCHANGED <<data, got, returned, contested>>

StoreStep(c) ==
    \/ \E k \in Keys : Read(c, k) \/ \E v \in Values : Write(c, k, v)
    \/ CallDelete(c) \/ Erase(c) \/ Quit(c)

StoreBehaviour == StoreInit /\ [][\E c \in Callers : StoreStep(c)]_storeVars
=============================================================================
