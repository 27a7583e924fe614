------------------------------ MODULE LeaseSpec ------------------------------
(***************************************************************************)
(* What a LeaseManager promises about one session id, whatever the backend *)
(* (protocols.py, LeaseManager): an owner is a process, a task is one      *)
(* caller inside a process.  Time and generations are left out; InMemory-  *)
(* Lease and RedisLease are checked against this module, and Session is    *)
(* composed with it.                                                       *)
(***************************************************************************)
CONSTANTS
    Tasks,      \* callers of acquire / renew / release
    Owners,     \* processes: the owner id each backend instance makes up
    OwnerOf,    \* the process a task runs in
    NoOwner     \* nobody holds the lease

VARIABLES
    owner,      \* the process whose lease is live, or NoOwner
    call        \* where each task stands with the lease

leaseVars == <<owner, call>>

CallState == {"idle", "acquiring", "contended", "forcing", "granted"}

LeaseInit ==
    /\ owner = NoOwner
    /\ call = [t \in Tasks |-> "idle"]

\* acquire(wait_for_lease=...) is called.
Ask(t) ==
    /\ call[t] = "idle"
    /\ call' = [call EXCEPT ![t] = "acquiring"]
    /\ UNCHANGED owner

\* acquire(force_reclaim=True) is called.
AskForce(t) ==
    /\ call[t] = "idle"
    /\ call' = [call EXCEPT ![t] = "forcing"]
    /\ UNCHANGED owner

\* The lease is granted only when no other process holds it.
Grant(t) ==
    /\ call[t] = "acquiring"
    /\ owner \in {NoOwner, OwnerOf[t]}
    /\ owner' = OwnerOf[t]
    /\ call' = [call EXCEPT ![t] = "granted"]

\* A forced call takes the lease from whoever has it.
Seize(t) ==
    /\ call[t] = "forcing"
    /\ owner' = OwnerOf[t]
    /\ call' = [call EXCEPT ![t] = "granted"]

\* The call finds the lease held.
Contend(t) ==
    /\ call[t] = "acquiring"
    /\ owner # NoOwner
    /\ call' = [call EXCEPT ![t] = "contended"]
    /\ UNCHANGED owner

\* A waiting call tries again.
Retry(t) ==
    /\ call[t] = "contended"
    /\ call' = [call EXCEPT ![t] = "acquiring"]
    /\ UNCHANGED owner

\* LeaseHeld is raised, and only to a call that found the lease held.
Refuse(t) ==
    /\ \/ call[t] = "contended"
       \/ call[t] = "acquiring" /\ owner # NoOwner
    /\ call' = [call EXCEPT ![t] = "idle"]
    /\ UNCHANGED owner

\* renew() by a holder: it may bring back its own lapsed lease, never
\* another process's.
Renew(t) ==
    /\ call[t] = "granted"
    /\ owner \in {NoOwner, OwnerOf[t]}
    /\ owner' = OwnerOf[t]
    /\ UNCHANGED call

\* release(): a no-op unless the caller's process is the owner.  Nothing ties
\* it to a Lease: any task outside acquire may call it.
Release(t) ==
    /\ call[t] \in {"granted", "idle"}
    /\ owner' = IF owner = OwnerOf[t] THEN NoOwner ELSE owner
    /\ call' = [call EXCEPT ![t] = "idle"]

\* The caller goes away (cancelled, crashed, release failed): nothing is
\* given back.
Abandon(t) ==
    /\ call[t] # "idle"
    /\ call' = [call EXCEPT ![t] = "idle"]
    /\ UNCHANGED owner

\* A process dies with all its calls: nothing is given back.
Die(o) ==
    /\ call' = [t \in Tasks |-> IF OwnerOf[t] = o THEN "idle" ELSE call[t]]
    /\ UNCHANGED owner

\* The TTL runs out.
Lapse ==
    /\ owner # NoOwner
    /\ owner' = NoOwner
    /\ UNCHANGED call

LeaseStep(t) ==
    \/ Ask(t) \/ AskForce(t) \/ Grant(t) \/ Seize(t) \/ Contend(t) \/ Retry(t)
    \/ Refuse(t) \/ Renew(t) \/ Release(t) \/ Abandon(t)

LeaseNext ==
    Lapse \/ (\E o \in Owners : Die(o)) \/ (\E t \in Tasks : LeaseStep(t))

LeaseBehaviour == LeaseInit /\ [][LeaseNext]_leaseVars
=============================================================================
