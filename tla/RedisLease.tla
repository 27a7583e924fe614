----------------------------- MODULE RedisLease -----------------------------
(***************************************************************************)
(* oak_session/_lease.py, class RedisLease, for one session id.  Every     *)
(* command is one round trip and so one step of its own: SET NX, the plain *)
(* SET of a forced reclaim, INCR of the generation key, GET of the owner,  *)
(* and the two Lua scripts.  Between two of them other processes run, the  *)
(* TTL may run out, and the awaiting caller may be cancelled or lose its   *)
(* connection.  A crash of a process is all of its tasks going away.       *)
(***************************************************************************)
EXTENDS Naturals

CONSTANTS
    Tasks, Owners, OwnerOf, NoOwner,
    TTL,        \* int(ttl_seconds * 1000), in ticks
    Wait,       \* the N of wait_for_lease=N, in ticks
    MaxCalls    \* bound: acquire calls made by all tasks together

ASSUME RedisAssumption ==
    /\ OwnerOf \in [Tasks -> Owners]
    /\ NoOwner \notin Owners
    /\ TTL \in Nat \ {0}
    /\ Wait \in Nat
    /\ MaxCalls \in Nat

VARIABLES
    key,        \* value of oak:session:lease:<sid>, NoOwner when absent
    ttl,        \* what is left of the key's PX
    genKey,     \* value of oak:session:lease:<sid>:gen
    pc,         \* the command the task's acquire() awaits, or where it is after
    mode,       \* how that acquire() was called
    patience,   \* what is left of a timed wait
    lease,      \* generation of the Lease the task was last given
    calls       \* acquire calls made so far

vars == <<key, ttl, genKey, pc, mode, patience, lease, calls>>

Modes == {"nowait", "forever", "timed", "force"}
Awaiting == {"set_nx", "set", "incr", "get"}

TypeOK ==
    /\ key \in Owners \cup {NoOwner}
    /\ ttl \in 0..TTL
    /\ ttl = 0 <=> key = NoOwner
    /\ genKey \in Nat
    /\ pc \in [Tasks -> Awaiting \cup {"idle", "held", "lost"}]
    /\ mode \in [Tasks -> Modes]
    /\ patience \in [Tasks -> 0..Wait]
    /\ lease \in [Tasks -> Nat]
    /\ calls \in 0..MaxCalls

Init ==
    /\ key = NoOwner
    /\ ttl = 0
    /\ genKey = 0
    /\ pc = [t \in Tasks |-> "idle"]
    /\ mode = [t \in Tasks |-> "nowait"]
    /\ patience = [t \in Tasks |-> 0]
    /\ lease = [t \in Tasks |-> 0]
    /\ calls = 0

-----------------------------------------------------------------------------
Goto(t, where) == pc' = [pc EXCEPT ![t] = where]

\* acquire() returns or raises: its locals are gone.
Leave(t, where) ==
    /\ Goto(t, where)
    /\ mode' = [mode EXCEPT ![t] = "nowait"]
    /\ patience' = [patience EXCEPT ![t] = 0]

Acquire(t, m) ==
    /\ pc[t] = "idle"
    /\ calls < MaxCalls
    /\ Goto(t, "set_nx")
    /\ mode' = [mode EXCEPT ![t] = m]
    /\ patience' = [patience EXCEPT ![t] = IF m = "timed" THEN Wait ELSE 0]
    /\ calls' = calls + 1
    /\ UNCHANGED <<key, ttl, genKey, lease>>

\* Mutant: SET without PX.
ClaimForEver(t) ==
    /\ key' = OwnerOf[t]
    /\ UNCHANGED ttl

\* The key now names this process for a whole TTL.
Claim(t) ==
    /\ key' = OwnerOf[t]
    /\ ttl' = TTL

\* Mutant: SET without NX.
VacantAlways == key \in Owners \cup {NoOwner}

\* _try_set: SET NX PX succeeds only on a missing key, even for the owner.
Vacant == key = NoOwner

TrySet(t) ==
    /\ pc[t] = "set_nx"
    /\ IF Vacant
         THEN Claim(t) /\ Goto(t, "incr")
         ELSE /\ Goto(t, IF mode[t] = "force" THEN "set" ELSE "get")
              /\ UNCHANGED <<key, ttl>>
    /\ UNCHANGED <<genKey, mode, patience, lease, calls>>

\* Forced reclaim: SET PX over whatever is there by now.
ForceSet(t) ==
    /\ pc[t] = "set"
    /\ Claim(t)
    /\ Goto(t, "incr")
    /\ UNCHANGED <<genKey, mode, patience, lease, calls>>

\* INCR of the generation key, and the Lease is returned.
Incr(t) ==
    /\ pc[t] = "incr"
    /\ genKey' = genKey + 1
    /\ lease' = [lease EXCEPT ![t] = genKey + 1]
    /\ Leave(t, "held")
    /\ UNCHANGED <<key, ttl, calls>>

\* Mutant: the deadline is forgotten.
GivesUpAtOnce(t) == mode[t] = "nowait"

GivesUp(t) == mode[t] = "nowait" \/ (mode[t] = "timed" /\ patience[t] = 0)

\* GET of the current owner for the error, then LeaseHeld, or a sleep and
\* another pass; the key is not looked at again.
GetOwner(t) ==
    /\ pc[t] = "get"
    /\ IF GivesUp(t)
         THEN Leave(t, "idle")
         ELSE Goto(t, "set_nx") /\ UNCHANGED <<mode, patience>>
    /\ UNCHANGED <<key, ttl, genKey, lease, calls>>

\* The caller is cancelled or its connection fails in one of the awaits:
\* nothing that already happened on the server is undone.
Cancel(t) ==
    /\ pc[t] \in Awaiting
    /\ Leave(t, "idle")
    /\ UNCHANGED <<key, ttl, genKey, lease, calls>>

\* The comparison both Lua scripts make: by process, not by generation.
Owned(t) == key = OwnerOf[t]

Renew(t) ==
    /\ pc[t] = "held"
    /\ IF Owned(t) THEN ttl' = TTL /\ UNCHANGED pc
                   ELSE Goto(t, "lost") /\ UNCHANGED ttl
    /\ UNCHANGED <<key, genKey, mode, patience, lease, calls>>

\* Mutant: the generation key is deleted with the lease key.
ReleaseResetsGeneration(t) ==
    /\ pc[t] \in {"held", "lost"}
    /\ IF Owned(t) THEN key' = NoOwner /\ ttl' = 0 /\ genKey' = 0
                   ELSE UNCHANGED <<key, ttl, genKey>>
    /\ Goto(t, "idle")
    /\ UNCHANGED <<mode, patience, lease, calls>>

Release(t) ==
    /\ pc[t] \in {"held", "lost"}
    /\ IF Owned(t) THEN key' = NoOwner /\ ttl' = 0 ELSE UNCHANGED <<key, ttl>>
    /\ Goto(t, "idle")
    /\ UNCHANGED <<genKey, mode, patience, lease, calls>>

\* The holder goes away, or its release fails, without the key being deleted.
Abandon(t) ==
    /\ pc[t] \in {"held", "lost"}
    /\ Goto(t, "idle")
    /\ UNCHANGED <<key, ttl, genKey, mode, patience, lease, calls>>

\* Time passes: Redis drops the key when its PX has run out.
Dec(n) == IF n > 0 THEN n - 1 ELSE 0

\* Mutant: the key has no expiry.
TickKeepsKey ==
    /\ patience' = [t \in Tasks |-> Dec(patience[t])]
    /\ UNCHANGED <<key, ttl, genKey, pc, mode, lease, calls>>

Tick ==
    /\ ttl' = Dec(ttl)
    /\ key' = IF ttl' = 0 THEN NoOwner ELSE key
    /\ patience' = [t \in Tasks |-> Dec(patience[t])]
    /\ UNCHANGED <<genKey, pc, mode, lease, calls>>

\* The answer to the command a call is waiting for.
Answer(t) == TrySet(t) \/ ForceSet(t) \/ Incr(t) \/ GetOwner(t)

TaskStep(t) ==
    \/ \E m \in Modes : Acquire(t, m)
    \/ Answer(t) \/ Cancel(t) \/ Renew(t) \/ Release(t) \/ Abandon(t)

Next == Tick \/ \E t \in Tasks : TaskStep(t)

Spec == Init /\ [][Next]_vars

\* Redis answers every command and time keeps passing.
Fairness == WF_vars(Tick) /\ \A t \in Tasks : WF_vars(Answer(t))

FairSpec == Spec /\ Fairness

-----------------------------------------------------------------------------
\* The tasks whose SET has taken the lease.
Holding(t) == pc[t] \in {"incr", "held", "lost"}

(***************************************************************************)
(* No two Leases of a session carry the same generation, although SET and  *)
(* INCR are separate commands.                                             *)
(***************************************************************************)
GenerationsUnique ==
    \A t, u \in Tasks : lease[t] = lease[u] /\ lease[t] > 0 => t = u

(***************************************************************************)
(* A timed wait ends, with a Lease or with LeaseHeld, whatever the others  *)
(* do.                                                                     *)
(***************************************************************************)
TimedWaitEnds == \A t \in Tasks : mode[t] = "timed" ~> mode[t] # "timed"

(***************************************************************************)
(* A key left behind by a cancelled, crashed or disconnected process       *)
(* blocks nobody for ever: a call that waits without a deadline is only    *)
(* kept waiting while some task really holds the lease.                    *)
(***************************************************************************)
OnlyHoldersKeepWaiting ==
    \A t \in Tasks :
        mode[t] = "forever" ~> (mode[t] # "forever" \/ \E u \in Tasks : Holding(u))

\* The lease as its clients see it: the owner changes with the SETs.
CallOf(t) ==
    CASE pc[t] \in {"set_nx", "set"} /\ mode[t] = "force" -> "forcing"
      [] pc[t] = "set_nx" /\ mode[t] # "force" -> "acquiring"
      [] pc[t] = "get" -> "contended"
      [] Holding(t) -> "granted"
      [] OTHER -> "idle"

Abstract ==
    INSTANCE LeaseSpec WITH owner <- key, call <- [t \in Tasks |-> CallOf(t)]

(***************************************************************************)
(* RedisLease keeps the promises of a lease manager, although its acquire  *)
(* is up to four commands: a live key changes hands only by force,         *)
(* LeaseHeld is raised only to a call that found it held, and the scripts  *)
(* of renew() and release() touch no other process's key.                  *)
(***************************************************************************)
RefinesLease == Abstract!LeaseBehaviour
=============================================================================
