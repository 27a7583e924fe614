---------------------------- MODULE InMemoryLease ----------------------------
(***************************************************************************)
(* oak_session/_lease.py, class InMemoryLease, for one session id.  An     *)
(* owner is one InMemoryLease instance; several owners share the _state    *)
(* and _generations dictionaries the way the repository's own tests join   *)
(* two instances.  The body of every `async with self._lock` block has no  *)
(* await, so each is one atomic step; a waiting call polls at any later    *)
(* time.  time.monotonic() is kept as countdowns: entry.left is what is    *)
(* left of the TTL, patience[t] of a timed wait.                           *)
(***************************************************************************)
EXTENDS Naturals

CONSTANTS
    Tasks, Owners, OwnerOf, NoOwner,
    TTL,        \* ttl_seconds, in ticks
    Wait,       \* the N of wait_for_lease=N, in ticks
    MaxCalls    \* bound: acquire calls made by all tasks together

ASSUME InMemoryAssumption ==
    /\ OwnerOf \in [Tasks -> Owners]
    /\ NoOwner \notin Owners
    /\ TTL \in Nat \ {0}
    /\ Wait \in Nat
    /\ MaxCalls \in Nat

VARIABLES
    entry,          \* _state[session_id]; owner = NoOwner when there is none
    generations,    \* _generations[session_id]
    pc,             \* idle, inside acquire (a mode), held, lost (renew raised)
    patience,       \* what is left of a timed wait
    lease,          \* generation of the Lease the task was last given
    view,           \* what is left of that Lease by acquired_at + ttl_seconds
    calls           \* acquire calls made so far

vars == <<entry, generations, pc, patience, lease, view, calls>>

\* How acquire() is called; a task inside acquire() has its mode as pc.
Modes == {"nowait", "forever", "timed", "force"}
Entry == [owner : Owners \cup {NoOwner}, gen : Nat, left : 0..TTL]
NoEntry == [owner |-> NoOwner, gen |-> 0, left |-> 0]

TypeOK ==
    /\ entry \in Entry
    /\ generations \in Nat
    /\ pc \in [Tasks -> Modes \cup {"idle", "held", "lost"}]
    /\ patience \in [Tasks -> 0..Wait]
    /\ lease \in [Tasks -> Nat]
    /\ view \in [Tasks -> 0..TTL]
    /\ calls \in 0..MaxCalls

Init ==
    /\ entry = NoEntry
    /\ generations = 0
    /\ pc = [t \in Tasks |-> "idle"]
    /\ patience = [t \in Tasks |-> 0]
    /\ lease = [t \in Tasks |-> 0]
    /\ view = [t \in Tasks |-> 0]
    /\ calls = 0

-----------------------------------------------------------------------------
\* Mutant: the expiry is forgotten.
AliveForEver == entry.owner # NoOwner

\* `alive = existing is not None and existing[2] > now`
Alive == entry.owner # NoOwner /\ entry.left > 0

\* Mutant: any call takes a live lease.
CanTakeAlways(t) == pc[t] \in Modes

\* Take the slot if free / dead / forced / owned-by-us.
CanTake(t) == ~Alive \/ pc[t] = "force" \/ entry.owner = OwnerOf[t]

\* The waiting / deadline prologue of acquire().
Acquire(t, m) ==
    /\ pc[t] = "idle"
    /\ calls < MaxCalls
    /\ pc' = [pc EXCEPT ![t] = m]
    /\ patience' = [patience EXCEPT ![t] = IF m = "timed" THEN Wait ELSE 0]
    /\ calls' = calls + 1
    /\ UNCHANGED <<entry, generations, lease, view>>

\* Mutant: a process that has the lease already keeps its generation.
TakeSameGeneration(t) ==
    LET g == IF entry.owner = OwnerOf[t] THEN generations ELSE generations + 1
    IN  /\ pc[t] \in Modes
        /\ CanTake(t)
        /\ generations' = g
        /\ entry' = [owner |-> OwnerOf[t], gen |-> g, left |-> TTL]
        /\ pc' = [pc EXCEPT ![t] = "held"]
        /\ lease' = [lease EXCEPT ![t] = g]
        /\ view' = [view EXCEPT ![t] = TTL]
        /\ UNCHANGED <<patience, calls>>

\* One pass of the loop that takes the slot and returns the Lease.
Take(t) ==
    /\ pc[t] \in Modes
    /\ CanTake(t)
    /\ generations' = generations + 1
    /\ entry' = [owner |-> OwnerOf[t], gen |-> generations + 1, left |-> TTL]
    /\ pc' = [pc EXCEPT ![t] = "held"]
    /\ lease' = [lease EXCEPT ![t] = generations + 1]
    /\ view' = [view EXCEPT ![t] = TTL]
    /\ UNCHANGED <<patience, calls>>

\* Mutant: the deadline is forgotten.
GivesUpAtOnce(t) == pc[t] = "nowait"

\* A call gives up when it does not wait, or its deadline has passed; the
\* deadline is looked at only after a failed try.
GivesUp(t) == pc[t] = "nowait" \/ (pc[t] = "timed" /\ patience[t] = 0)

\* One pass that raises LeaseHeld.  A pass that goes on to sleep changes
\* nothing.
RaiseHeld(t) ==
    /\ pc[t] \in Modes
    /\ ~CanTake(t)
    /\ GivesUp(t)
    /\ pc' = [pc EXCEPT ![t] = "idle"]
    /\ UNCHANGED <<entry, generations, patience, lease, view, calls>>

\* One pass of the loop that ends the call.
Poll(t) == Take(t) \/ RaiseHeld(t)

\* The awaiting caller is cancelled in lock acquisition or in the sleep.
Cancel(t) ==
    /\ pc[t] \in Modes
    /\ pc' = [pc EXCEPT ![t] = "idle"]
    /\ UNCHANGED <<entry, generations, patience, lease, view, calls>>

\* Mutants: the owner is not compared, or a missing entry passes.
OwnedByAnyone(t) == pc[t] \in {"held", "lost"} /\ entry.owner # NoOwner
OwnedUnlessTaken(t) == entry.owner \in {OwnerOf[t], NoOwner}

\* renew() looks at the owner only: neither at the expiry nor at which of
\* the owner's Leases the caller holds.
Owned(t) == entry.owner = OwnerOf[t]

\* Mutant: the TTL is added to what is left.
RenewExtends(t) ==
    /\ pc[t] = "held"
    /\ Owned(t)
    /\ entry' = [entry EXCEPT !.left = @ + TTL]
    /\ view' = [view EXCEPT ![t] = TTL]
    /\ UNCHANGED <<generations, pc, patience, lease, calls>>

Renew(t) ==
    /\ pc[t] = "held"
    /\ Owned(t)
    /\ entry' = [entry EXCEPT !.left = TTL]
    /\ view' = [view EXCEPT ![t] = TTL]
    /\ UNCHANGED <<generations, pc, patience, lease, calls>>

\* renew() raises LeaseHeld: the caller learns that it lost the lease.
RenewRaises(t) ==
    /\ pc[t] = "held"
    /\ ~Owned(t)
    /\ pc' = [pc EXCEPT ![t] = "lost"]
    /\ UNCHANGED <<entry, generations, patience, lease, view, calls>>

\* release(): pops the entry if this process owns it, else a no-op.
Release(t) ==
    /\ pc[t] \in {"held", "lost"}
    /\ entry' = IF Owned(t) THEN NoEntry ELSE entry
    /\ pc' = [pc EXCEPT ![t] = "idle"]
    /\ UNCHANGED <<generations, patience, lease, view, calls>>

\* The holder goes away without release() (it was cancelled on the way).
Abandon(t) ==
    /\ pc[t] \in {"held", "lost"}
    /\ pc' = [pc EXCEPT ![t] = "idle"]
    /\ UNCHANGED <<entry, generations, patience, lease, view, calls>>

\* Time passes.
Dec(n) == IF n > 0 THEN n - 1 ELSE 0

Tick ==
    /\ entry' = [entry EXCEPT !.left = Dec(@)]
    /\ patience' = [t \in Tasks |-> Dec(patience[t])]
    /\ view' = [t \in Tasks |-> Dec(view[t])]
    /\ UNCHANGED <<generations, pc, lease, calls>>

TaskStep(t) ==
    \/ \E m \in Modes : Acquire(t, m)
    \/ Poll(t) \/ Cancel(t)
    \/ Renew(t) \/ RenewRaises(t) \/ Release(t) \/ Abandon(t)

Next == Tick \/ \E t \in Tasks : TaskStep(t)

Spec == Init /\ [][Next]_vars

\* The event loop keeps polling a waiting call and time keeps passing.
Fairness ==
    /\ WF_vars(Tick)
    /\ \A t \in Tasks : WF_vars(Poll(t))

FairSpec == Spec /\ Fairness

-----------------------------------------------------------------------------
\* A task whose process runs no other task on this session.
Solo(t) == \A u \in Tasks \ {t} : OwnerOf[u] # OwnerOf[t]

Holding(t) == pc[t] \in {"held", "lost"}

(***************************************************************************)
(* Fencing: generations order the grants.  The recorded entry carries the  *)
(* newest generation ever given out, no two tasks were given the same one, *)
(* and the task that was given the newest runs in the recorded owner.      *)
(***************************************************************************)
GenerationsFence ==
    /\ entry.owner # NoOwner => entry.gen = generations
    /\ \A t \in Tasks : lease[t] <= generations
    /\ \A t, u \in Tasks : lease[t] = lease[u] /\ lease[t] > 0 => t = u
    /\ \A t \in Tasks :
          lease[t] = generations /\ entry.owner # NoOwner
             => entry.owner = OwnerOf[t]

(***************************************************************************)
(* A holder can trust its Lease: as long as acquired_at + ttl_seconds has  *)
(* not passed, a holder that is alone in its process is the recorded owner *)
(* with at least that much time left, unless a later generation exists.    *)
(***************************************************************************)
HolderUnlessSuperseded ==
    \A t \in Tasks :
        Holding(t) /\ Solo(t) /\ view[t] > 0 =>
            \/ lease[t] < generations
            \/ entry.owner = OwnerOf[t] /\ entry.gen = lease[t]
                 /\ entry.left >= view[t]

(***************************************************************************)
(* Two processes never both hold an unexpired Lease unless the later one   *)
(* came after a forced reclaim: a grant over a live entry of another       *)
(* process is a forced one.                                                *)
(***************************************************************************)
OnlyForceTakesALiveLease ==
    [][\A t \in Tasks :
          /\ Holding(t) /\ Solo(t) /\ view[t] > 0 /\ lease[t] = generations
          /\ generations' # generations
          => \E u \in Tasks : /\ pc[u] \in Modes /\ pc'[u] = "held"
                              /\ u = t \/ pc[u] = "force"]_vars

(***************************************************************************)
(* "Subsequent A.renew() raises" after a reclaim: for a task alone in its  *)
(* process a renewal succeeds only while no later generation exists, even  *)
(* if the later owner has already released.                                *)
(***************************************************************************)
RenewOnlyNewest ==
    [][\A t \in Tasks :
          Solo(t) /\ Holding(t) /\ view'[t] > view[t] /\ lease'[t] = lease[t]
             => lease[t] = generations]_vars

(***************************************************************************)
(* A timed wait ends, with a Lease or with LeaseHeld, whatever the others  *)
(* do.                                                                     *)
(***************************************************************************)
TimedWaitEnds ==
    \A t \in Tasks : pc[t] = "timed" ~> pc[t] \notin Modes

(***************************************************************************)
(* A lease whose holders went away without releasing it blocks nobody for  *)
(* ever: a call that waits without a deadline is only ever kept waiting    *)
(* while some task really holds the lease.                                 *)
(***************************************************************************)
OnlyHoldersKeepWaiting ==
    \A t \in Tasks :
        pc[t] = "forever" ~> (pc[t] # "forever" \/ \E u \in Tasks : Holding(u))

\* The lease as its clients see it: live or free, and where each call stands.
LiveOwner == IF Alive THEN entry.owner ELSE NoOwner

CallOf(t) ==
    CASE pc[t] = "force" -> "forcing"
      [] pc[t] \in Modes \ {"force"} -> "acquiring"
      [] pc[t] \in {"held", "lost"} -> "granted"
      [] OTHER -> "idle"

Abstract ==
    INSTANCE LeaseSpec WITH owner <- LiveOwner, call <- [t \in Tasks |-> CallOf(t)]

(***************************************************************************)
(* InMemoryLease keeps the promises of a lease manager: a live lease       *)
(* changes hands only by force, LeaseHeld is raised only to a call that    *)
(* found it held, renew() and release() touch no other process's lease.    *)
(***************************************************************************)
RefinesLease == Abstract!LeaseBehaviour
=============================================================================
