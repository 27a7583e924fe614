------------------------------- MODULE Session -------------------------------
(***************************************************************************)
(* oak_session/attach.py: attach() and end() of one session id, called by  *)
(* tasks on several servers, over a state store, a lease manager and the   *)
(* provider's sandboxes.  Every await is a step of its own; before each    *)
(* the other tasks run, and at each the task may be cancelled, its server  *)
(* may crash or the backend may raise.  The lease is LeaseSpec: what both  *)
(* lease managers provide.                                                 *)
(***************************************************************************)
EXTENDS Naturals

CONSTANTS
    Attaches,       \* calls of attach()
    Ends,           \* calls of end()
    Owners, OwnerOf, NoOwner,
    MaxSandboxes,   \* bound: sandboxes the provider can make
    Options,        \* keyword arguments of attach() to try
    LeaseConfigs,   \* subset of BOOLEAN: is config.lease set?
    Reenters,       \* is a process granted a lease it already has? InMemoryLease
                    \* does so, RedisLease does not
    ReconnectWakes, \* does the provider's reconnect wake a paused sandbox?
    Faults          \* kinds of failure that may happen

Tasks == Attaches \cup Ends
\* Sandboxes are numbered in the order they are made.
Sandboxes == 1..MaxSandboxes
NoSandbox == 0
OptionRecord == [exit : {"pause", "keep_alive", "terminate"},
                 lost : {"boot_fresh", "raise", "skip"},
                 factory : BOOLEAN,    \* workspace_factory given
                 wait : BOOLEAN]       \* wait_for_lease=True

ASSUME SessionAssumption ==
    /\ OwnerOf \in [Tasks -> Owners]
    /\ NoOwner \notin Owners
    /\ MaxSandboxes \in Nat \ {0}
    /\ Attaches \cap Ends = {}
    /\ Options \subseteq OptionRecord /\ Options # {}
    /\ LeaseConfigs \subseteq BOOLEAN
    /\ Faults \subseteq {"store", "lease", "reconnect", "boot", "pause",
                         "cancel", "crash", "slow"}

VARIABLES
    \* shared: config, state store, lease manager, provider
    hasLease,   \* config.lease is not None
    ended,      \* the oak:ended tombstone is in the state store
    handle,     \* the sandbox the stored workspace handle names
    owner, call,    \* the lease, see LeaseSpec
    sandbox,    \* unborn, running, paused or gone
    underway,   \* requests to stop a sandbox whose caller was cancelled
    \* one per task: the locals of its call
    pc, opts,
    seen,       \* the handle it read
    ws,         \* its workspace
    status,     \* workspace_status
    outcome,    \* what the call returned or raised
    \* history
    calledLate, \* attaches called after some end() had returned
    leaked,     \* the current lease was left behind by a failure
    astray      \* sandboxes left running on purpose or by a failure

locals == <<opts, seen, ws, status>>
store == <<ended, handle>>
lease == <<owner, call>>
provider == <<sandbox, underway>>
history == <<calledLate, leaked, astray>>
vars == <<hasLease, store, lease, provider, pc, locals, outcome, history>>

L == INSTANCE LeaseSpec

Labels ==
    {"idle", "check", "acquire", "granted", "lookup", "reconnect", "boot",
     "trace", "body", "cleanup", "terminate", "delete", "bury", "release",
     "done", "dead"}

Request(policy, s) == [policy |-> policy, sandbox |-> s]
Requests == [policy : {"pause", "terminate"}, sandbox : Sandboxes]

NoOptions == [exit |-> "pause", lost |-> "skip", factory |-> FALSE, wait |-> FALSE]

TypeOK ==
    /\ hasLease \in BOOLEAN
    /\ ended \in BOOLEAN
    /\ handle \in Sandboxes \cup {NoSandbox}
    /\ owner \in Owners \cup {NoOwner}
    /\ call \in [Tasks -> L!CallState]
    /\ sandbox \in [Sandboxes -> {"unborn", "running", "paused", "gone"}]
    /\ underway \subseteq Requests
    /\ pc \in [Tasks -> Labels]
    /\ opts \in [Tasks -> OptionRecord]
    /\ seen \in [Tasks -> Sandboxes \cup {NoSandbox}]
    /\ ws \in [Tasks -> Sandboxes \cup {NoSandbox}]
    /\ status \in [Tasks -> {"none", "no_prior", "reattached",
                             "reconnect_failed", "boot_fresh"}]
    /\ outcome \in [Tasks -> {"none", "ok", "SessionEnded", "LeaseHeld",
                              "WorkspaceUnreachable", "error", "cancelled"}]
    /\ calledLate \subseteq Attaches
    /\ leaked \in BOOLEAN
    /\ astray \subseteq Sandboxes
    /\ \A t \in Tasks :
          /\ pc[t] \in {"idle", "done", "dead"} => call[t] = "idle"
          /\ ws[t] # NoSandbox => sandbox[ws[t]] # "unborn"

\* A new session, or one whose sandbox an earlier turn paused or lost and
\* whose handle the application stored.
Init ==
    /\ hasLease \in LeaseConfigs
    /\ ended = FALSE
    /\ L!LeaseInit
    /\ \/ /\ handle = NoSandbox
          /\ sandbox = [s \in Sandboxes |-> "unborn"]
       \/ /\ handle = 1
          /\ \E prior \in {"paused", "gone"} :
                sandbox = [s \in Sandboxes |-> IF s = 1 THEN prior ELSE "unborn"]
    /\ underway = {}
    /\ pc = [t \in Tasks |-> "idle"]
    /\ opts = [t \in Tasks |-> NoOptions]
    /\ seen = [t \in Tasks |-> NoSandbox]
    /\ ws = [t \in Tasks |-> NoSandbox]
    /\ status = [t \in Tasks |-> "none"]
    /\ outcome = [t \in Tasks |-> "none"]
    /\ calledLate = {}
    /\ leaked = FALSE
    /\ astray = {}

-----------------------------------------------------------------------------
Goto(t, where) == pc' = [pc EXCEPT ![t] = where]

\* The call returns or raises: its locals are gone.
Leave(t, what) ==
    /\ Goto(t, "done")
    /\ outcome' = [outcome EXCEPT ![t] = what]
    /\ opts' = [opts EXCEPT ![t] = NoOptions]
    /\ seen' = [seen EXCEPT ![t] = NoSandbox]
    /\ ws' = [ws EXCEPT ![t] = NoSandbox]
    /\ status' = [status EXCEPT ![t] = "none"]

\* Mutant: the exception leaves without the finally clause.
RaisePastFinally(t, what) == Leave(t, what)

\* An exception inside the try block: on to the finally clause.
Raise(t, what) ==
    /\ Goto(t, "cleanup")
    /\ outcome' = [outcome EXCEPT ![t] = what]
    /\ UNCHANGED locals

May(fault) == fault \in Faults

EndReturned == \E e \in Ends : pc[e] = "done" /\ outcome[e] = "ok"

\* The task's process owns a lease that it will not give back.
LeakIfOwner(t) == leaked' = (leaked \/ owner = OwnerOf[t])

-----------------------------------------------------------------------------
(* attach() *)

CallAttach(t) ==
    /\ pc[t] = "idle"
    /\ Goto(t, "check")
    /\ opts' \in {[opts EXCEPT ![t] = o] : o \in Options}
    /\ calledLate' = IF EndReturned THEN calledLate \cup {t} ELSE calledLate
    /\ UNCHANGED <<hasLease, store, lease, provider, seen, ws, status, outcome,
                   leaked, astray>>

\* 0. Refuse an ended session; else ask for the lease, if there is one.
CheckTombstone(t) ==
    /\ pc[t] = "check"
    /\ IF ended
         THEN Leave(t, "SessionEnded") /\ UNCHANGED lease
         ELSE /\ IF hasLease THEN Goto(t, "acquire") /\ L!Ask(t)
                             ELSE Goto(t, "lookup") /\ UNCHANGED lease
              /\ UNCHANGED <<locals, outcome>>
    /\ UNCHANGED <<hasLease, store, provider, history>>

\* Mutant: LeaseHeld is swallowed and the attach goes on.
AcquireLeaseOrGoOn(t) ==
    /\ pc[t] = "acquire"
    /\ \/ L!Grant(t) /\ leaked' = FALSE
       \/ ~opts[t].wait /\ L!Refuse(t) /\ UNCHANGED leaked
    /\ Goto(t, "granted")
    /\ UNCHANGED <<hasLease, store, provider, locals, outcome, calledLate, astray>>

\* 1. Lease.  A waiting call just stays here.
AcquireLease(t) ==
    /\ pc[t] = "acquire"
    /\ \/ /\ L!Grant(t)
          /\ Reenters \/ owner = NoOwner
          /\ Goto(t, "granted")
          /\ leaked' = FALSE
          /\ UNCHANGED <<locals, outcome>>
       \/ /\ ~opts[t].wait
          /\ L!Refuse(t)
          /\ Leave(t, "LeaseHeld")
          /\ UNCHANGED leaked
    /\ UNCHANGED <<hasLease, store, provider, calledLate, astray>>

\* acquire() returns the Lease.
LeaseReturned(t) ==
    /\ pc[t] = "granted"
    /\ Goto(t, "lookup")
    /\ UNCHANGED <<hasLease, store, lease, provider, locals, outcome, history>>

\* 2. The stored handle decides between reconnecting, booting and nothing.
ReadHandle(t) ==
    /\ pc[t] = "lookup"
    /\ seen' = [seen EXCEPT ![t] = handle]
    /\ IF handle # NoSandbox
         THEN Goto(t, "reconnect") /\ UNCHANGED status
         ELSE IF opts[t].factory
           THEN Goto(t, "boot") /\ UNCHANGED status
           ELSE Goto(t, "trace") /\ status' = [status EXCEPT ![t] = "no_prior"]
    /\ UNCHANGED <<hasLease, store, lease, provider, opts, ws, outcome, history>>

\* The provider finds the sandbox.
Reachable(t) == sandbox[seen[t]] \in {"running", "paused"}

Reattach(t) ==
    /\ pc[t] = "reconnect"
    /\ Reachable(t)
    /\ ws' = [ws EXCEPT ![t] = seen[t]]
    /\ status' = [status EXCEPT ![t] = "reattached"]
    /\ sandbox' = [sandbox EXCEPT ![seen[t]] = IF ReconnectWakes THEN "running" ELSE @]
    /\ Goto(t, "trace")
    /\ astray' = astray \ {seen[t]}
    /\ UNCHANGED <<hasLease, store, lease, underway, opts, seen, outcome, calledLate, leaked>>

\* Reconnecting fails: on_workspace_lost decides.
LoseWorkspace(t) ==
    /\ pc[t] = "reconnect"
    /\ ~Reachable(t) \/ May("reconnect")
    /\ CASE opts[t].lost = "boot_fresh" /\ opts[t].factory ->
              Goto(t, "boot") /\ UNCHANGED <<locals, outcome>>
         [] opts[t].lost = "skip" ->
              /\ Goto(t, "trace")
              /\ status' = [status EXCEPT ![t] = "reconnect_failed"]
              /\ UNCHANGED <<opts, seen, ws, outcome>>
         [] OTHER -> Raise(t, "WorkspaceUnreachable")
    /\ UNCHANGED <<hasLease, store, lease, provider, history>>

Fresh(s) ==
    sandbox[s] = "unborn" /\ \A r \in Sandboxes : r < s => sandbox[r] # "unborn"

\* workspace_factory() gives a new sandbox.
BootFresh(t) ==
    /\ pc[t] = "boot"
    /\ \E s \in Sandboxes :
          /\ Fresh(s)
          /\ sandbox' = [sandbox EXCEPT ![s] = "running"]
          /\ ws' = [ws EXCEPT ![t] = s]
    /\ status' = [status EXCEPT ![t] = "boot_fresh"]
    /\ Goto(t, "trace")
    /\ UNCHANGED <<hasLease, store, lease, underway, opts, seen, outcome, history>>

\* The provider may have done its part before the call broke off: a sandbox is
\* booted or woken that no workspace stands for.
MaybeBooted(t) ==
    \/ UNCHANGED <<sandbox, astray>>
    \/ /\ pc[t] = "boot"
       /\ \E s \in Sandboxes :
             /\ Fresh(s)
             /\ sandbox' = [sandbox EXCEPT ![s] = "running"]
             /\ astray' = astray \cup {s}
    \/ /\ pc[t] = "reconnect" /\ ReconnectWakes /\ Reachable(t)
       /\ sandbox' = [sandbox EXCEPT ![seen[t]] = "running"]
       /\ astray' = astray \cup {seen[t]}

\* The factory raises: before there is a sandbox, or after, as when making the
\* working directory fails.
FactoryFails(t) ==
    /\ pc[t] = "boot"
    /\ May("boot")
    /\ Raise(t, "error")
    /\ MaybeBooted(t)
    /\ UNCHANGED <<hasLease, store, lease, underway, calledLate, leaked>>

\* 3 and 4. No error of the trace source or the reconstructor escapes.
FetchTrace(t) ==
    /\ pc[t] = "trace"
    /\ Goto(t, "body")
    /\ UNCHANGED <<hasLease, store, lease, provider, locals, outcome, history>>

\* The application stores the handle of its workspace while attached.
PersistHandle(t) ==
    /\ pc[t] = "body"
    /\ ws[t] # NoSandbox /\ handle # ws[t]
    /\ handle' = ws[t]
    /\ UNCHANGED <<hasLease, ended, lease, provider, pc, locals, outcome, history>>

\* The with block ends, by itself or by an exception of its own.
LeaveBody(t) ==
    /\ pc[t] = "body"
    /\ Goto(t, "cleanup")
    /\ outcome' = [outcome EXCEPT ![t] = "ok"]
    /\ UNCHANGED <<hasLease, store, lease, provider, locals, history>>

\* What pause() and terminate() do to a sandbox; their errors are swallowed.
Stopped(policy, s) ==
    IF policy = "terminate" THEN "gone"
    ELSE IF sandbox[s] = "running" THEN "paused" ELSE sandbox[s]

\* The provider answers a request.
Carry(policy, s) ==
    \/ sandbox' = [sandbox EXCEPT ![s] = Stopped(policy, s)] /\ UNCHANGED astray
    \/ May("pause") /\ astray' = astray \cup {s} /\ UNCHANGED sandbox

\* 5. exit_workspace.
ApplyExitPolicy(t) ==
    /\ pc[t] = "cleanup"
    /\ Goto(t, "release")
    /\ IF ws[t] = NoSandbox
         THEN UNCHANGED <<sandbox, astray>>
         ELSE IF opts[t].exit = "keep_alive"
           THEN astray' = astray \cup {ws[t]} /\ UNCHANGED sandbox
           ELSE Carry(opts[t].exit, ws[t])
    /\ UNCHANGED <<hasLease, store, lease, underway, locals, outcome, calledLate, leaked>>

\* Mutant: the lease is not released.
ReleaseLeaseNever(t) ==
    /\ pc[t] = "release"
    /\ t \in Attaches
    /\ Leave(t, outcome[t])
    /\ UNCHANGED <<hasLease, store, lease, provider, history>>

\* 5. Release, if this call was given a Lease; release() itself goes by
\* process.  Its errors are swallowed.
ReleaseLease(t) ==
    /\ pc[t] = "release"
    /\ t \in Attaches
    /\ Leave(t, outcome[t])
    /\ IF ~hasLease
         THEN UNCHANGED <<lease, leaked>>
         ELSE \/ L!Release(t) /\ leaked' = (leaked /\ owner' # NoOwner)
              \/ May("lease") /\ L!Abandon(t) /\ LeakIfOwner(t)
    /\ UNCHANGED <<hasLease, store, provider, calledLate, astray>>

-----------------------------------------------------------------------------
(* end() *)

CallEnd(t) ==
    /\ pc[t] = "idle"
    /\ Goto(t, "check")
    /\ UNCHANGED <<hasLease, store, lease, provider, locals, outcome, history>>

\* Mutant: end() waits for the lease instead of reclaiming it.
EndCheckUnforced(t) ==
    /\ pc[t] = "check"
    /\ IF ended
         THEN Leave(t, "ok") /\ UNCHANGED lease
         ELSE /\ IF hasLease THEN Goto(t, "acquire") /\ L!Ask(t)
                             ELSE Goto(t, "lookup") /\ UNCHANGED lease
              /\ UNCHANGED <<locals, outcome>>
    /\ UNCHANGED <<hasLease, store, provider, history>>

\* Idempotent: an ended session is left alone.
EndCheck(t) ==
    /\ pc[t] = "check"
    /\ IF ended
         THEN Leave(t, "ok") /\ UNCHANGED lease
         ELSE /\ IF hasLease THEN Goto(t, "acquire") /\ L!AskForce(t)
                             ELSE Goto(t, "lookup") /\ UNCHANGED lease
              /\ UNCHANGED <<locals, outcome>>
    /\ UNCHANGED <<hasLease, store, provider, history>>

\* Force-reclaim, best effort: end() goes on without a lease if it fails.
EndAcquire(t) ==
    /\ pc[t] = "acquire"
    /\ Goto(t, "lookup")
    /\ L!Seize(t)
    /\ leaked' = FALSE
    /\ UNCHANGED <<hasLease, store, provider, locals, outcome, calledLate, astray>>

EndAcquireFails(t) ==
    /\ pc[t] = "acquire"
    /\ May("lease")
    /\ Goto(t, "lookup")
    /\ L!Abandon(t)
    /\ UNCHANGED <<hasLease, store, provider, locals, outcome, history>>

\* Mutant: without a handle there is nothing to end.
EndReadHandleOrLeave(t) ==
    /\ pc[t] = "lookup"
    /\ seen' = [seen EXCEPT ![t] = handle]
    /\ Goto(t, IF handle = NoSandbox THEN "release" ELSE "reconnect")
    /\ UNCHANGED <<hasLease, store, lease, provider, opts, ws, status, outcome, history>>

EndReadHandle(t) ==
    /\ pc[t] = "lookup"
    /\ seen' = [seen EXCEPT ![t] = handle]
    /\ Goto(t, IF handle = NoSandbox THEN "delete" ELSE "reconnect")
    /\ UNCHANGED <<hasLease, store, lease, provider, opts, ws, status, outcome, history>>

\* Best effort: without a workspace there is nothing to terminate.
EndReconnect(t) ==
    /\ pc[t] = "reconnect"
    /\ \/ /\ Reachable(t)
          /\ ws' = [ws EXCEPT ![t] = seen[t]]
          /\ sandbox' = [sandbox EXCEPT ![seen[t]] = IF ReconnectWakes THEN "running" ELSE @]
          /\ Goto(t, "terminate")
       \/ /\ ~Reachable(t) \/ May("reconnect")
          /\ Goto(t, "delete")
          /\ UNCHANGED <<ws, sandbox>>
    /\ UNCHANGED <<hasLease, store, lease, underway, opts, seen, status, outcome, history>>

EndTerminate(t) ==
    /\ pc[t] = "terminate"
    /\ Goto(t, "delete")
    /\ Carry("terminate", ws[t])
    /\ UNCHANGED <<hasLease, store, lease, underway, locals, outcome, calledLate, leaked>>

\* delete_session() clears every key of the session, the tombstone included.
EndDelete(t) ==
    /\ pc[t] = "delete"
    /\ ended' = FALSE
    /\ handle' = NoSandbox
    /\ Goto(t, "bury")
    /\ UNCHANGED <<hasLease, lease, provider, locals, outcome, history>>

\* Re-tombstone after the delete.
EndBury(t) ==
    /\ pc[t] = "bury"
    /\ ended' = TRUE
    /\ Goto(t, "release")
    /\ UNCHANGED <<hasLease, handle, lease, provider, locals, outcome, history>>

\* Mutant: the lease is not released.
EndReleaseNever(t) ==
    /\ pc[t] = "release"
    /\ t \in Ends
    /\ Leave(t, "ok")
    /\ UNCHANGED <<hasLease, store, lease, provider, history>>

\* Release, whether or not the acquire worked.
EndRelease(t) ==
    /\ pc[t] = "release"
    /\ t \in Ends
    /\ Leave(t, "ok")
    /\ IF ~hasLease
         THEN UNCHANGED <<lease, leaked>>
         ELSE \/ L!Release(t) /\ leaked' = (leaked /\ owner' # NoOwner)
              \/ May("lease") /\ LeakIfOwner(t)
                   /\ call' = [call EXCEPT ![t] = "idle"] /\ UNCHANGED owner
    /\ UNCHANGED <<hasLease, store, provider, calledLate, astray>>

-----------------------------------------------------------------------------
(* Failures *)

TryBlock == {"lookup", "reconnect", "boot", "trace", "body"}
Running(t) == pc[t] \notin {"idle", "done", "dead"}

\* The sandbox a task that breaks off leaves behind.
InHand(t) == {ws[t]} \ {NoSandbox}

\* attach(): the state store raises.  Before the lease there is nothing to
\* clean up.
StoreFailsAttach(t) ==
    /\ May("store")
    /\ \/ pc[t] = "check" /\ Leave(t, "error")
       \/ pc[t] = "lookup" /\ Raise(t, "error")
    /\ UNCHANGED <<hasLease, store, lease, provider, history>>

\* attach(): acquire() raises or is cancelled; the lease may have been
\* granted already, and there is no finally around it.
AcquireFails(t) ==
    /\ pc[t] \in {"acquire", "granted"}
    /\ \/ May("lease") /\ Leave(t, "error")
       \/ May("cancel") /\ Leave(t, "cancelled")
    /\ L!Abandon(t)
    /\ IF pc[t] = "granted" THEN LeakIfOwner(t) ELSE UNCHANGED leaked
    /\ UNCHANGED <<hasLease, store, provider, calledLate, astray>>

\* A request to stop the sandbox in hand breaks off: it was not made, or goes
\* on in its thread, or at the provider, without the caller.
StopBreaksOff(t, policy) ==
    \/ astray' = astray \cup {ws[t]} /\ UNCHANGED underway
    \/ underway' = underway \cup {Request(policy, ws[t])} /\ UNCHANGED astray

\* attach() is cancelled at another await.  CancelledError is no Exception: it
\* passes _safe_pause and the except clause around release().
CancelAttach(t) ==
    /\ May("cancel")
    /\ \/ /\ pc[t] = "check"
          /\ Leave(t, "cancelled")
          /\ UNCHANGED <<lease, leaked, provider, astray>>
       \/ /\ pc[t] \in TryBlock
          /\ Raise(t, "cancelled")
          /\ MaybeBooted(t)
          /\ UNCHANGED <<lease, leaked, underway>>
       \/ /\ pc[t] = "cleanup" /\ ws[t] # NoSandbox /\ opts[t].exit # "keep_alive"
          /\ Goto(t, "release")
          /\ outcome' = [outcome EXCEPT ![t] = "cancelled"]
          /\ StopBreaksOff(t, opts[t].exit)
          /\ UNCHANGED <<locals, lease, leaked, sandbox>>
       \/ /\ pc[t] = "release" /\ hasLease
          /\ Leave(t, "cancelled")
          /\ L!Abandon(t)
          /\ LeakIfOwner(t)
          /\ UNCHANGED <<provider, astray>>
    /\ UNCHANGED <<hasLease, store, calledLate>>

\* A request that went on without its caller is answered, whoever works in the
\* sandbox by now.
StopsLate(r) ==
    /\ r \in underway
    /\ underway' = underway \ {r}
    /\ Carry(r.policy, r.sandbox)
    /\ UNCHANGED <<hasLease, store, lease, pc, locals, outcome, calledLate, leaked>>

\* end() has no finally: a failing store or a cancellation leaves at once.
EndBreaksOff(t) ==
    /\ Running(t)
    /\ \/ May("cancel") /\ Leave(t, "cancelled")
       \/ /\ May("store") /\ pc[t] \in {"check", "lookup", "delete", "bury"}
          /\ Leave(t, "error")
    /\ call' = [call EXCEPT ![t] = "idle"]
    /\ IF call[t] = "granted" THEN LeakIfOwner(t) ELSE UNCHANGED leaked
    /\ IF pc[t] = "terminate"
       THEN StopBreaksOff(t, "terminate")
       ELSE astray' = astray \cup InHand(t) /\ UNCHANGED underway
    /\ UNCHANGED <<hasLease, store, owner, sandbox, calledLate>>

\* A server crashes: nothing is cleaned up, and its tasks never come back
\* (a restarted server is a new owner).
Crash(o) ==
    LET crew == {t \in Tasks : OwnerOf[t] = o}
    IN  /\ May("crash")
        /\ \E t \in crew : Running(t)
        /\ pc' = [t \in Tasks |-> IF t \in crew /\ pc[t] # "done" THEN "dead" ELSE pc[t]]
        /\ call' = [t \in Tasks |-> IF t \in crew THEN "idle" ELSE call[t]]
        /\ leaked' = (leaked \/ owner = o)
        /\ astray' = astray \cup UNION {InHand(t) : t \in crew}
        /\ UNCHANGED <<hasLease, store, owner, provider, locals, outcome, calledLate>>

\* The TTL runs out.  Nothing renews the lease during an attach, so it runs
\* out on a holder that is merely slow as well.
LeaseLapses ==
    /\ May("slow") \/ \A t \in Tasks : OwnerOf[t] = owner => call[t] # "granted"
    /\ L!Lapse
    /\ leaked' = FALSE
    /\ UNCHANGED <<hasLease, store, provider, pc, locals, outcome, calledLate, astray>>

-----------------------------------------------------------------------------
\* The next await of a call is answered, without a failure.
AttachProceeds(t) ==
    \/ CheckTombstone(t) \/ AcquireLease(t) \/ LeaseReturned(t) \/ ReadHandle(t)
    \/ Reattach(t) \/ LoseWorkspace(t) \/ BootFresh(t) \/ FetchTrace(t)
    \/ LeaveBody(t) \/ ApplyExitPolicy(t) \/ ReleaseLease(t)

EndProceeds(t) ==
    \/ EndCheck(t) \/ EndAcquire(t) \/ EndReadHandle(t) \/ EndReconnect(t)
    \/ EndTerminate(t) \/ EndDelete(t) \/ EndBury(t) \/ EndRelease(t)

AttachStep(t) ==
    \/ CallAttach(t) \/ AttachProceeds(t) \/ PersistHandle(t) \/ FactoryFails(t)
    \/ StoreFailsAttach(t) \/ AcquireFails(t) \/ CancelAttach(t)

EndStep(t) ==
    CallEnd(t) \/ EndProceeds(t) \/ EndAcquireFails(t) \/ EndBreaksOff(t)

\* Every call has returned and no lease is left to lapse.
Finished ==
    /\ underway = {}
    /\ \A t \in Tasks : pc[t] \in {"done", "dead"}
    /\ owner = NoOwner
    /\ UNCHANGED vars

Next ==
    \/ \E t \in Attaches : AttachStep(t)
    \/ \E t \in Ends : EndStep(t)
    \/ \E o \in Owners : Crash(o)
    \/ \E r \in underway : StopsLate(r)
    \/ LeaseLapses
    \/ Finished

Spec == Init /\ [][Next]_vars

\* Backends answer, bodies end and an orphaned lease runs out.
Fairness ==
    /\ \A t \in Attaches : WF_vars(AttachProceeds(t))
    /\ \A t \in Ends : WF_vars(EndProceeds(t))
    /\ WF_vars(LeaseLapses)

FairSpec == Spec /\ Fairness

\* Only the calls of end() are driven on: an attach may stay in its body, or
\* anywhere else, for ever.
EndFairSpec == Spec /\ \A t \in Ends : WF_vars(EndProceeds(t))

-----------------------------------------------------------------------------
\* Attaches between the grant of their lease and its release.
Working(t) ==
    pc[t] \in {"lookup", "reconnect", "boot", "trace", "body", "cleanup", "release"}

(***************************************************************************)
(* A lease manager "grants exclusive ownership of a session_id": two calls *)
(* of attach() never work on the session together, on one server neither.  *)
(***************************************************************************)
ExclusiveAttach ==
    hasLease => \A t, u \in Attaches : Working(t) /\ Working(u) => t = u

\* A lease has a call working under it, unless a failure hit the acquire, the
\* release, the server or end().
LeaseGivenBack ==
    owner # NoOwner =>
        leaked \/ \E t \in Tasks :
                      OwnerOf[t] = owner /\ call[t] = "granted" /\ Running(t)

\* A sandbox runs under a call that uses it, unless it was to be kept alive, is
\* about to be stopped for a call that was cancelled, or a failure hit the
\* provider call itself.
NothingLeftRunning ==
    \A s \in Sandboxes :
        sandbox[s] = "running" =>
            \/ s \in astray
            \/ \E t \in Tasks : ws[t] = s /\ Running(t)
            \/ \E r \in underway : r.sandbox = s

(***************************************************************************)
(* Every way out of attach() and end(), by return, exception or            *)
(* cancellation at any await, gives the lease back and applies             *)
(* exit_workspace: what is left over was to be kept or a failure left it.  *)
(***************************************************************************)
NothingLeftOver == LeaseGivenBack /\ NothingLeftRunning


(***************************************************************************)
(* "Subsequent attach() raises SessionEnded": an attach called after       *)
(* end() has returned gets no further than the tombstone.                  *)
(***************************************************************************)
LateAttachRefused ==
    \A t \in calledLate : pc[t] \in {"check", "done", "dead"}

(***************************************************************************)
(* Every call returns: no failure, crash or race leaves a caller of        *)
(* attach() or end() waiting for ever.                                     *)
(***************************************************************************)
EveryCallReturns ==
    \A t \in Tasks : Running(t) ~> pc[t] \in {"done", "dead"}

(***************************************************************************)
(* "Force-reclaim lease so end() always wins": end() comes to its end      *)
(* whatever the attaches do, the one that holds the lease included; unless *)
(* it was broken off the session is then ended.                            *)
(***************************************************************************)
EndAlwaysWins ==
    \A t \in Ends :
        pc[t] = "check" ~>
            (pc[t] = "dead" \/ outcome[t] \in {"error", "cancelled"} \/ (pc[t] = "done" /\ ended))
=============================================================================
