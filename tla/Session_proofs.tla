---------------------------- MODULE Session_proofs ----------------------------
(***************************************************************************)
(* Theorems about Session, for every set of calls and servers, every       *)
(* option, every provider and every set of failures.                       *)
(***************************************************************************)
EXTENDS Session, TLAPS

\* What a step may be: the tasks of both kinds are tasks.
LEMMA Steps ==
  ASSUME [Next]_vars
  PROVE  \/ \E t \in Tasks : t \in Attaches /\ AttachStep(t)
         \/ \E t \in Tasks : t \in Ends /\ EndStep(t)
         \/ \E o \in Owners : Crash(o)
         \/ \E r \in underway : StopsLate(r)
         \/ LeaseLapses
         \/ UNCHANGED vars
  BY DEF Next, Tasks, Finished

-----------------------------------------------------------------------------
(***************************************************************************)
(* Types, and what a call holds at each of its awaits.                     *)
(***************************************************************************)
CallFits ==
    \A t \in Tasks :
        /\ pc[t] \in {"idle", "check", "done", "dead"} => call[t] = "idle"
        /\ ~hasLease => call[t] = "idle"
        /\ hasLease /\ t \in Attaches =>
              /\ pc[t] = "acquire" => call[t] = "acquiring"
              /\ Working(t) \/ pc[t] = "granted" => call[t] = "granted"
        /\ t \in Ends => call[t] \in {"idle", "forcing", "granted"}
        /\ hasLease /\ t \in Ends /\ pc[t] = "acquire" => call[t] = "forcing"
        /\ call[t] = "forcing" => pc[t] = "acquire"
        /\ pc[t] = "reconnect" => seen[t] # NoSandbox
        /\ pc[t] = "terminate" => ws[t] # NoSandbox

TInv == TypeOK /\ CallFits

\* At the start no call has been made.
LEMMA InitTInv == Init => TInv
<1> SUFFICES ASSUME Init PROVE TInv
  OBVIOUS
<1> USE SessionAssumption DEF Init
<1>1. NoOptions \in OptionRecord
  BY DEF NoOptions, OptionRecord
<1>2. handle \in Sandboxes \cup {NoSandbox}
  BY DEF Sandboxes, NoSandbox
<1>3. sandbox \in [Sandboxes -> {"unborn", "running", "paused", "gone"}]
  BY DEF Sandboxes
<1>4. TypeOK
  BY <1>1, <1>2, <1>3 DEF TypeOK, L!LeaseInit, L!CallState, Labels, NoSandbox
<1>5. CallFits
  BY DEF CallFits, L!LeaseInit, Working
<1> QED
  BY <1>4, <1>5 DEF TInv

Outcomes == {"none", "ok", "SessionEnded", "LeaseHeld",
             "WorkspaceUnreachable", "error", "cancelled"}

\* The locals of a call.
LocalTypes ==
    /\ pc \in [Tasks -> Labels]
    /\ opts \in [Tasks -> OptionRecord]
    /\ seen \in [Tasks -> Sandboxes \cup {NoSandbox}]
    /\ ws \in [Tasks -> Sandboxes \cup {NoSandbox}]
    /\ status \in [Tasks -> {"none", "no_prior", "reattached",
                             "reconnect_failed", "boot_fresh"}]
    /\ outcome \in [Tasks -> Outcomes]

\* A call that is over has no sandbox in hand; no other call notices.
LEMMA LeaveTypes ==
  ASSUME TypeOK, NEW t \in Tasks, NEW what \in Outcomes, Leave(t, what)
  PROVE  /\ LocalTypes'
         /\ pc' = [pc EXCEPT ![t] = "done"]
         /\ ws' = [ws EXCEPT ![t] = NoSandbox]
         /\ seen' = [seen EXCEPT ![t] = NoSandbox]
  BY DEF TypeOK, Leave, Goto, LocalTypes, Outcomes, Labels, NoOptions, OptionRecord, NoSandbox

\* An exception inside the try block only moves the call.
LEMMA RaiseTypes ==
  ASSUME TypeOK, NEW t \in Tasks, NEW what \in Outcomes, Raise(t, what)
  PROVE  /\ LocalTypes'
         /\ pc' = [pc EXCEPT ![t] = "cleanup"]
         /\ ws' = ws /\ seen' = seen
  BY DEF TypeOK, Raise, Goto, LocalTypes, Outcomes, Labels, locals

\* A call that returns or raises, and gives up its place with the lease.
LEMMA LeaveTInv ==
  ASSUME TInv, NEW t \in Tasks, NEW what \in Outcomes, Leave(t, what),
         call' = [call EXCEPT ![t] = "idle"],
         owner' \in Owners \cup {NoOwner},
         leaked' \in BOOLEAN, astray' \subseteq Sandboxes, underway' \subseteq Requests,
         UNCHANGED <<hasLease, store, sandbox, calledLate>>
  PROVE  TInv'
<1>1. /\ LocalTypes'
      /\ pc' = [pc EXCEPT ![t] = "done"]
      /\ ws' = [ws EXCEPT ![t] = NoSandbox]
      /\ seen' = [seen EXCEPT ![t] = NoSandbox]
  BY LeaveTypes DEF TInv
<1>2. TypeOK'
  BY <1>1 DEF TInv, TypeOK, LocalTypes, Outcomes, store, L!CallState
<1>3. CallFits'
  BY <1>1 DEF TInv, TypeOK, CallFits, Working
<1> QED
  BY <1>2, <1>3 DEF TInv

\* An exception inside the try block of attach().
LEMMA RaiseTInv ==
  ASSUME TInv, NEW t \in Tasks, NEW what \in Outcomes, Raise(t, what),
         t \in Attaches, pc[t] \in TryBlock,
         sandbox' \in [Sandboxes -> {"unborn", "running", "paused", "gone"}],
         \A s \in Sandboxes : sandbox'[s] = "unborn" => sandbox[s] = "unborn",
         astray' \subseteq Sandboxes,
         UNCHANGED <<hasLease, store, lease, underway, calledLate, leaked>>
  PROVE  TInv'
<1>1. /\ LocalTypes'
      /\ pc' = [pc EXCEPT ![t] = "cleanup"]
      /\ ws' = ws /\ seen' = seen
  BY RaiseTypes DEF TInv
<1>2. TypeOK'
  BY <1>1 DEF TInv, TypeOK, LocalTypes, Outcomes, store, lease, L!CallState
<1>3. CallFits'
  BY <1>1, SessionAssumption DEF TInv, TypeOK, CallFits, Working, TryBlock, lease
<1> QED
  BY <1>2, <1>3 DEF TInv

\* What a request to stop a sandbox does to it.
LEMMA CarryTypes ==
  ASSUME TypeOK, NEW s \in Sandboxes, NEW policy, Carry(policy, s)
  PROVE  /\ sandbox' \in [Sandboxes -> {"unborn", "running", "paused", "gone"}]
         /\ \A r \in Sandboxes : sandbox'[r] = "unborn" => sandbox[r] = "unborn"
         /\ \A r \in Sandboxes : sandbox'[r] = "running" => sandbox[r] = "running"
         /\ astray \subseteq astray' /\ astray' \subseteq Sandboxes
         /\ s \in astray' \/ sandbox'[s] # "running"
<1>1. CASE sandbox' = [sandbox EXCEPT ![s] = Stopped(policy, s)] /\ UNCHANGED astray
  <2>1. /\ Stopped(policy, s) \in {"unborn", "paused", "gone"}
        /\ Stopped(policy, s) = "unborn" => sandbox[s] = "unborn"
    BY DEF Stopped, TypeOK
  <2> QED
    BY <1>1, <2>1 DEF TypeOK
<1>2. CASE astray' = astray \cup {s} /\ UNCHANGED sandbox
  BY <1>2 DEF TypeOK
<1> QED
  BY <1>1, <1>2 DEF Carry

\* A request that breaks off is recorded.
LEMMA BreaksOffTypes ==
  ASSUME TInv, NEW t \in Tasks, NEW policy \in {"pause", "terminate"},
         ws[t] # NoSandbox, StopBreaksOff(t, policy)
  PROVE  /\ underway \subseteq underway' /\ underway' \subseteq Requests
         /\ astray \subseteq astray' /\ astray' \subseteq Sandboxes
         /\ ws[t] \in astray' \/ \E r \in underway' : r.sandbox = ws[t]
<1>1. ws[t] \in Sandboxes
  BY DEF TInv, TypeOK
<1>2. Request(policy, ws[t]) \in Requests /\ Request(policy, ws[t]).sandbox = ws[t]
  BY <1>1 DEF Request, Requests
<1> QED
  BY <1>1, <1>2 DEF StopBreaksOff, TInv, TypeOK

\* What a cancelled provider request may have done.
LEMMA MaybeBootedTypes ==
  ASSUME TInv, NEW t \in Tasks, MaybeBooted(t)
  PROVE  /\ sandbox' \in [Sandboxes -> {"unborn", "running", "paused", "gone"}]
         /\ \A s \in Sandboxes : sandbox'[s] = "unborn" => sandbox[s] = "unborn"
         /\ astray' \subseteq Sandboxes
<1> USE DEF TInv, TypeOK
<1>1. CASE UNCHANGED <<sandbox, astray>>
  BY <1>1
<1>2. ASSUME NEW s \in Sandboxes, sandbox' = [sandbox EXCEPT ![s] = "running"],
             astray' = astray \cup {s}
      PROVE  /\ sandbox' \in [Sandboxes -> {"unborn", "running", "paused", "gone"}]
             /\ \A r \in Sandboxes : sandbox'[r] = "unborn" => sandbox[r] = "unborn"
             /\ astray' \subseteq Sandboxes
  BY <1>2
<1> QED
  BY <1>1, <1>2 DEF MaybeBooted, CallFits, NoSandbox

\* No step of attach() leaves the types.
LEMMA AttachTInv ==
  ASSUME TInv, NEW t \in Tasks, t \in Attaches, AttachStep(t)
  PROVE  TInv'
<1> USE SessionAssumption DEF store, lease, provider, history
<1>0. t \notin Ends
  OBVIOUS
<1>m. ASSUME NEW what \in {"ok", "SessionEnded", "LeaseHeld", "error", "cancelled", outcome[t]}
      PROVE  what \in Outcomes
  BY DEF TInv, TypeOK, Outcomes
<1>1. CASE CallAttach(t)
  BY <1>0, <1>1 DEF TInv, TypeOK, CallFits, CallAttach, Goto, Labels, Working
<1>2. CASE CheckTombstone(t)
  <2>1. CASE ended
    <3>1. Leave(t, "SessionEnded") /\ call' = [call EXCEPT ![t] = "idle"]
      BY <1>2, <2>1 DEF CheckTombstone, TInv, TypeOK, CallFits
    <3>2. QED
      BY <1>2, <1>m, <2>1, <3>1, LeaveTInv DEF CheckTombstone, TInv, TypeOK
  <2>2. CASE ~ended
    BY <1>0, <1>2, <2>2 DEF TInv, TypeOK, CallFits, CheckTombstone, L!Ask, L!CallState,
       locals, Goto, Labels, Working
  <2> QED
    BY <2>1, <2>2
<1>3. CASE AcquireLease(t)
  <2>1. CASE L!Refuse(t) /\ Leave(t, "LeaseHeld") /\ UNCHANGED leaked
    BY <1>3, <1>m, <2>1, LeaveTInv DEF AcquireLease, L!Refuse, TInv, TypeOK
  <2>2. CASE L!Grant(t) /\ Goto(t, "granted") /\ leaked' = FALSE /\ UNCHANGED <<locals, outcome>>
    BY <1>0, <1>3, <2>2 DEF TInv, TypeOK, CallFits, AcquireLease, L!Grant, L!CallState,
       locals, Goto, Labels, Working
  <2> QED
    BY <1>3, <2>1, <2>2 DEF AcquireLease
<1>4. CASE LeaseReturned(t)
  BY <1>0, <1>4 DEF TInv, TypeOK, CallFits, LeaseReturned, locals, Goto, Labels, Working
<1>5. CASE ReadHandle(t)
  BY <1>0, <1>5 DEF TInv, TypeOK, CallFits, ReadHandle, Goto, Labels, Working
<1>6. CASE Reattach(t)
  BY <1>0, <1>6 DEF TInv, TypeOK, CallFits, Reattach, Reachable, NoSandbox, Goto, Labels, Working
<1>7. CASE LoseWorkspace(t)
  <2>1. CASE Raise(t, "WorkspaceUnreachable")
    BY <1>7, <2>1, RaiseTInv DEF LoseWorkspace, TInv, TypeOK, Outcomes, TryBlock
  <2>2. CASE /\ Goto(t, "boot") \/ Goto(t, "trace")
             /\ status' \in {status, [status EXCEPT ![t] = "reconnect_failed"]}
             /\ UNCHANGED <<opts, seen, ws, outcome>>
    BY <1>0, <1>7, <2>2 DEF TInv, TypeOK, CallFits, LoseWorkspace, Goto, Labels, Working
  <2> QED
    BY <1>7, <2>1, <2>2 DEF LoseWorkspace, locals
<1>8. CASE BootFresh(t)
  BY <1>0, <1>8 DEF TInv, TypeOK, CallFits, BootFresh, Fresh, Goto, Labels, Working
<1>9. CASE FactoryFails(t)
  BY <1>9, <1>m, MaybeBootedTypes, RaiseTInv DEF FactoryFails, TryBlock
<1>10. CASE FetchTrace(t) \/ LeaveBody(t)
  BY <1>0, <1>10 DEF TInv, TypeOK, CallFits, FetchTrace, LeaveBody, locals, Goto, Labels, Working
<1>11. CASE ApplyExitPolicy(t)
  <2>1. /\ sandbox' \in [Sandboxes -> {"unborn", "running", "paused", "gone"}]
        /\ \A s \in Sandboxes : sandbox'[s] = "unborn" => sandbox[s] = "unborn"
        /\ astray' \subseteq Sandboxes
    BY <1>11, CarryTypes DEF ApplyExitPolicy, TInv, TypeOK, OptionRecord
  <2>2. CallFits' /\ pc' \in [Tasks -> Labels]
    BY <1>0, <1>11 DEF TInv, TypeOK, CallFits, ApplyExitPolicy, locals, Goto, Labels, Working
  <2>3. TypeOK'
    BY <1>11, <2>1, <2>2 DEF TInv, TypeOK, CallFits, ApplyExitPolicy, locals, Goto
  <2> QED
    BY <2>2, <2>3 DEF TInv
<1>12. CASE ReleaseLease(t)
  <2>1. /\ call' = [call EXCEPT ![t] = "idle"]
        /\ owner' \in Owners \cup {NoOwner}
        /\ leaked' \in BOOLEAN
    BY <1>12 DEF TInv, TypeOK, CallFits, ReleaseLease, L!Release, L!Abandon, LeakIfOwner
  <2> QED
    BY <1>12, <1>m, <2>1, LeaveTInv DEF ReleaseLease, TInv, TypeOK
<1>13. CASE PersistHandle(t)
  BY <1>0, <1>13 DEF TInv, TypeOK, CallFits, PersistHandle, locals, Working
<1>14. CASE StoreFailsAttach(t)
  <2>1. CASE pc[t] = "check" /\ Leave(t, "error")
    <3>1. call' = [call EXCEPT ![t] = "idle"]
      BY <1>14, <2>1 DEF StoreFailsAttach, TInv, TypeOK, CallFits
    <3>2. QED
      BY <1>14, <1>m, <2>1, <3>1, LeaveTInv DEF StoreFailsAttach, TInv, TypeOK
  <2>2. CASE pc[t] = "lookup" /\ Raise(t, "error")
    BY <1>14, <1>m, <2>2, RaiseTInv DEF StoreFailsAttach, TInv, TypeOK, TryBlock
  <2> QED
    BY <1>14, <2>1, <2>2 DEF StoreFailsAttach
<1>15. CASE AcquireFails(t)
  <2>1. PICK what \in Outcomes : Leave(t, what)
    BY <1>15 DEF AcquireFails, Outcomes
  <2>2. leaked' \in BOOLEAN
    BY <1>15 DEF AcquireFails, LeakIfOwner, TInv, TypeOK
  <2> QED
    BY <1>15, <2>1, <2>2, LeaveTInv DEF AcquireFails, L!Abandon, TInv, TypeOK
<1>16. CASE CancelAttach(t)
  <2>1. CASE pc[t] = "check" /\ Leave(t, "cancelled") /\ UNCHANGED <<lease, leaked, provider, astray>>
    <3>1. call' = [call EXCEPT ![t] = "idle"]
      BY <2>1 DEF TInv, TypeOK, CallFits
    <3>2. QED
      BY <1>16, <1>m, <2>1, <3>1, LeaveTInv DEF CancelAttach, TInv, TypeOK
  <2>2. CASE /\ pc[t] \in TryBlock /\ Raise(t, "cancelled") /\ MaybeBooted(t)
             /\ UNCHANGED <<lease, leaked, underway>>
    <3>1. /\ sandbox' \in [Sandboxes -> {"unborn", "running", "paused", "gone"}]
          /\ \A s \in Sandboxes : sandbox'[s] = "unborn" => sandbox[s] = "unborn"
          /\ astray' \subseteq Sandboxes
      BY <2>2, MaybeBootedTypes
    <3>2. QED
      BY <1>16, <1>m, <2>2, <3>1, RaiseTInv DEF CancelAttach
  <2>3. CASE /\ pc[t] = "cleanup" /\ ws[t] # NoSandbox /\ opts[t].exit # "keep_alive"
             /\ Goto(t, "release")
             /\ outcome' = [outcome EXCEPT ![t] = "cancelled"]
             /\ StopBreaksOff(t, opts[t].exit)
             /\ UNCHANGED <<locals, lease, leaked, sandbox>>
    <3>1. underway' \subseteq Requests /\ astray' \subseteq Sandboxes
      BY <2>3, BreaksOffTypes DEF TInv, TypeOK, OptionRecord
    <3> QED
      BY <1>0, <1>16, <2>3, <3>1 DEF TInv, TypeOK, CallFits, CancelAttach, locals, Goto, Labels, Working
  <2>4. CASE /\ Leave(t, "cancelled") /\ L!Abandon(t) /\ LeakIfOwner(t)
             /\ UNCHANGED <<provider, astray>>
    BY <1>16, <1>m, <2>4, LeaveTInv DEF CancelAttach, L!Abandon, LeakIfOwner, TInv, TypeOK
  <2> QED
    BY <1>16, <2>1, <2>2, <2>3, <2>4 DEF CancelAttach
<1> QED
  BY <1>1, <1>2, <1>3, <1>4, <1>5, <1>6, <1>7, <1>8, <1>9, <1>10, <1>11, <1>12,
     <1>13, <1>14, <1>15, <1>16 DEF AttachStep, AttachProceeds

\* No step of end() leaves the types.
LEMMA EndTInv ==
  ASSUME TInv, NEW t \in Tasks, t \in Ends, EndStep(t)
  PROVE  TInv'
<1> USE SessionAssumption DEF store, lease, provider, history
<1>0. t \notin Attaches
  OBVIOUS
<1>m. {"ok", "error", "cancelled"} \subseteq Outcomes
  BY DEF Outcomes
<1>1. CASE CallEnd(t)
  BY <1>0, <1>1 DEF TInv, TypeOK, CallFits, CallEnd, locals, Goto, Labels, Working
<1>2. CASE EndCheck(t)
  <2>1. CASE ended
    <3>1. Leave(t, "ok") /\ call' = [call EXCEPT ![t] = "idle"]
      BY <1>2, <2>1 DEF EndCheck, TInv, TypeOK, CallFits
    <3>2. QED
      BY <1>2, <1>m, <2>1, <3>1, LeaveTInv DEF EndCheck, TInv, TypeOK
  <2>2. CASE ~ended
    BY <1>0, <1>2, <2>2 DEF TInv, TypeOK, CallFits, EndCheck, L!AskForce, L!CallState,
       locals, Goto, Labels, Working
  <2> QED
    BY <2>1, <2>2
<1>3. CASE EndAcquire(t)
  BY <1>0, <1>3 DEF TInv, TypeOK, CallFits, EndAcquire, L!Seize, L!CallState, locals,
     Goto, Labels, Working
<1>4. CASE EndAcquireFails(t)
  BY <1>0, <1>4 DEF TInv, TypeOK, CallFits, EndAcquireFails, L!Abandon, L!CallState, locals,
     Goto, Labels, Working
<1>5. CASE EndReadHandle(t)
  BY <1>0, <1>5 DEF TInv, TypeOK, CallFits, EndReadHandle, Goto, Labels, Working
<1>6. CASE EndReconnect(t)
  BY <1>0, <1>6 DEF TInv, TypeOK, CallFits, EndReconnect, Reachable, NoSandbox, Goto,
     Labels, Working
<1>7. CASE EndTerminate(t)
  <2>1. ws[t] \in Sandboxes
    BY <1>7 DEF EndTerminate, TInv, TypeOK, CallFits
  <2>2. TypeOK'
    <3>1. /\ sandbox' \in [Sandboxes -> {"unborn", "running", "paused", "gone"}]
          /\ \A s \in Sandboxes : sandbox'[s] = "unborn" => sandbox[s] = "unborn"
          /\ astray' \subseteq Sandboxes
      BY <1>7, <2>1, CarryTypes DEF EndTerminate, TInv
    <3> QED
      BY <1>7, <3>1 DEF TInv, TypeOK, EndTerminate, locals, Goto, Labels
  <2>3. CallFits'
    BY <1>0, <1>7 DEF TInv, TypeOK, CallFits, EndTerminate, locals, Goto, Working
  <2> QED
    BY <2>2, <2>3 DEF TInv
<1>8. CASE EndDelete(t)
  BY <1>0, <1>8 DEF TInv, TypeOK, CallFits, EndDelete, locals, Goto, Labels, Working
<1>9. CASE EndBury(t)
  BY <1>0, <1>9 DEF TInv, TypeOK, CallFits, EndBury, locals, Goto, Labels, Working
<1>10. CASE EndRelease(t)
  <2>1. /\ call' = [call EXCEPT ![t] = "idle"]
        /\ owner' \in Owners \cup {NoOwner}
        /\ leaked' \in BOOLEAN
    BY <1>10 DEF TInv, TypeOK, CallFits, EndRelease, L!Release, LeakIfOwner
  <2> QED
    BY <1>10, <1>m, <2>1, LeaveTInv DEF EndRelease, TInv, TypeOK
<1>11. CASE EndBreaksOff(t)
  <2>1. PICK what \in Outcomes : Leave(t, what)
    BY <1>11, <1>m DEF EndBreaksOff
  <2>2. astray' \subseteq Sandboxes /\ underway' \subseteq Requests
    <3>1. CASE pc[t] = "terminate"
      BY <1>11, <3>1, BreaksOffTypes DEF EndBreaksOff, TInv, CallFits
    <3>2. CASE pc[t] # "terminate"
      BY <1>11, <3>2 DEF EndBreaksOff, InHand, TInv, TypeOK
    <3> QED
      BY <3>1, <3>2
  <2>3. leaked' \in BOOLEAN
    BY <1>11 DEF EndBreaksOff, LeakIfOwner, TInv, TypeOK
  <2> QED
    BY <1>11, <2>1, <2>2, <2>3, LeaveTInv DEF EndBreaksOff, TInv, TypeOK
<1> QED
  BY <1>1, <1>2, <1>3, <1>4, <1>5, <1>6, <1>7, <1>8, <1>9, <1>10, <1>11 DEF EndStep, EndProceeds

\* A crash takes the calls of one server away, and nothing else.
LEMMA CrashTInv ==
  ASSUME TInv, NEW o \in Owners, Crash(o)
  PROVE  TInv'
<1> USE SessionAssumption DEF store, provider, locals
<1>1. astray' \subseteq Sandboxes
  BY DEF Crash, InHand, TInv, TypeOK
<1>2. TypeOK'
  BY <1>1 DEF Crash, TInv, TypeOK, Labels, L!CallState
<1>3. CallFits'
  BY DEF Crash, TInv, TypeOK, CallFits, Working
<1> QED
  BY <1>2, <1>3 DEF TInv

\* A request answered late does no more than one answered in time.
LEMMA StopsLateTInv ==
  ASSUME TInv, NEW r \in underway, StopsLate(r)
  PROVE  TInv'
<1>1. r \in Requests /\ r.sandbox \in Sandboxes
  BY DEF TInv, TypeOK, Requests
<1>2. /\ sandbox' \in [Sandboxes -> {"unborn", "running", "paused", "gone"}]
      /\ \A s \in Sandboxes : sandbox'[s] = "unborn" => sandbox[s] = "unborn"
      /\ astray' \subseteq Sandboxes
  BY <1>1, CarryTypes DEF StopsLate, TInv
<1> QED
  BY <1>2 DEF StopsLate, TInv, TypeOK, CallFits, Working, store, lease, locals

\* Every step keeps the types.
LEMMA NextTInv == TInv /\ [Next]_vars => TInv'
<1> SUFFICES ASSUME TInv, [Next]_vars PROVE TInv'
  OBVIOUS
<1>1. CASE LeaseLapses
  BY <1>1 DEF LeaseLapses, L!Lapse, TInv, TypeOK, CallFits, Working, store, provider, locals
<1>2. CASE UNCHANGED vars
  BY <1>2 DEF vars, TInv, TypeOK, CallFits, Working, store, provider, locals, lease, history
<1> QED
  BY <1>1, <1>2, Steps, AttachTInv, EndTInv, CrashTInv, StopsLateTInv

\* Every variable of a session always has its type; a call outside attach()
\* and end() has no part in the lease, and no call uses a sandbox not yet made.
THEOREM TypeCorrect == Spec => []TypeOK
<1>1. TInv => TypeOK
  BY DEF TInv
<1> QED
  BY <1>1, InitTInv, NextTInv, PTL DEF Spec

-----------------------------------------------------------------------------
(***************************************************************************)
(* What is left over.  A step of one call leaves the other calls where     *)
(* they are.                                                               *)
(***************************************************************************)
Unmoved(u) ==
    pc'[u] = pc[u] /\ call'[u] = call[u] /\ ws'[u] = ws[u] /\ outcome'[u] = outcome[u]

\* Of attach().
LEMMA AttachMovesOne ==
  ASSUME TInv, NEW t \in Tasks, AttachStep(t)
  PROVE  \A u \in Tasks \ {t} : Unmoved(u)
<1> USE DEF TInv, TypeOK, Unmoved, Goto, locals, lease
<1>1. CASE CallAttach(t) \/ LeaseReturned(t) \/ ReadHandle(t) \/ Reattach(t)
             \/ BootFresh(t) \/ FetchTrace(t) \/ LeaveBody(t) \/ PersistHandle(t)
  BY <1>1 DEF CallAttach, LeaseReturned, ReadHandle, Reattach, BootFresh, FetchTrace,
     LeaveBody, PersistHandle
<1>2. CASE CheckTombstone(t)
  BY <1>2 DEF CheckTombstone, Leave, L!Ask
<1>3. CASE AcquireLease(t)
  BY <1>3 DEF AcquireLease, Leave, L!Grant, L!Refuse
<1>4. CASE LoseWorkspace(t) \/ FactoryFails(t)
  BY <1>4 DEF LoseWorkspace, FactoryFails, Raise
<1>5. CASE ApplyExitPolicy(t)
  BY <1>5 DEF ApplyExitPolicy
<1>6. CASE ReleaseLease(t)
  BY <1>6 DEF ReleaseLease, Leave, L!Release, L!Abandon
<1>7. CASE StoreFailsAttach(t)
  BY <1>7 DEF StoreFailsAttach, Leave, Raise
<1>8. CASE AcquireFails(t)
  BY <1>8 DEF AcquireFails, Leave, L!Abandon
<1>9. CASE CancelAttach(t)
  BY <1>9 DEF CancelAttach, Leave, Raise, L!Abandon
<1> QED
  BY <1>1, <1>2, <1>3, <1>4, <1>5, <1>6, <1>7, <1>8, <1>9 DEF AttachStep, AttachProceeds

\* Of end().
LEMMA EndMovesOne ==
  ASSUME TInv, NEW t \in Tasks, EndStep(t)
  PROVE  \A u \in Tasks \ {t} : Unmoved(u)
<1> USE DEF TInv, TypeOK, Unmoved, Goto, locals, lease
<1>1. CASE CallEnd(t) \/ EndReadHandle(t) \/ EndReconnect(t) \/ EndTerminate(t)
             \/ EndDelete(t) \/ EndBury(t)
  BY <1>1 DEF CallEnd, EndReadHandle, EndReconnect, EndTerminate, EndDelete, EndBury
<1>2. CASE EndCheck(t)
  BY <1>2 DEF EndCheck, Leave, L!AskForce
<1>3. CASE EndAcquire(t) \/ EndAcquireFails(t)
  BY <1>3 DEF EndAcquire, EndAcquireFails, L!Seize, L!Abandon
<1>4. CASE EndRelease(t)
  BY <1>4 DEF EndRelease, Leave, L!Release
<1>5. CASE EndBreaksOff(t)
  BY <1>5 DEF EndBreaksOff, Leave
<1> QED
  BY <1>1, <1>2, <1>3, <1>4, <1>5 DEF EndStep, EndProceeds

(***************************************************************************)
(* The lease.  A step that leaves the owner alone keeps LeaseGivenBack if  *)
(* the call goes on, never had the lease, or records the leak.             *)
(***************************************************************************)
LEMMA KeepsLease ==
  ASSUME TInv, LeaseGivenBack, NEW t \in Tasks,
         owner' = owner, leaked => leaked',
         \A u \in Tasks \ {t} : Unmoved(u),
         \/ call[t] # "granted"
         \/ owner = OwnerOf[t] => leaked'
         \/ call'[t] = call[t] /\ pc'[t] \notin {"idle", "done", "dead"}
  PROVE  LeaseGivenBack'
  BY DEF LeaseGivenBack, Running, Unmoved

\* release() by one call: the lease is free, or still another server's.
LEMMA ReleaseKeepsLease ==
  ASSUME TInv, LeaseGivenBack, NEW t \in Tasks, L!Release(t),
         leaked' = (leaked /\ owner' # NoOwner),
         \A u \in Tasks \ {t} : Unmoved(u)
  PROVE  LeaseGivenBack'
  BY SessionAssumption DEF LeaseGivenBack, Running, Unmoved, L!Release

\* attach() gives the lease back, or a failure is recorded.
LEMMA AttachLeaseGivenBack ==
  ASSUME TInv, LeaseGivenBack, NEW t \in Tasks, t \in Attaches, AttachStep(t)
  PROVE  LeaseGivenBack'
<1> USE SessionAssumption
<1>0. \A u \in Tasks \ {t} : Unmoved(u)
  BY AttachMovesOne
<1> USE DEF TInv, TypeOK, Goto, lease, history
<1>1. CASE CallAttach(t) \/ LeaseReturned(t) \/ ReadHandle(t) \/ Reattach(t)
             \/ BootFresh(t) \/ FetchTrace(t) \/ LeaveBody(t) \/ ApplyExitPolicy(t)
  BY <1>0, <1>1, KeepsLease
  DEF CallAttach, LeaseReturned, ReadHandle, Reattach, BootFresh, FetchTrace, LeaveBody,
      ApplyExitPolicy
<1>2. CASE PersistHandle(t)
  BY <1>0, <1>2, KeepsLease DEF PersistHandle
<1>3. CASE CheckTombstone(t)
  BY <1>0, <1>3, KeepsLease DEF CheckTombstone, CallFits, L!Ask
<1>4. CASE AcquireLease(t)
  <2>1. CASE L!Grant(t) /\ Goto(t, "granted")
    BY <2>1 DEF L!Grant, LeaseGivenBack, Running
  <2>2. CASE L!Refuse(t) /\ UNCHANGED leaked
    BY <1>0, <2>2, KeepsLease DEF L!Refuse
  <2> QED
    BY <1>4, <2>1, <2>2 DEF AcquireLease
<1>5. CASE LoseWorkspace(t) \/ FactoryFails(t)
  BY <1>0, <1>5, KeepsLease DEF LoseWorkspace, FactoryFails, Raise
<1>6. CASE ReleaseLease(t)
  <2>1. CASE ~hasLease
    BY <1>0, <1>6, <2>1, KeepsLease DEF ReleaseLease, CallFits
  <2>2. CASE L!Release(t) /\ leaked' = (leaked /\ owner' # NoOwner)
    BY <1>0, <2>2, ReleaseKeepsLease
  <2>3. CASE L!Abandon(t) /\ LeakIfOwner(t)
    BY <1>0, <2>3, KeepsLease DEF L!Abandon, LeakIfOwner
  <2> QED
    BY <1>6, <2>1, <2>2, <2>3 DEF ReleaseLease
<1>7. CASE StoreFailsAttach(t)
  BY <1>0, <1>7, KeepsLease DEF StoreFailsAttach, Raise, CallFits
<1>8. CASE AcquireFails(t)
  <2>1. pc[t] = "acquire" => call[t] # "granted"
    BY <1>8 DEF AcquireFails, CallFits
  <2> QED
    BY <1>0, <1>8, <2>1, KeepsLease DEF AcquireFails, L!Abandon, LeakIfOwner
<1>9. CASE CancelAttach(t)
  <2>1. CASE pc[t] = "check" /\ UNCHANGED <<lease, leaked>>
    BY <1>0, <2>1, KeepsLease DEF CallFits
  <2>2. CASE UNCHANGED <<lease, leaked>> /\ (Goto(t, "cleanup") \/ Goto(t, "release"))
    BY <1>0, <2>2, KeepsLease
  <2>3. CASE L!Abandon(t) /\ LeakIfOwner(t)
    BY <1>0, <2>3, KeepsLease DEF L!Abandon, LeakIfOwner
  <2> QED
    BY <1>9, <2>1, <2>2, <2>3 DEF CancelAttach, Raise
<1> QED
  BY <1>1, <1>2, <1>3, <1>4, <1>5, <1>6, <1>7, <1>8, <1>9 DEF AttachStep, AttachProceeds

\* end() gives the lease back, or a failure is recorded.
LEMMA EndLeaseGivenBack ==
  ASSUME TInv, LeaseGivenBack, NEW t \in Tasks, t \in Ends, EndStep(t)
  PROVE  LeaseGivenBack'
<1> USE SessionAssumption
<1>0. \A u \in Tasks \ {t} : Unmoved(u)
  BY EndMovesOne
<1> USE DEF TInv, TypeOK, Goto, lease, history
<1>1. CASE CallEnd(t) \/ EndReadHandle(t) \/ EndReconnect(t) \/ EndTerminate(t)
             \/ EndDelete(t) \/ EndBury(t)
  BY <1>0, <1>1, KeepsLease
  DEF CallEnd, EndReadHandle, EndReconnect, EndTerminate, EndDelete, EndBury
<1>2. CASE EndCheck(t)
  BY <1>0, <1>2, KeepsLease DEF EndCheck, CallFits, L!AskForce
<1>3. CASE EndAcquire(t)
  BY <1>3 DEF EndAcquire, L!Seize, LeaseGivenBack, Running
<1>4. CASE EndAcquireFails(t)
  <2>1. call[t] # "granted"
    BY <1>4 DEF EndAcquireFails, L!Abandon, CallFits
  <2> QED
    BY <1>0, <1>4, <2>1, KeepsLease DEF EndAcquireFails, L!Abandon
<1>5. CASE EndRelease(t)
  <2>1. CASE ~hasLease
    BY <1>0, <1>5, <2>1, KeepsLease DEF EndRelease, CallFits
  <2>2. CASE L!Release(t) /\ leaked' = (leaked /\ owner' # NoOwner)
    BY <1>0, <2>2, ReleaseKeepsLease
  <2>3. CASE LeakIfOwner(t) /\ UNCHANGED owner
    BY <1>0, <2>3, KeepsLease DEF LeakIfOwner
  <2> QED
    BY <1>5, <2>1, <2>2, <2>3 DEF EndRelease
<1>6. CASE EndBreaksOff(t)
  BY <1>0, <1>6, KeepsLease DEF EndBreaksOff, LeakIfOwner
<1> QED
  BY <1>1, <1>2, <1>3, <1>4, <1>5, <1>6 DEF EndStep, EndProceeds

\* Every step gives the lease back, or a failure is recorded.
LEMMA NextLeaseGivenBack == TInv /\ LeaseGivenBack /\ [Next]_vars => LeaseGivenBack'
<1> SUFFICES ASSUME TInv, LeaseGivenBack, [Next]_vars PROVE LeaseGivenBack'
  OBVIOUS
<1>1. ASSUME NEW o \in Owners, Crash(o) PROVE LeaseGivenBack'
  BY <1>1, SessionAssumption DEF Crash, LeaseGivenBack, Running, TInv, TypeOK
<1>2. CASE LeaseLapses
  BY <1>2 DEF LeaseLapses, L!Lapse, LeaseGivenBack
<1>3. CASE UNCHANGED vars
  BY <1>3 DEF vars, lease, history, LeaseGivenBack, Running
<1>4. ASSUME NEW r \in underway, StopsLate(r) PROVE LeaseGivenBack'
  BY <1>4 DEF StopsLate, lease, LeaseGivenBack, Running
<1> QED
  BY <1>1, <1>2, <1>3, <1>4, Steps, AttachLeaseGivenBack, EndLeaseGivenBack

(***************************************************************************)
(* The sandboxes.  NothingLeftRunning is not inductive: a call between     *)
(* exit_workspace and its return still names its sandbox, and may leave at *)
(* once.  What is: a sandbox runs for a call that has yet to stop it.      *)
(***************************************************************************)
Using(t) == pc[t] \in {"trace", "body", "cleanup", "terminate"}

RunningIsUsed ==
    \A s \in Sandboxes :
        sandbox[s] = "running" =>
            \/ s \in astray
            \/ \E t \in Tasks : ws[t] = s /\ Using(t)
            \/ \E r \in underway : r.sandbox = s

\* A step that wakes no sandbox, of a call that goes on with its own or leaves
\* it astray or stopped.
LEMMA KeepsUsed ==
  ASSUME TInv, RunningIsUsed, NEW t \in Tasks,
         astray \subseteq astray', underway \subseteq underway',
         \A s \in Sandboxes : sandbox'[s] = "running" => sandbox[s] = "running",
         \A u \in Tasks \ {t} : Unmoved(u),
         \/ ~Using(t)
         \/ Using(t)' /\ ws'[t] = ws[t]
         \/ ws[t] \in Sandboxes =>
                \/ ws[t] \in astray' \/ sandbox'[ws[t]] # "running"
                \/ \E r \in underway' : r.sandbox = ws[t]
  PROVE  RunningIsUsed'
  BY DEF RunningIsUsed, Using, Unmoved

\* A step that wakes or makes one sandbox, which the call goes on to use.
LEMMA TakesIntoUse ==
  ASSUME TInv, RunningIsUsed, NEW t \in Tasks, NEW s \in Sandboxes,
         sandbox' \in {sandbox, [sandbox EXCEPT ![s] = "running"]},
         astray' \in {astray, astray \ {s}},
         underway' = underway, ~Using(t), Using(t)', ws'[t] = s,
         \A u \in Tasks \ {t} : Unmoved(u)
  PROVE  RunningIsUsed'
  BY DEF TInv, TypeOK, RunningIsUsed, Using, Unmoved

\* What a cancelled provider request wakes is astray.
LEMMA MaybeBootedKeepsUsed ==
  ASSUME TInv, RunningIsUsed, NEW t \in Tasks, MaybeBooted(t),
         Using(t) => Using(t)', ws' = ws, underway' = underway,
         \A u \in Tasks \ {t} : Unmoved(u)
  PROVE  RunningIsUsed'
<1>1. ASSUME NEW r \in Sandboxes, sandbox'[r] = "running", sandbox[r] # "running"
      PROVE  r \in astray'
  BY <1>1 DEF MaybeBooted, TInv, TypeOK
<1>2. astray \subseteq astray'
  BY DEF MaybeBooted
<1> QED
  BY <1>1, <1>2 DEF RunningIsUsed, Using, Unmoved

\* attach() applies exit_workspace, or a failure of the provider's is recorded.
LEMMA AttachRunningIsUsed ==
  ASSUME TInv, RunningIsUsed, NEW t \in Tasks, t \in Attaches, AttachStep(t)
  PROVE  RunningIsUsed'
<1>0. \A u \in Tasks \ {t} : Unmoved(u)
  BY AttachMovesOne
<1> USE DEF TInv, TypeOK, Goto, locals, provider, history, Using
<1>1. CASE CallAttach(t) \/ LeaseReturned(t) \/ ReadHandle(t) \/ FetchTrace(t)
             \/ LeaveBody(t)
  BY <1>0, <1>1, KeepsUsed DEF CallAttach, LeaseReturned, ReadHandle, FetchTrace, LeaveBody
<1>2. CASE PersistHandle(t)
  BY <1>0, <1>2, KeepsUsed DEF PersistHandle
<1>3. CASE CheckTombstone(t) \/ AcquireLease(t)
  BY <1>0, <1>3, KeepsUsed DEF CheckTombstone, AcquireLease
<1>4. CASE Reattach(t)
  BY <1>0, <1>4, TakesIntoUse DEF Reattach, CallFits
<1>5. CASE BootFresh(t)
  BY <1>0, <1>5, TakesIntoUse DEF BootFresh
<1>6. CASE LoseWorkspace(t)
  BY <1>0, <1>6, KeepsUsed DEF LoseWorkspace, Raise
<1>11. CASE FactoryFails(t)
  BY <1>0, <1>11, MaybeBootedKeepsUsed DEF FactoryFails, Raise
<1>7. CASE ApplyExitPolicy(t)
  <2>1. CASE ws[t] \notin Sandboxes \/ opts[t].exit = "keep_alive"
    <3>1. /\ UNCHANGED <<sandbox, underway>> /\ astray \subseteq astray'
          /\ ws[t] \in Sandboxes => ws[t] \in astray'
      BY <1>7, <2>1 DEF ApplyExitPolicy, NoSandbox, Sandboxes
    <3> QED
      BY <1>0, <3>1, KeepsUsed
  <2>2. CASE ws[t] \in Sandboxes /\ opts[t].exit # "keep_alive"
    <3>1. Carry(opts[t].exit, ws[t])
      BY <1>7, <2>2 DEF ApplyExitPolicy, NoSandbox, Sandboxes
    <3>2. /\ \A s \in Sandboxes : sandbox'[s] = "running" => sandbox[s] = "running"
          /\ astray \subseteq astray'
          /\ ws[t] \in astray' \/ sandbox'[ws[t]] # "running"
      BY <2>2, <3>1, CarryTypes
    <3> QED
      BY <1>0, <1>7, <3>2, KeepsUsed DEF ApplyExitPolicy
  <2> QED
    BY <2>1, <2>2
<1>8. CASE ReleaseLease(t) \/ AcquireFails(t)
  BY <1>0, <1>8, KeepsUsed DEF ReleaseLease, AcquireFails
<1>9. CASE StoreFailsAttach(t)
  BY <1>0, <1>9, KeepsUsed DEF StoreFailsAttach
<1>10. CASE CancelAttach(t)
  <2>1. CASE pc[t] \in {"check", "release"} /\ UNCHANGED <<provider, astray>>
    BY <1>0, <2>1, KeepsUsed
  <2>2. CASE MaybeBooted(t) /\ Raise(t, "cancelled") /\ UNCHANGED underway
    BY <1>0, <2>2, MaybeBootedKeepsUsed DEF Raise
  <2>3. CASE /\ ws[t] # NoSandbox /\ opts[t].exit # "keep_alive"
             /\ StopBreaksOff(t, opts[t].exit)
             /\ UNCHANGED <<locals, sandbox>>
    <3>1. opts[t].exit \in {"pause", "terminate"}
      BY <2>3 DEF OptionRecord
    <3>2. /\ underway \subseteq underway' /\ astray \subseteq astray'
          /\ ws[t] \in astray' \/ \E r \in underway' : r.sandbox = ws[t]
      BY <2>3, <3>1, BreaksOffTypes
    <3> QED
      BY <1>0, <2>3, <3>2, KeepsUsed
  <2> QED
    BY <1>10, <2>1, <2>2, <2>3 DEF CancelAttach
<1> QED
  BY <1>1, <1>2, <1>3, <1>4, <1>5, <1>6, <1>7, <1>8, <1>9, <1>10, <1>11 DEF AttachStep, AttachProceeds

\* end() terminates the sandbox it reconnected to, or a failure is recorded.
LEMMA EndRunningIsUsed ==
  ASSUME TInv, RunningIsUsed, NEW t \in Tasks, t \in Ends, EndStep(t)
  PROVE  RunningIsUsed'
<1>0. \A u \in Tasks \ {t} : Unmoved(u)
  BY EndMovesOne
<1> USE DEF TInv, TypeOK, Goto, locals, provider, history, Using
<1>1. CASE CallEnd(t) \/ EndReadHandle(t) \/ EndDelete(t) \/ EndBury(t)
             \/ EndAcquireFails(t)
  BY <1>0, <1>1, KeepsUsed DEF CallEnd, EndReadHandle, EndDelete, EndBury, EndAcquireFails
<1>2. CASE EndCheck(t) \/ EndAcquire(t) \/ EndRelease(t)
  BY <1>0, <1>2, KeepsUsed DEF EndCheck, EndAcquire, EndRelease
<1>3. CASE EndReconnect(t)
  <2>1. CASE UNCHANGED <<ws, sandbox>>
    BY <1>0, <1>3, <2>1, KeepsUsed DEF EndReconnect
  <2>2. CASE /\ ws' = [ws EXCEPT ![t] = seen[t]] /\ Goto(t, "terminate")
             /\ sandbox' = [sandbox EXCEPT ![seen[t]] = IF ReconnectWakes THEN "running" ELSE @]
    BY <1>0, <1>3, <2>2, TakesIntoUse DEF EndReconnect, CallFits
  <2> QED
    BY <1>3, <2>1, <2>2 DEF EndReconnect
<1>4. CASE EndTerminate(t)
  <2>1. ws[t] \in Sandboxes /\ Carry("terminate", ws[t])
    BY <1>4 DEF EndTerminate, CallFits
  <2>2. /\ \A s \in Sandboxes : sandbox'[s] = "running" => sandbox[s] = "running"
        /\ astray \subseteq astray'
        /\ ws[t] \in astray' \/ sandbox'[ws[t]] # "running"
    BY <2>1, CarryTypes
  <2> QED
    BY <1>0, <1>4, <2>2, KeepsUsed DEF EndTerminate
<1>5. CASE EndBreaksOff(t)
  <2>1. CASE pc[t] = "terminate"
    <3>1. ws[t] # NoSandbox
      BY <2>1 DEF CallFits
    <3>2. /\ underway \subseteq underway' /\ astray \subseteq astray'
          /\ ws[t] \in astray' \/ \E r \in underway' : r.sandbox = ws[t]
      BY <1>5, <2>1, <3>1, BreaksOffTypes DEF EndBreaksOff
    <3> QED
      BY <1>0, <1>5, <3>2, KeepsUsed DEF EndBreaksOff
  <2>2. CASE pc[t] # "terminate"
    BY <1>0, <1>5, <2>2, KeepsUsed DEF EndBreaksOff, InHand, NoSandbox, Sandboxes
  <2> QED
    BY <2>1, <2>2
<1> QED
  BY <1>1, <1>2, <1>3, <1>4, <1>5 DEF EndStep, EndProceeds

\* Every step stops a sandbox nobody uses, or a failure is recorded.
LEMMA NextRunningIsUsed == TInv /\ RunningIsUsed /\ [Next]_vars => RunningIsUsed'
<1> SUFFICES ASSUME TInv, RunningIsUsed, [Next]_vars PROVE RunningIsUsed'
  OBVIOUS
<1>1. ASSUME NEW o \in Owners, Crash(o) PROVE RunningIsUsed'
  BY <1>1 DEF Crash, InHand, NoSandbox, Sandboxes, locals, provider, RunningIsUsed, Using,
     TInv, TypeOK
<1>2. CASE LeaseLapses
  BY <1>2 DEF LeaseLapses, locals, provider, RunningIsUsed, Using
<1>3. CASE UNCHANGED vars
  BY <1>3 DEF vars, locals, provider, history, RunningIsUsed, Using
<1>4. ASSUME NEW r \in underway, StopsLate(r) PROVE RunningIsUsed'
  <2>1. r.sandbox \in Sandboxes
    BY DEF TInv, TypeOK, Requests
  <2>2. /\ \A s \in Sandboxes : sandbox'[s] = "running" => sandbox[s] = "running"
        /\ astray \subseteq astray'
        /\ r.sandbox \in astray' \/ sandbox'[r.sandbox] # "running"
    BY <1>4, <2>1, CarryTypes DEF StopsLate, TInv
  <2> QED
    BY <1>4, <2>2 DEF StopsLate, locals, RunningIsUsed, Using
<1> QED
  BY <1>1, <1>2, <1>3, <1>4, Steps, AttachRunningIsUsed, EndRunningIsUsed

\* However attach() and end() are left, the lease is given back and the sandbox
\* stopped, except for what was to be kept and what a failure left.
THEOREM NothingLeftOverAlways == Spec => []NothingLeftOver
<1> DEFINE IInv == TInv /\ LeaseGivenBack /\ RunningIsUsed
<1>1. Init => IInv
  BY InitTInv DEF Init, L!LeaseInit, LeaseGivenBack, RunningIsUsed
<1>2. IInv /\ [Next]_vars => IInv'
  BY NextTInv, NextLeaseGivenBack, NextRunningIsUsed
<1>3. IInv => NothingLeftOver
  BY DEF NothingLeftOver, NothingLeftRunning, RunningIsUsed, Using, Running
<1> QED
  BY <1>1, <1>2, <1>3, PTL DEF Spec

-----------------------------------------------------------------------------
(***************************************************************************)
(* The lease, again: Session drives it through the operations of LeaseSpec *)
(* only, which both lease managers implement.                              *)
(***************************************************************************)

\* attach() asks, without force, and is granted the lease, refused or cut off;
\* then it releases it or goes away with it.
LEMMA AttachUsesLease ==
  ASSUME TInv, NEW t \in Tasks, t \in Attaches, AttachStep(t)
  PROVE  \/ L!Ask(t) \/ L!Refuse(t) \/ L!Abandon(t)
         \/ call[t] = "granted" /\ L!Release(t)
         \/ L!Grant(t) /\ (Reenters \/ owner = NoOwner)
         \/ UNCHANGED lease
<1>1. CASE CallAttach(t) \/ LeaseReturned(t) \/ ReadHandle(t) \/ Reattach(t)
             \/ LoseWorkspace(t) \/ BootFresh(t) \/ FetchTrace(t) \/ LeaveBody(t)
             \/ ApplyExitPolicy(t) \/ PersistHandle(t) \/ FactoryFails(t)
             \/ StoreFailsAttach(t)
  BY <1>1 DEF CallAttach, LeaseReturned, ReadHandle, Reattach, LoseWorkspace, BootFresh,
     FetchTrace, LeaveBody, ApplyExitPolicy, PersistHandle, FactoryFails, StoreFailsAttach
<1>2. CASE CheckTombstone(t) \/ AcquireLease(t) \/ AcquireFails(t) \/ CancelAttach(t)
  BY <1>2 DEF CheckTombstone, AcquireLease, AcquireFails, CancelAttach
<1>3. CASE ReleaseLease(t)
  BY <1>3 DEF ReleaseLease, TInv, CallFits, Working
<1> QED
  BY <1>1, <1>2, <1>3 DEF AttachStep, AttachProceeds

\* end() takes the lease by force or goes on without it.
LEMMA EndUsesLease ==
  ASSUME TInv, NEW t \in Tasks, t \in Ends, EndStep(t)
  PROVE  L!AskForce(t) \/ L!Seize(t) \/ L!Abandon(t) \/ L!Release(t) \/ UNCHANGED lease
<1> USE DEF TInv, TypeOK
<1>1. CASE CallEnd(t) \/ EndReadHandle(t) \/ EndReconnect(t) \/ EndTerminate(t)
             \/ EndDelete(t) \/ EndBury(t)
  BY <1>1 DEF CallEnd, EndReadHandle, EndReconnect, EndTerminate, EndDelete, EndBury
<1>2. CASE EndCheck(t) \/ EndAcquire(t) \/ EndAcquireFails(t)
  BY <1>2 DEF EndCheck, EndAcquire, EndAcquireFails
<1>3. ASSUME UNCHANGED owner, call' = [call EXCEPT ![t] = "idle"]
      PROVE  L!Abandon(t) \/ UNCHANGED lease
  BY <1>3 DEF L!Abandon, lease
<1>4. CASE EndRelease(t)
  BY <1>3, <1>4 DEF EndRelease
<1>5. CASE EndBreaksOff(t)
  BY <1>3, <1>5 DEF EndBreaksOff
<1> QED
  BY <1>1, <1>2, <1>4, <1>5 DEF EndStep, EndProceeds

\* attach() and end() use the lease as LeaseSpec allows: a step of a session is
\* an operation on the lease, or leaves it alone.
THEOREM UsesLease == Spec => L!LeaseBehaviour
<1>1. Init => L!LeaseInit
  BY DEF Init
<1>2. TInv /\ [Next]_vars => [L!LeaseNext]_(L!leaseVars)
  <2> SUFFICES ASSUME TInv, [Next]_vars PROVE L!LeaseNext \/ UNCHANGED L!leaseVars
    OBVIOUS
  <2> USE DEF L!LeaseNext, L!LeaseStep, L!leaseVars, lease
  <2>1. ASSUME NEW t \in Tasks, t \in Attaches, AttachStep(t)
        PROVE  L!LeaseNext \/ UNCHANGED L!leaseVars
    BY <2>1, AttachUsesLease
  <2>2. ASSUME NEW t \in Tasks, t \in Ends, EndStep(t)
        PROVE  L!LeaseNext \/ UNCHANGED L!leaseVars
    BY <2>2, EndUsesLease
  <2>3. ASSUME NEW o \in Owners, Crash(o) PROVE L!Die(o)
    BY <2>3 DEF Crash, L!Die
  <2>4. CASE LeaseLapses
    BY <2>4 DEF LeaseLapses
  <2>5. CASE UNCHANGED vars
    BY <2>5 DEF vars
  <2>6. ASSUME NEW r \in underway, StopsLate(r) PROVE UNCHANGED L!leaseVars
    BY <2>6 DEF StopsLate
  <2> QED
    BY <2>1, <2>2, <2>3, <2>4, <2>5, <2>6, Steps
<1> QED
  BY <1>1, <1>2, InitTInv, NextTInv, PTL DEF Spec, L!LeaseBehaviour

-----------------------------------------------------------------------------
(***************************************************************************)
(* Exclusion.  It is given up to an end(), which takes the lease by force; *)
(* to a slow holder, whose lease runs out; and to another attach of the    *)
(* same process, if the lease manager lets a process in again.             *)
(***************************************************************************)
OneAtATime == ~Reenters \/ \A t, u \in Attaches : OwnerOf[t] = OwnerOf[u] => t = u

EndsHoldOff == \A e \in Ends : pc[e] \in {"idle", "check"}

\* Whoever was granted the lease still has it, and nobody else was.
SoleHolder ==
    hasLease /\ EndsHoldOff =>
        /\ \A t \in Attaches : call[t] = "granted" => owner = OwnerOf[t]
        /\ \A t, u \in Attaches : call[t] = "granted" /\ call[u] = "granted" => t = u

\* An end() that has gone past its check never comes back to it.
LEMMA HeldOffBefore ==
  ASSUME TInv, [Next]_vars, EndsHoldOff'
  PROVE  EndsHoldOff /\ \A t \in Ends : EndStep(t) => UNCHANGED lease
<1> USE DEF EndsHoldOff
<1>1. ASSUME NEW t \in Tasks, t \in Attaches, AttachStep(t) PROVE EndsHoldOff
  BY <1>1, AttachMovesOne, SessionAssumption DEF Unmoved, Tasks
<1>2. ASSUME NEW t \in Tasks, t \in Ends, EndStep(t) PROVE pc[t] = "idle" /\ UNCHANGED lease
  BY <1>2 DEF EndStep, EndProceeds, CallEnd, EndCheck, EndAcquire, EndAcquireFails,
     EndReadHandle, EndReconnect, EndTerminate, EndDelete, EndBury, EndRelease, EndBreaksOff,
     Leave, Goto, Running, TInv, TypeOK
<1>3. ASSUME NEW t \in Tasks, t \in Ends, EndStep(t) PROVE EndsHoldOff
  BY <1>2, <1>3, EndMovesOne DEF Unmoved, Tasks
<1>4. ASSUME NEW o \in Owners, Crash(o) PROVE EndsHoldOff
  BY <1>4 DEF Crash, Tasks
<1>5. ASSUME LeaseLapses \/ (\E r \in underway : StopsLate(r)) \/ UNCHANGED vars
      PROVE  EndsHoldOff
  BY <1>5 DEF LeaseLapses, StopsLate, vars
<1> QED
  BY <1>1, <1>2, <1>3, <1>4, <1>5, Steps DEF Tasks

\* Neither call touches the configuration.
LEMMA SameConfig ==
  ASSUME [Next]_vars
  PROVE  hasLease' = hasLease
<1>1. ASSUME NEW t \in Attaches, AttachStep(t) PROVE hasLease' = hasLease
  BY <1>1 DEF AttachStep, AttachProceeds, CallAttach, CheckTombstone, AcquireLease,
     LeaseReturned, ReadHandle, Reattach, LoseWorkspace, BootFresh, FetchTrace, LeaveBody,
     ApplyExitPolicy, ReleaseLease, PersistHandle, FactoryFails, StoreFailsAttach,
     AcquireFails, CancelAttach
<1>2. ASSUME NEW t \in Ends, EndStep(t) PROVE hasLease' = hasLease
  BY <1>2 DEF EndStep, EndProceeds, CallEnd, EndCheck, EndAcquire, EndAcquireFails,
     EndReadHandle, EndReconnect, EndTerminate, EndDelete, EndBury, EndRelease, EndBreaksOff
<1>3. ASSUME NEW o \in Owners, Crash(o) PROVE hasLease' = hasLease
  BY <1>3 DEF Crash
<1>4. ASSUME NEW r \in underway, StopsLate(r) PROVE hasLease' = hasLease
  BY <1>4 DEF StopsLate
<1>5. CASE LeaseLapses \/ UNCHANGED vars
  BY <1>5 DEF LeaseLapses, vars
<1> QED
  BY <1>1, <1>2, <1>3, <1>4, <1>5, Steps

\* A grant needs a free lease, a lapse one whose holder is gone.
LEMMA NextSoleHolder ==
  ASSUME OneAtATime, "slow" \notin Faults, TInv, SoleHolder, [Next]_vars
  PROVE  SoleHolder'
<1> SUFFICES ASSUME hasLease', EndsHoldOff'
             PROVE  /\ \A t \in Attaches : call'[t] = "granted" => owner' = OwnerOf[t]
                    /\ \A t, u \in Attaches :
                          call'[t] = "granted" /\ call'[u] = "granted" => t = u
  BY DEF SoleHolder
<1>1. hasLease' = hasLease
  BY SameConfig
<1>2. /\ \A t \in Attaches : call[t] = "granted" => owner = OwnerOf[t]
      /\ \A t, u \in Attaches : call[t] = "granted" /\ call[u] = "granted" => t = u
      /\ \A t \in Ends : EndStep(t) => UNCHANGED lease
  BY <1>1, HeldOffBefore DEF SoleHolder
<1> USE DEF TInv, TypeOK, lease, Tasks
<1>3. ASSUME NEW t \in Tasks, t \in Attaches, AttachStep(t)
      PROVE  SoleHolder'
  <2>1. CASE L!Grant(t) /\ (Reenters \/ owner = NoOwner)
    BY <1>2, <2>1, SessionAssumption DEF SoleHolder, L!Grant, OneAtATime
  <2>2. CASE L!Ask(t) \/ L!Refuse(t) \/ L!Abandon(t)
    BY <1>2, <2>2 DEF SoleHolder, L!Ask, L!Refuse, L!Abandon
  <2>3. CASE call[t] = "granted" /\ L!Release(t)
    BY <1>2, <2>3, AttachMovesOne, <1>3 DEF SoleHolder, L!Release
  <2>4. CASE UNCHANGED lease
    BY <1>2, <2>4 DEF SoleHolder
  <2> QED
    BY <1>3, <2>1, <2>2, <2>3, <2>4, AttachUsesLease
<1>4. ASSUME NEW o \in Owners, Crash(o) PROVE SoleHolder'
  BY <1>2, <1>4 DEF Crash, SoleHolder
<1>5. CASE LeaseLapses
  BY <1>2, <1>5 DEF LeaseLapses, May, L!Lapse
<1>6. CASE UNCHANGED vars
  BY <1>2, <1>6 DEF vars
<1>7. ASSUME NEW r \in underway, StopsLate(r) PROVE SoleHolder'
  BY <1>2, <1>7 DEF StopsLate, SoleHolder
<1> QED
  BY <1>1, <1>2, <1>3, <1>4, <1>5, <1>6, <1>7, Steps DEF SoleHolder

\* Over a lease manager that lets no process in twice, or with one attach() to a
\* process, and with holders that are never slower than their lease: until an
\* end() sets out, two calls of attach() never work on the session together,
\* crashes and failures included.
THEOREM ExclusiveUntilAnEnd ==
  ASSUME OneAtATime, "slow" \notin Faults
  PROVE  Spec => [](EndsHoldOff => ExclusiveAttach)
<1> DEFINE IInv == TInv /\ SoleHolder
<1>1. Init => IInv
  BY InitTInv DEF Init, L!LeaseInit, SoleHolder, Tasks
<1>2. IInv /\ [Next]_vars => IInv'
  BY NextTInv, NextSoleHolder
<1>3. IInv => (EndsHoldOff => ExclusiveAttach)
  BY DEF ExclusiveAttach, SoleHolder, TInv, CallFits, Tasks
<1> QED
  BY <1>1, <1>2, <1>3, PTL DEF Spec

\* A session that only attaches: exclusion for good.
THEOREM ExclusiveAttachAlways ==
  ASSUME OneAtATime, "slow" \notin Faults, Ends = {}
  PROVE  Spec => []ExclusiveAttach
<1>1. EndsHoldOff
  BY DEF EndsHoldOff
<1> QED
  BY <1>1, ExclusiveUntilAnEnd, PTL

-----------------------------------------------------------------------------
(***************************************************************************)
(* The tombstone.  With a single end() nothing removes it once that call   *)
(* is past its own put.                                                    *)
(***************************************************************************)
OneEnd == \A e, f \in Ends : e = f

TombstoneStands ==
    /\ \A e \in Ends : pc[e] = "release" \/ (pc[e] = "done" /\ outcome[e] = "ok") => ended
    /\ calledLate # {} => EndReturned
    /\ LateAttachRefused

\* attach() leaves the tombstone alone, and a late one reads it.
LEMMA AttachTombstone ==
  ASSUME TInv, TombstoneStands, NEW t \in Tasks, t \in Attaches, AttachStep(t)
  PROVE  TombstoneStands'
<1>1. ended' = ended
  BY DEF AttachStep, AttachProceeds, CallAttach, CheckTombstone, AcquireLease, store,
     LeaseReturned, ReadHandle, Reattach, LoseWorkspace, BootFresh, FetchTrace, LeaveBody,
     ApplyExitPolicy, ReleaseLease, PersistHandle, FactoryFails, StoreFailsAttach,
     AcquireFails, CancelAttach
<1>2. \A u \in Tasks \ {t} : Unmoved(u)
  BY AttachMovesOne
<1>3. \A e \in Ends : e \in Tasks \ {t}
  BY SessionAssumption DEF Tasks
<1>4. EndReturned => EndReturned'
  BY <1>2, <1>3 DEF EndReturned, Unmoved
<1>5. CASE CallAttach(t)
  <2>1. pc'[t] = "check" /\ (calledLate' = calledLate \/ EndReturned)
    BY <1>5 DEF CallAttach, Goto, TInv, TypeOK
  <2>2. calledLate' \subseteq calledLate \cup {t}
    BY <1>5 DEF CallAttach
  <2> QED
    BY <1>1, <1>2, <1>3, <1>4, <2>1, <2>2 DEF TombstoneStands, LateAttachRefused, Unmoved,
       TInv, TypeOK, Tasks
<1>6. CASE ~CallAttach(t)
  <2>1. calledLate' = calledLate
    BY <1>6 DEF AttachStep, AttachProceeds, CheckTombstone, AcquireLease, history,
       LeaseReturned, ReadHandle, Reattach, LoseWorkspace, BootFresh, FetchTrace, LeaveBody,
       ApplyExitPolicy, ReleaseLease, PersistHandle, FactoryFails, StoreFailsAttach,
       AcquireFails, CancelAttach
  <2>2. ASSUME t \in calledLate PROVE pc'[t] = "done"
    <3>1. ended /\ pc[t] \in {"check", "done", "dead"}
      BY <2>2 DEF TombstoneStands, EndReturned, LateAttachRefused
    <3>2. CASE CheckTombstone(t)
      BY <3>1, <3>2 DEF CheckTombstone, Leave, Goto, TInv, TypeOK
    <3>3. CASE StoreFailsAttach(t)
      BY <3>1, <3>3 DEF StoreFailsAttach, Leave, Goto, TInv, TypeOK
    <3>4. CASE CancelAttach(t)
      BY <3>1, <3>4 DEF CancelAttach, Leave, Goto, TryBlock, TInv, TypeOK
    <3>5. QED
      BY <1>6, <3>1, <3>2, <3>3, <3>4 DEF AttachStep, AttachProceeds, AcquireLease,
         LeaseReturned, ReadHandle, Reattach, LoseWorkspace, BootFresh, FetchTrace, LeaveBody,
         ApplyExitPolicy, ReleaseLease, PersistHandle, FactoryFails, AcquireFails
  <2> QED
    BY <1>1, <1>2, <1>3, <1>4, <2>1, <2>2 DEF TombstoneStands, LateAttachRefused, Unmoved,
       TInv, TypeOK, Tasks
<1> QED
  BY <1>5, <1>6

\* The one end() is past its put before it returns, and before it no attach is
\* late.
LEMMA EndTombstone ==
  ASSUME OneEnd, TInv, TombstoneStands, NEW t \in Tasks, t \in Ends, EndStep(t)
  PROVE  TombstoneStands'
<1>1. calledLate' = calledLate
  BY DEF EndStep, EndProceeds, CallEnd, EndCheck, EndAcquire, EndAcquireFails, EndReadHandle,
     EndReconnect, EndTerminate, EndDelete, EndBury, EndRelease, EndBreaksOff, history
<1>2. pc[t] # "done"
  BY DEF EndStep, EndProceeds, CallEnd, EndCheck, EndAcquire, EndAcquireFails, EndReadHandle,
     EndReconnect, EndTerminate, EndDelete, EndBury, EndRelease, EndBreaksOff, Running
<1>3. calledLate = {}
  BY <1>2 DEF OneEnd, TombstoneStands, EndReturned
<1>4. pc'[t] = "release" \/ (pc'[t] = "done" /\ outcome'[t] = "ok") => ended'
  <2> USE DEF Goto, Leave, TInv, TypeOK, store
  <2>1. CASE CallEnd(t) \/ EndAcquire(t) \/ EndAcquireFails(t) \/ EndReadHandle(t)
               \/ EndReconnect(t) \/ EndTerminate(t) \/ EndDelete(t)
    BY <2>1 DEF CallEnd, EndAcquire, EndAcquireFails, EndReadHandle, EndReconnect,
       EndTerminate, EndDelete
  <2>2. CASE EndCheck(t) \/ EndBury(t) \/ EndBreaksOff(t)
    BY <2>2 DEF EndCheck, EndBury, EndBreaksOff
  <2>3. CASE EndRelease(t)
    BY <2>3 DEF EndRelease, TombstoneStands
  <2> QED
    BY <2>1, <2>2, <2>3 DEF EndStep, EndProceeds
<1> QED
  BY <1>1, <1>3, <1>4 DEF OneEnd, TombstoneStands, LateAttachRefused

\* Once the only end() of a session has returned, an attach() called after that
\* gets no further than the tombstone.
THEOREM LateAttachRefusedAlways ==
  ASSUME OneEnd
  PROVE  Spec => []LateAttachRefused
<1> DEFINE IInv == TInv /\ TombstoneStands
<1>1. Init => IInv
  BY InitTInv DEF Init, TombstoneStands, LateAttachRefused, Tasks
<1>2. IInv /\ [Next]_vars => IInv'
  <2> SUFFICES ASSUME TInv, TombstoneStands, [Next]_vars PROVE TombstoneStands'
    BY NextTInv
  <2>1. ASSUME NEW o \in Owners, Crash(o) PROVE TombstoneStands'
    BY <2>1 DEF Crash, store, TombstoneStands, EndReturned, LateAttachRefused, Tasks, TInv, TypeOK
  <2>2. CASE LeaseLapses
    BY <2>2 DEF LeaseLapses, store, TombstoneStands, EndReturned, LateAttachRefused
  <2>3. CASE UNCHANGED vars
    BY <2>3 DEF vars, store, history, TombstoneStands, EndReturned, LateAttachRefused
  <2>4. ASSUME NEW r \in underway, StopsLate(r) PROVE TombstoneStands'
    BY <2>4 DEF StopsLate, store, TombstoneStands, EndReturned, LateAttachRefused
  <2> QED
    BY <2>1, <2>2, <2>3, <2>4, Steps, AttachTombstone, EndTombstone
<1>3. IInv => LateAttachRefused
  BY DEF TombstoneStands
<1> QED
  BY <1>1, <1>2, <1>3, PTL DEF Spec
=============================================================================
