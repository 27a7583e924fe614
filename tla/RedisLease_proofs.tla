-------------------------- MODULE RedisLease_proofs --------------------------
(***************************************************************************)
(* Theorems about RedisLease, for every set of tasks and owners, every     *)
(* TTL, wait and number of calls.                                          *)
(***************************************************************************)
EXTENDS RedisLease, TLAPS

\* A new RedisLease has its types.
THEOREM InitTypeOK == Init => TypeOK
  BY RedisAssumption DEF Init, TypeOK, Modes

\* Every step keeps every variable in its type; the key is there exactly as
\* long as its time to live.
THEOREM NextTypeOK == TypeOK /\ [Next]_vars => TypeOK'
<1> SUFFICES ASSUME TypeOK, [Next]_vars PROVE TypeOK'
  OBVIOUS
<1> USE RedisAssumption DEF TypeOK, Modes, Awaiting, Goto, Leave, Claim
<1>1. CASE UNCHANGED vars
  BY <1>1 DEF vars
<1>2. CASE Tick
  BY <1>2 DEF Tick, Dec
<1>3. ASSUME NEW t \in Tasks, TaskStep(t) PROVE TypeOK'
  <2>1. ASSUME NEW m \in Modes, Acquire(t, m) PROVE TypeOK'
    <3>1. calls' \in 0..MaxCalls
      BY <2>1 DEF Acquire
    <3>2. QED
      BY <2>1, <3>1 DEF Acquire
  <2>2. CASE TrySet(t)
    <3>1. CASE Vacant
      BY <2>2, <3>1 DEF TrySet
    <3>2. CASE ~Vacant
      BY <2>2, <3>2 DEF TrySet
    <3>3. QED
      BY <3>1, <3>2
  <2>3. CASE ForceSet(t)
    BY <2>3 DEF ForceSet
  <2>4. CASE Incr(t)
    BY <2>4 DEF Incr
  <2>5. CASE GetOwner(t)
    <3>1. CASE GivesUp(t)
      BY <2>5, <3>1 DEF GetOwner
    <3>2. CASE ~GivesUp(t)
      BY <2>5, <3>2 DEF GetOwner
    <3>3. QED
      BY <3>1, <3>2
  <2>6. CASE Cancel(t)
    BY <2>6 DEF Cancel
  <2>7. CASE Renew(t)
    BY <2>7 DEF Renew, Owned
  <2>8. CASE Release(t)
    BY <2>8 DEF Release
  <2>9. CASE Abandon(t)
    BY <2>9 DEF Abandon
  <2>10. QED
    BY <1>3, <2>1, <2>2, <2>3, <2>4, <2>5, <2>6, <2>7, <2>8, <2>9
    DEF TaskStep, Answer
<1>4. QED
  BY <1>1, <1>2, <1>3 DEF Next

\* Every variable of a RedisLease always has its type.
THEOREM TypeCorrect == Spec => []TypeOK
  BY InitTypeOK, NextTypeOK, PTL DEF Spec

-----------------------------------------------------------------------------
(***************************************************************************)
(* The inductive invariant of GenerationsUnique: no generation is above    *)
(* the counter, so that INCR always gives a new one, whatever the SETs of  *)
(* other processes did in between.                                         *)
(***************************************************************************)
GInv ==
    /\ TypeOK
    /\ \A t \in Tasks : lease[t] <= genKey
    /\ GenerationsUnique

\* No Lease has been granted at the start.
THEOREM InitGInv == Init => GInv
  BY InitTypeOK DEF Init, GInv, GenerationsUnique

\* INCR is the only command that hands out a generation, a new one each time.
THEOREM NextGInv == GInv /\ [Next]_vars => GInv'
<1> SUFFICES ASSUME GInv, [Next]_vars PROVE GInv'
  OBVIOUS
<1>t. TypeOK'
  BY NextTypeOK DEF GInv
<1>1. CASE UNCHANGED <<genKey, lease>>
  BY <1>t, <1>1 DEF GInv, GenerationsUnique
<1>2. ASSUME NEW t \in Tasks, Incr(t) PROVE GInv'
  <2>1. genKey' = genKey + 1 /\ genKey \in Nat
    BY <1>2 DEF Incr, GInv, TypeOK
  <2>2. \A u \in Tasks : lease'[u] = IF u = t THEN genKey' ELSE lease[u]
    BY <1>2 DEF Incr, GInv, TypeOK
  <2>3. \A u \in Tasks : lease[u] \in Nat /\ lease[u] <= genKey
    BY DEF GInv, TypeOK
  <2>4. QED
    BY <1>t, <2>1, <2>2, <2>3 DEF GInv, GenerationsUnique
<1>3. QED
  BY <1>1, <1>2 DEF Next, vars, Tick, TaskStep, Answer, Acquire, TrySet, ForceSet,
                    GetOwner, Cancel, Renew, Release, Abandon

\* No two Leases of a session ever carry the same generation.
THEOREM GenerationsUniqueAlways == Spec => []GenerationsUnique
<1>1. GInv => GenerationsUnique
  BY DEF GInv
<1>2. QED
  BY <1>1, InitGInv, NextGInv, PTL DEF Spec

-----------------------------------------------------------------------------
(***************************************************************************)
(* RedisLease implements LeaseSpec.  The mapping needs to know which       *)
(* commands a forced call sends.                                           *)
(***************************************************************************)
ModesFit ==
    \A t \in Tasks :
        /\ pc[t] = "set" => mode[t] = "force"
        /\ pc[t] = "get" => mode[t] # "force"

\* Every step leaves each task at a command its kind of call sends.
THEOREM NextModesFit == TypeOK /\ ModesFit /\ [Next]_vars => ModesFit'
<1> SUFFICES ASSUME TypeOK, ModesFit, [Next]_vars, NEW u \in Tasks
             PROVE  /\ pc'[u] = "set" => mode'[u] = "force"
                    /\ pc'[u] = "get" => mode'[u] # "force"
  BY DEF ModesFit
<1> USE DEF TypeOK, ModesFit, Goto, Leave
<1>1. CASE UNCHANGED <<pc, mode>>
  BY <1>1
<1>2. ASSUME NEW t \in Tasks, TaskStep(t)
      PROVE  /\ pc'[u] = "set" => mode'[u] = "force"
             /\ pc'[u] = "get" => mode'[u] # "force"
  <2>1. ASSUME NEW m \in Modes, Acquire(t, m)
        PROVE  /\ pc'[u] = "set" => mode'[u] = "force"
               /\ pc'[u] = "get" => mode'[u] # "force"
    BY <2>1 DEF Acquire
  <2>2. CASE TrySet(t)
    BY <2>2 DEF TrySet
  <2>3. CASE ForceSet(t) \/ Incr(t) \/ Cancel(t) \/ Release(t) \/ Abandon(t)
    BY <2>3 DEF ForceSet, Incr, Cancel, Release, Abandon
  <2>4. CASE GetOwner(t)
    BY <2>4 DEF GetOwner
  <2>5. CASE Renew(t)
    BY <2>5 DEF Renew
  <2>6. QED
    BY <1>2, <2>1, <2>2, <2>3, <2>4, <2>5 DEF TaskStep, Answer
<1>3. QED
  BY <1>1, <1>2 DEF Next, vars, Tick

\* A step of one task changes the abstract call of that task only.
LEMMA CallOfMoves ==
  ASSUME TypeOK, NEW t \in Tasks,
         \A u \in Tasks \ {t} : pc'[u] = pc[u] /\ mode'[u] = mode[u]
  PROVE  [u \in Tasks |-> CallOf(u)]'
           = [[u \in Tasks |-> CallOf(u)] EXCEPT ![t] = CallOf(t)']
<1>1. \A u \in Tasks : u # t => CallOf(u)' = CallOf(u)
  BY DEF CallOf, Holding
<1> HIDE DEF CallOf
<1>2. QED
  BY <1>1

\* RedisLease keeps what a LeaseManager promises, command by command.
THEOREM Implements == Spec => RefinesLease
<1> USE RedisAssumption
<1>1. Init => Abstract!LeaseInit /\ ModesFit
  BY DEF Init, Abstract!LeaseInit, CallOf, Holding, ModesFit
<1>2. TypeOK /\ ModesFit /\ [Next]_vars
        => [Abstract!LeaseNext]_(Abstract!leaseVars)
  <2> SUFFICES ASSUME TypeOK, ModesFit, [Next]_vars
               PROVE  Abstract!LeaseNext \/ UNCHANGED Abstract!leaseVars
    OBVIOUS
  <2>1. CASE UNCHANGED vars
    BY <2>1 DEF vars, Abstract!leaseVars, CallOf, Holding
  <2>2. CASE Tick
    <3>1. UNCHANGED [t \in Tasks |-> CallOf(t)]
      BY <2>2 DEF Tick, CallOf, Holding
    <3>2. UNCHANGED key \/ (key # NoOwner /\ key' = NoOwner)
      BY <2>2 DEF Tick, TypeOK
    <3>3. QED
      BY <3>1, <3>2 DEF Abstract!LeaseNext, Abstract!Lapse, Abstract!leaseVars
  <2>3. ASSUME NEW t \in Tasks, TaskStep(t)
        PROVE  Abstract!LeaseStep(t) \/ UNCHANGED Abstract!leaseVars
    <3>0. [u \in Tasks |-> CallOf(u)][t] = CallOf(t)
      OBVIOUS
    <3>c. [u \in Tasks |-> CallOf(u)]'
             = [[u \in Tasks |-> CallOf(u)] EXCEPT ![t] = CallOf(t)']
      <4>1. \A u \in Tasks \ {t} : pc'[u] = pc[u] /\ mode'[u] = mode[u]
        BY <2>3 DEF TypeOK, TaskStep, Answer, Acquire, TrySet, ForceSet, Incr,
                    GetOwner, Cancel, Renew, Release, Abandon, Goto, Leave
      <4>2. QED
        BY <4>1, CallOfMoves
    <3>d. CallOf(t)' = CallOf(t) => UNCHANGED [u \in Tasks |-> CallOf(u)]
      BY <3>c
    <3>1. ASSUME NEW m \in Modes, Acquire(t, m)
          PROVE  Abstract!LeaseStep(t)
      <4>1. CallOf(t) = "idle" /\ CallOf(t)' = IF m = "force" THEN "forcing" ELSE "acquiring"
        BY <3>1 DEF Acquire, Goto, CallOf, Holding, TypeOK
      <4>2. QED
        BY <3>0, <3>c, <3>1, <4>1
        DEF Acquire, Abstract!LeaseStep, Abstract!Ask, Abstract!AskForce
    <3>2. CASE TrySet(t) /\ Vacant
      <4>1. /\ CallOf(t) = IF mode[t] = "force" THEN "forcing" ELSE "acquiring"
            /\ CallOf(t)' = "granted"
        BY <3>2 DEF TrySet, Goto, CallOf, Holding, TypeOK
      <4>2. key = NoOwner /\ key' = OwnerOf[t]
        BY <3>2 DEF TrySet, Vacant, Claim
      <4>3. QED
        BY <3>0, <3>c, <4>1, <4>2
        DEF Abstract!LeaseStep, Abstract!Grant, Abstract!Seize
    <3>3. CASE TrySet(t) /\ ~Vacant
      <4>1. key # NoOwner /\ UNCHANGED key
        BY <3>3 DEF TrySet, Vacant
      <4>2. CASE mode[t] = "force"
        <5>1. CallOf(t)' = CallOf(t)
          BY <3>3, <4>2 DEF TrySet, Goto, CallOf, Holding, TypeOK
        <5>2. QED
          BY <3>d, <4>1, <5>1 DEF Abstract!leaseVars
      <4>3. CASE mode[t] # "force"
        <5>1. CallOf(t) = "acquiring" /\ CallOf(t)' = "contended"
          BY <3>3, <4>3 DEF TrySet, Goto, CallOf, Holding, TypeOK
        <5>2. QED
          BY <3>0, <3>c, <4>1, <5>1 DEF Abstract!LeaseStep, Abstract!Contend
      <4>4. QED
        BY <4>2, <4>3
    <3>4. CASE ForceSet(t)
      <4>1. CallOf(t) = "forcing" /\ CallOf(t)' = "granted"
        BY <3>4 DEF ForceSet, Goto, CallOf, Holding, TypeOK, ModesFit
      <4>2. key' = OwnerOf[t]
        BY <3>4 DEF ForceSet, Claim
      <4>3. QED
        BY <3>0, <3>c, <4>1, <4>2 DEF Abstract!LeaseStep, Abstract!Seize
    <3>5. CASE Incr(t)
      <4>1. CallOf(t)' = CallOf(t) /\ UNCHANGED key
        BY <3>5 DEF Incr, Leave, Goto, CallOf, Holding, TypeOK
      <4>2. QED
        BY <3>d, <4>1 DEF Abstract!leaseVars
    <3>6. CASE GetOwner(t)
      <4>1. CallOf(t) = "contended" /\ UNCHANGED key
        BY <3>6 DEF GetOwner, CallOf, Holding
      <4>2. CallOf(t)' = IF GivesUp(t) THEN "idle" ELSE "acquiring"
        BY <3>6 DEF GetOwner, Leave, Goto, CallOf, Holding, TypeOK, ModesFit
      <4>3. QED
        BY <3>0, <3>c, <4>1, <4>2
        DEF Abstract!LeaseStep, Abstract!Refuse, Abstract!Retry
    <3>7. ASSUME Cancel(t) \/ Abandon(t) PROVE Abstract!LeaseStep(t)
      <4>1. CallOf(t) # "idle" /\ CallOf(t)' = "idle"
        BY <3>7 DEF Cancel, Abandon, Awaiting, Leave, Goto, CallOf, Holding, TypeOK,
                    ModesFit
      <4>2. UNCHANGED key
        BY <3>7 DEF Cancel, Abandon
      <4>3. QED
        BY <3>0, <3>c, <4>1, <4>2 DEF Abstract!LeaseStep, Abstract!Abandon
    <3>8. CASE Renew(t)
      <4>1. CallOf(t)' = CallOf(t)
        BY <3>8 DEF Renew, Goto, CallOf, Holding, TypeOK
      <4>2. UNCHANGED key
        BY <3>8 DEF Renew
      <4>3. QED
        BY <3>d, <4>1, <4>2 DEF Abstract!leaseVars
    <3>9. CASE Release(t)
      <4>1. CallOf(t) = "granted" /\ CallOf(t)' = "idle"
        BY <3>9 DEF Release, Goto, CallOf, Holding, TypeOK
      <4>2. key' = IF key = OwnerOf[t] THEN NoOwner ELSE key
        BY <3>9 DEF Release, Owned
      <4>3. QED
        BY <3>0, <3>c, <4>1, <4>2 DEF Abstract!LeaseStep, Abstract!Release
    <3>10. QED
      BY <2>3, <3>1, <3>2, <3>3, <3>4, <3>5, <3>6, <3>7, <3>8, <3>9
      DEF TaskStep, Answer
  <2>4. QED
    BY <2>1, <2>2, <2>3 DEF Next, Abstract!LeaseNext
<1>3. QED
  BY <1>1, <1>2, InitTypeOK, NextTypeOK, NextModesFit, PTL
  DEF Spec, RefinesLease, Abstract!LeaseBehaviour
=============================================================================
