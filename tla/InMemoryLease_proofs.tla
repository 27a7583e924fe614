------------------------ MODULE InMemoryLease_proofs ------------------------
(***************************************************************************)
(* Theorems about InMemoryLease, for every set of tasks and owners, every  *)
(* TTL, wait and number of calls.                                          *)
(***************************************************************************)
EXTENDS InMemoryLease, TLAPS

\* A new InMemoryLease has its types.
THEOREM InitTypeOK == Init => TypeOK
  BY InMemoryAssumption DEF Init, TypeOK, Entry, NoEntry

\* Every step keeps every variable in its type.
THEOREM NextTypeOK == TypeOK /\ [Next]_vars => TypeOK'
<1> SUFFICES ASSUME TypeOK, [Next]_vars PROVE TypeOK'
  OBVIOUS
<1> USE InMemoryAssumption DEF TypeOK, Entry, Modes
<1>1. CASE UNCHANGED vars
  BY <1>1 DEF vars
<1>2. CASE Tick
  BY <1>2 DEF Tick, Dec
<1>3. ASSUME NEW t \in Tasks, TaskStep(t) PROVE TypeOK'
  <2>1. ASSUME NEW m \in Modes, Acquire(t, m) PROVE TypeOK'
    <3>1. calls' \in 0..MaxCalls
      BY <2>1 DEF Acquire
    <3>2. QED
      BY <2>1, <3>1 DEF Acquire
  <2>2. CASE Take(t)
    BY <2>2 DEF Take
  <2>3. CASE RaiseHeld(t)
    BY <2>3 DEF RaiseHeld
  <2>4. CASE Cancel(t)
    BY <2>4 DEF Cancel
  <2>5. CASE Renew(t)
    BY <2>5 DEF Renew
  <2>6. CASE RenewRaises(t)
    BY <2>6 DEF RenewRaises
  <2>7. CASE Release(t)
    BY <2>7 DEF Release, NoEntry
  <2>8. CASE Abandon(t)
    BY <2>8 DEF Abandon
  <2>9. QED
    BY <1>3, <2>1, <2>2, <2>3, <2>4, <2>5, <2>6, <2>7, <2>8 DEF TaskStep, Poll
<1>4. QED
  BY <1>1, <1>2, <1>3 DEF Next

\* Every variable of an InMemoryLease always has its type.
THEOREM TypeCorrect == Spec => []TypeOK
  BY InitTypeOK, NextTypeOK, PTL DEF Spec

-----------------------------------------------------------------------------
(***************************************************************************)
(* The inductive invariant.  GenerationsFence is inductive by itself, but  *)
(* a renewal may lengthen the view of a holder whose view has run out, of  *)
(* which HolderUnlessSuperseded says nothing: EntryWasGiven fills the gap. *)
(***************************************************************************)

\* A recorded entry was given to a task of its owner, the newest grant.
EntryWasGiven ==
    entry.owner # NoOwner =>
        \E t \in Tasks : OwnerOf[t] = entry.owner /\ lease[t] = generations

IInv == TypeOK /\ GenerationsFence /\ EntryWasGiven /\ HolderUnlessSuperseded

\* The other steps leave the grants, and the owner of the entry, alone.
LEMMA GrantsUnchanged ==
  ASSUME IInv, UNCHANGED <<generations, lease>>,
         entry'.owner = entry.owner /\ entry'.gen = entry.gen
  PROVE  GenerationsFence' /\ EntryWasGiven'
  BY DEF IInv, GenerationsFence, EntryWasGiven

\* A task alone in its process that sees its process recorded has the newest
\* grant, and the entry carries it.
LEMMA SoloOwner ==
  ASSUME IInv, NEW t \in Tasks, Solo(t), entry.owner = OwnerOf[t]
  PROVE  lease[t] = generations /\ entry.gen = lease[t]
  BY InMemoryAssumption DEF IInv, TypeOK, GenerationsFence, EntryWasGiven, Solo

\* No Lease has been granted at the start.
THEOREM InitIInv == Init => IInv
  BY InitTypeOK, InMemoryAssumption
  DEF Init, IInv, GenerationsFence, EntryWasGiven, HolderUnlessSuperseded,
      NoEntry, Holding

\* A grant is newer than all earlier ones.
LEMMA TakeIInv ==
  ASSUME IInv, NEW t \in Tasks, Take(t)
  PROVE  GenerationsFence' /\ EntryWasGiven' /\ HolderUnlessSuperseded'
<1> USE InMemoryAssumption DEF IInv, TypeOK, Entry
<1>1. \A u \in Tasks : lease'[u] = IF u = t THEN generations' ELSE lease[u]
  BY DEF Take
<1>2. generations' = generations + 1 /\ generations \in Nat
  BY DEF Take
<1>3. entry'.owner = OwnerOf[t] /\ entry'.gen = generations' /\ entry'.left = TTL
  BY DEF Take
<1>4. \A u \in Tasks : lease[u] <= generations /\ lease[u] \in Nat
  BY DEF GenerationsFence
<1>5. GenerationsFence'
  BY <1>1, <1>2, <1>3, <1>4 DEF GenerationsFence
<1>6. EntryWasGiven'
  BY <1>1, <1>3 DEF EntryWasGiven
<1>7. HolderUnlessSuperseded'
  <2> SUFFICES ASSUME NEW u \in Tasks, view'[u] > 0
               PROVE  \/ lease'[u] < generations'
                      \/ /\ entry'.owner = OwnerOf[u]
                         /\ entry'.gen = lease'[u]
                         /\ entry'.left >= view'[u]
    BY DEF HolderUnlessSuperseded
  <2>1. CASE u = t
    BY <2>1, <1>1, <1>3 DEF Take
  <2>2. CASE u # t
    BY <2>2, <1>1, <1>2, <1>4
  <2>3. QED
    BY <2>1, <2>2
<1>8. QED
  BY <1>5, <1>6, <1>7

\* acquire(), renew(), release(), a tick and the other steps keep the invariant.
THEOREM NextIInv == IInv /\ [Next]_vars => IInv'
<1> SUFFICES ASSUME IInv, [Next]_vars PROVE IInv'
  OBVIOUS
<1>t. TypeOK'
  BY NextTypeOK DEF IInv
<1> SUFFICES GenerationsFence' /\ EntryWasGiven' /\ HolderUnlessSuperseded'
  BY <1>t DEF IInv
<1> USE InMemoryAssumption
<1>1. CASE UNCHANGED vars
  BY <1>1 DEF vars, IInv, GenerationsFence, EntryWasGiven, HolderUnlessSuperseded,
              Holding
<1>2. CASE Tick
  <2>1. entry'.owner = entry.owner /\ entry'.gen = entry.gen
          /\ entry'.left = Dec(entry.left)
    BY <1>2 DEF Tick, IInv, TypeOK, Entry
  <2>2. \A t \in Tasks : view'[t] = Dec(view[t])
    BY <1>2 DEF Tick
  <2>3. UNCHANGED <<generations, lease, pc>>
    BY <1>2 DEF Tick
  <2>4. HolderUnlessSuperseded'
    BY <2>1, <2>2, <2>3
    DEF HolderUnlessSuperseded, Holding, Dec, IInv, TypeOK, Entry
  <2>5. QED
    BY <2>1, <2>3, <2>4, GrantsUnchanged
<1>3. ASSUME NEW t \in Tasks, TaskStep(t)
      PROVE  GenerationsFence' /\ EntryWasGiven' /\ HolderUnlessSuperseded'
  \* Steps that touch pc only: no task becomes a holder.
  <2>q. ASSUME UNCHANGED <<entry, generations, lease, view>>,
               \A u \in Tasks : Holding(u)' => Holding(u)
        PROVE  GenerationsFence' /\ EntryWasGiven' /\ HolderUnlessSuperseded'
    <3>1. HolderUnlessSuperseded'
      BY <2>q DEF HolderUnlessSuperseded, IInv, Solo
    <3>2. QED
      BY <2>q, <3>1, GrantsUnchanged
  <2>1. ASSUME NEW m \in Modes, Acquire(t, m)
        PROVE  GenerationsFence' /\ EntryWasGiven' /\ HolderUnlessSuperseded'
    <3>1. \A u \in Tasks : Holding(u)' => Holding(u)
      BY <2>1 DEF Acquire, Modes, Holding, IInv, TypeOK
    <3>2. QED
      BY <2>1, <3>1, <2>q DEF Acquire
  <2>2. CASE Take(t)
    BY <2>2, TakeIInv
  <2>3. CASE RaiseHeld(t)
    <3>1. \A u \in Tasks : Holding(u)' => Holding(u)
      BY <2>3 DEF RaiseHeld, Holding, IInv, TypeOK
    <3>2. QED
      BY <2>3, <3>1, <2>q DEF RaiseHeld
  <2>4. CASE Cancel(t)
    <3>1. \A u \in Tasks : Holding(u)' => Holding(u)
      BY <2>4 DEF Cancel, Holding, IInv, TypeOK
    <3>2. QED
      BY <2>4, <3>1, <2>q DEF Cancel
  <2>5. CASE Renew(t)
    <3>1. entry'.owner = entry.owner /\ entry'.gen = entry.gen /\ entry'.left = TTL
      BY <2>5 DEF Renew, IInv, TypeOK, Entry
    <3>2. UNCHANGED <<generations, lease, pc>>
      BY <2>5 DEF Renew
    <3>3. \A u \in Tasks \ {t} : view'[u] = view[u]
      BY <2>5 DEF Renew
    <3>4. Solo(t) => lease[t] = generations /\ entry.gen = lease[t]
      BY <2>5, SoloOwner DEF Renew, Owned
    <3>5. HolderUnlessSuperseded'
      <4> SUFFICES ASSUME NEW u \in Tasks, Holding(u), Solo(u), view'[u] > 0
                   PROVE  \/ lease[u] < generations
                          \/ entry.owner = OwnerOf[u] /\ entry.gen = lease[u]
                               /\ TTL >= view'[u]
        BY <3>1, <3>2 DEF HolderUnlessSuperseded, Holding, Solo
      <4>1. TTL >= view'[u]
        BY <1>t DEF TypeOK
      <4>2. CASE u = t
        BY <4>1, <4>2, <3>4, <2>5 DEF Renew, Owned
      <4>3. CASE u # t
        BY <4>1, <4>3, <3>3 DEF IInv, HolderUnlessSuperseded
      <4>4. QED
        BY <4>2, <4>3
    <3>6. QED
      BY <3>1, <3>2, <3>5, GrantsUnchanged
  <2>6. CASE RenewRaises(t)
    <3>1. \A u \in Tasks : Holding(u)' => Holding(u)
      BY <2>6 DEF RenewRaises, Holding, IInv, TypeOK
    <3>2. QED
      BY <2>6, <3>1, <2>q DEF RenewRaises
  <2>7. CASE Release(t)
    <3>1. \A u \in Tasks : Holding(u)' => Holding(u) /\ u # t
      BY <2>7 DEF Release, Holding, IInv, TypeOK
    <3>2. CASE ~Owned(t)
      BY <2>7, <3>1, <3>2, <2>q DEF Release
    <3>3. CASE Owned(t)
      <4>1. entry'.owner = NoOwner
        BY <2>7, <3>3 DEF Release, NoEntry
      <4>2. UNCHANGED <<generations, lease, view>>
        BY <2>7 DEF Release
      <4>3. GenerationsFence' /\ EntryWasGiven'
        BY <4>1, <4>2 DEF IInv, GenerationsFence, EntryWasGiven
      <4>4. ASSUME NEW u \in Tasks, u # t, Solo(u) PROVE entry.owner # OwnerOf[u]
        BY <3>3, <4>4 DEF Owned, Solo
      <4>5. HolderUnlessSuperseded'
        BY <3>1, <4>2, <4>4 DEF IInv, HolderUnlessSuperseded, Solo
      <4>6. QED
        BY <4>3, <4>5
    <3>4. QED
      BY <3>2, <3>3
  <2>8. CASE Abandon(t)
    <3>1. \A u \in Tasks : Holding(u)' => Holding(u)
      BY <2>8 DEF Abandon, Holding, IInv, TypeOK
    <3>2. QED
      BY <2>8, <3>1, <2>q DEF Abandon
  <2>9. QED
    BY <1>3, <2>1, <2>2, <2>3, <2>4, <2>5, <2>6, <2>7, <2>8 DEF TaskStep, Poll
<1>4. QED
  BY <1>1, <1>2, <1>3 DEF Next

\* The inductive invariant always holds.
THEOREM IInvAlways == Spec => []IInv
  BY InitIInv, NextIInv, PTL DEF Spec

\* The recorded entry always carries the newest generation, no two grants
\* carry the same one, and the newest grant is the recorded owner's.
THEOREM GenerationsFenceAlways == Spec => []GenerationsFence
<1>1. IInv => GenerationsFence
  BY DEF IInv
<1>2. QED
  BY <1>1, IInvAlways, PTL

\* A holder alone in its process is the recorded owner, for at least as long
\* as it believes, unless a later generation exists.
THEOREM HolderUnlessSupersededAlways == Spec => []HolderUnlessSuperseded
<1>1. IInv => HolderUnlessSuperseded
  BY DEF IInv
<1>2. QED
  BY <1>1, IInvAlways, PTL

-----------------------------------------------------------------------------
\* Only a step of the task itself, or of a forced call, adds a generation
\* while the newest Lease still runs.
THEOREM OnlyForceTakesALiveLeaseAlways == Spec => OnlyForceTakesALiveLease
<1> DEFINE A ==
      \A t \in Tasks :
          /\ Holding(t) /\ Solo(t) /\ view[t] > 0 /\ lease[t] = generations
          /\ generations' # generations
          => \E u \in Tasks : /\ pc[u] \in Modes /\ pc'[u] = "held"
                              /\ u = t \/ pc[u] = "force"
<1>1. IInv /\ [Next]_vars => [A]_vars
  <2> SUFFICES ASSUME IInv, Next, NEW t \in Tasks,
                      Holding(t), Solo(t), view[t] > 0, lease[t] = generations,
                      generations' # generations
               PROVE  \E u \in Tasks : /\ pc[u] \in Modes /\ pc'[u] = "held"
                                       /\ u = t \/ pc[u] = "force"
    OBVIOUS
  <2>1. PICK u \in Tasks : Take(u)
    <3>1. ~Tick
      BY DEF Tick
    <3>2. PICK u \in Tasks : TaskStep(u)
      BY <3>1 DEF Next
    <3>3. QED
      BY <3>2 DEF TaskStep, Poll, Acquire, RaiseHeld, Cancel, Renew, RenewRaises,
                  Release, Abandon
  <2>2. pc[u] \in Modes /\ pc'[u] = "held"
    BY <2>1 DEF Take, IInv, TypeOK
  <2>3. entry.owner = OwnerOf[t] /\ entry.left > 0
    BY InMemoryAssumption DEF IInv, HolderUnlessSuperseded, TypeOK, Entry
  <2>4. u = t \/ pc[u] = "force"
    BY <2>1, <2>3, InMemoryAssumption DEF Take, CanTake, Alive, Solo
  <2>5. QED
    BY <2>2, <2>4
<1> HIDE DEF A
<1>2. Spec => [][A]_vars
  BY <1>1, IInvAlways, PTL DEF Spec
<1>3. QED
  BY <1>2 DEF A, OnlyForceTakesALiveLease

\* renew() works for a task alone in its process only while its generation
\* is the newest one ever granted.
THEOREM RenewOnlyNewestAlways == Spec => RenewOnlyNewest
<1> DEFINE A ==
      \A t \in Tasks :
          Solo(t) /\ Holding(t) /\ view'[t] > view[t] /\ lease'[t] = lease[t]
             => lease[t] = generations
<1>1. IInv /\ [Next]_vars => [A]_vars
  <2> SUFFICES ASSUME IInv, Next, NEW t \in Tasks,
                      Solo(t), Holding(t), view'[t] > view[t]
               PROVE  lease[t] = generations
    OBVIOUS
  <2>1. CASE Tick
    BY <2>1 DEF Tick, Dec, IInv, TypeOK
  <2>2. ASSUME NEW u \in Tasks, TaskStep(u) PROVE lease[t] = generations
    <3>1. CASE Take(u)
      <4>1. u # t
        BY <3>1 DEF Take, Holding, Modes
      <4>2. view'[t] = view[t]
        BY <3>1, <4>1 DEF Take
      <4>3. QED
        BY <4>2 DEF IInv, TypeOK
    <3>2. CASE Renew(u)
      <4>1. CASE u = t
        BY <3>2, <4>1, SoloOwner DEF Renew, Owned
      <4>2. CASE u # t
        BY <3>2, <4>2 DEF Renew, IInv, TypeOK
      <4>3. QED
        BY <4>1, <4>2
    <3>3. CASE UNCHANGED view
      BY <3>3 DEF IInv, TypeOK
    <3>4. QED
      BY <2>2, <3>1, <3>2, <3>3
      DEF TaskStep, Poll, Acquire, RaiseHeld, Cancel, RenewRaises, Release, Abandon
  <2>3. QED
    BY <2>1, <2>2 DEF Next
<1> HIDE DEF A
<1>2. Spec => [][A]_vars
  BY <1>1, IInvAlways, PTL DEF Spec
<1>3. QED
  BY <1>2 DEF A, RenewOnlyNewest

-----------------------------------------------------------------------------
(***************************************************************************)
(* InMemoryLease implements LeaseSpec: every step is a step of LeaseSpec   *)
(* or leaves the live owner and every call as they are.                    *)
(***************************************************************************)

\* A step of one task changes the abstract call of that task only.
LEMMA CallOfMoves ==
  ASSUME TypeOK, NEW t \in Tasks, NEW where, pc' = [pc EXCEPT ![t] = where]
  PROVE  [u \in Tasks |-> CallOf(u)]'
           = [[u \in Tasks |-> CallOf(u)] EXCEPT ![t] = CallOf(t)']
<1>1. \A u \in Tasks : u # t => pc'[u] = pc[u]
  BY DEF TypeOK
<1>2. \A u \in Tasks : u # t => CallOf(u)' = CallOf(u)
  BY <1>1 DEF CallOf
<1> HIDE DEF CallOf
<1>3. QED
  BY <1>2

\* InMemoryLease keeps what a LeaseManager promises (LeaseSpec).
THEOREM Implements == Spec => RefinesLease
<1> USE InMemoryAssumption
<1>1. Init => Abstract!LeaseInit
  BY DEF Init, Abstract!LeaseInit, LiveOwner, Alive, NoEntry, CallOf, Modes
<1>2. TypeOK /\ [Next]_vars => [Abstract!LeaseNext]_(Abstract!leaseVars)
  <2> SUFFICES ASSUME TypeOK, [Next]_vars
               PROVE  Abstract!LeaseNext \/ UNCHANGED Abstract!leaseVars
    OBVIOUS
  <2>1. CASE UNCHANGED vars
    BY <2>1 DEF vars, Abstract!leaseVars, LiveOwner, Alive, CallOf
  <2>2. CASE Tick
    <3>1. UNCHANGED [t \in Tasks |-> CallOf(t)]
      BY <2>2 DEF Tick, CallOf
    <3>2. LiveOwner' = LiveOwner \/ (LiveOwner # NoOwner /\ LiveOwner' = NoOwner)
      BY <2>2 DEF Tick, Dec, LiveOwner, Alive, TypeOK, Entry
    <3>3. QED
      BY <3>1, <3>2 DEF Abstract!LeaseNext, Abstract!Lapse, Abstract!leaseVars
  <2>3. ASSUME NEW t \in Tasks, TaskStep(t)
        PROVE  Abstract!LeaseStep(t) \/ UNCHANGED Abstract!leaseVars
    <3>0. [u \in Tasks |-> CallOf(u)][t] = CallOf(t)
      OBVIOUS
    <3>1. ASSUME NEW m \in Modes, Acquire(t, m)
          PROVE  Abstract!LeaseStep(t)
      <4>1. CallOf(t) = "idle" /\ CallOf(t)' = IF m = "force" THEN "forcing" ELSE "acquiring"
        BY <3>1 DEF Acquire, CallOf, Modes, TypeOK
      <4>2. UNCHANGED LiveOwner
        BY <3>1 DEF Acquire, LiveOwner, Alive
      <4>3. QED
        BY <3>0, <3>1, <4>1, <4>2, CallOfMoves
        DEF Acquire, Abstract!LeaseStep, Abstract!Ask, Abstract!AskForce
    <3>2. CASE Take(t)
      <4>1. CallOf(t) = (IF pc[t] = "force" THEN "forcing" ELSE "acquiring")
              /\ CallOf(t)' = "granted"
        BY <3>2 DEF Take, CallOf, Modes, TypeOK
      <4>2. LiveOwner' = OwnerOf[t]
        BY <3>2 DEF Take, LiveOwner, Alive
      <4>3. pc[t] = "force" \/ LiveOwner \in {NoOwner, OwnerOf[t]}
        BY <3>2 DEF Take, CanTake, LiveOwner
      <4>4. QED
        BY <3>0, <3>2, <4>1, <4>2, <4>3, CallOfMoves
        DEF Take, Abstract!LeaseStep, Abstract!Grant, Abstract!Seize
    <3>3. CASE RaiseHeld(t)
      <4>1. CallOf(t) = "acquiring" /\ CallOf(t)' = "idle"
        BY <3>3 DEF RaiseHeld, GivesUp, CallOf, Modes, TypeOK
      <4>2. LiveOwner # NoOwner /\ UNCHANGED LiveOwner
        BY <3>3 DEF RaiseHeld, CanTake, LiveOwner, Alive
      <4>3. QED
        BY <3>0, <3>3, <4>1, <4>2, CallOfMoves
        DEF RaiseHeld, Abstract!LeaseStep, Abstract!Refuse
    <3>4. ASSUME Cancel(t) \/ Abandon(t) PROVE Abstract!LeaseStep(t)
      <4>1. CallOf(t) # "idle" /\ CallOf(t)' = "idle"
        BY <3>4 DEF Cancel, Abandon, CallOf, Modes, TypeOK
      <4>2. UNCHANGED LiveOwner
        BY <3>4 DEF Cancel, Abandon, LiveOwner, Alive
      <4>3. QED
        BY <3>0, <3>4, <4>1, <4>2, CallOfMoves
        DEF Cancel, Abandon, Abstract!LeaseStep, Abstract!Abandon
    <3>5. CASE Renew(t)
      <4>1. CallOf(t) = "granted" /\ UNCHANGED [u \in Tasks |-> CallOf(u)]
        BY <3>5 DEF Renew, CallOf, Modes
      <4>2. LiveOwner \in {NoOwner, OwnerOf[t]} /\ LiveOwner' = OwnerOf[t]
        BY <3>5 DEF Renew, Owned, LiveOwner, Alive, TypeOK, Entry
      <4>3. QED
        BY <3>0, <4>1, <4>2 DEF Abstract!LeaseStep, Abstract!Renew
    <3>6. CASE RenewRaises(t)
      <4>1. UNCHANGED [u \in Tasks |-> CallOf(u)]
        BY <3>6 DEF RenewRaises, CallOf, Modes, TypeOK
      <4>2. UNCHANGED LiveOwner
        BY <3>6 DEF RenewRaises, LiveOwner, Alive
      <4>3. QED
        BY <4>1, <4>2 DEF Abstract!leaseVars
    <3>7. CASE Release(t)
      <4>1. CallOf(t) = "granted" /\ CallOf(t)' = "idle"
        BY <3>7 DEF Release, CallOf, Modes, TypeOK
      <4>2. LiveOwner' = IF LiveOwner = OwnerOf[t] THEN NoOwner ELSE LiveOwner
        BY <3>7 DEF Release, Owned, LiveOwner, Alive, NoEntry
      <4>3. QED
        BY <3>0, <3>7, <4>1, <4>2, CallOfMoves
        DEF Release, Abstract!LeaseStep, Abstract!Release
    <3>8. QED
      BY <2>3, <3>1, <3>2, <3>3, <3>4, <3>5, <3>6, <3>7 DEF TaskStep, Poll
  <2>4. QED
    BY <2>1, <2>2, <2>3 DEF Next, Abstract!LeaseNext
<1>3. QED
  BY <1>1, <1>2, TypeCorrect, PTL DEF Spec, RefinesLease, Abstract!LeaseBehaviour
=============================================================================
