-------------------------- MODULE StateStore_proofs --------------------------
(***************************************************************************)
(* Theorems about StateStore, for every set of callers, keys and values.   *)
(***************************************************************************)
EXTENDS StateStore, TLAPS

\* A new store has its types.
THEOREM InitTypeOK == Init => TypeOK
  BY StoreAssumption DEF Init, TypeOK

\* put, get and both parts of delete_session keep the types.
THEOREM NextTypeOK == TypeOK /\ [Next]_vars => TypeOK'
<1> SUFFICES ASSUME TypeOK, [Next]_vars PROVE TypeOK'
  OBVIOUS
<1> USE StoreAssumption DEF TypeOK, redis, history
<1>1. CASE UNCHANGED vars
  BY <1>1 DEF vars
<1>2. ASSUME NEW c \in Callers, Step(c) PROVE TypeOK'
  <2>1. ASSUME NEW k \in Keys, Get(c, k) PROVE TypeOK'
    BY <2>1 DEF Get
  <2>2. ASSUME NEW k \in Keys, NEW v \in Values, Put(c, k, v) PROVE TypeOK'
    BY <2>2 DEF Put
  <2>3. CASE DeleteAtOnce(c)
    BY <2>3 DEF DeleteAtOnce
  <2>4. CASE ReadIndex(c)
    BY <2>4 DEF ReadIndex
  <2>5. CASE DeleteMembers(c)
    BY <2>5 DEF DeleteMembers, Leave
  <2>6. CASE BreakOff(c)
    BY <2>6 DEF BreakOff, Leave
  <2>7. QED
    BY <1>2, <2>1, <2>2, <2>3, <2>4, <2>5, <2>6 DEF Step
<1>3. QED
  BY <1>1, <1>2 DEF Next

\* Every variable of a state store always has its type.
THEOREM TypeCorrect == Spec => []TypeOK
  BY InitTypeOK, NextTypeOK, PTL DEF Spec

-----------------------------------------------------------------------------
(***************************************************************************)
(* KeysAreIndexed is not inductive alone: a transaction that deletes the   *)
(* index must leave no key that is not contested, so every caller in       *)
(* between has read every key but contested ones.                          *)
(***************************************************************************)
ReadersKnow ==
    /\ deleting # {} => backend = "redis"
    /\ \A c \in deleting : Present \ members[c] \subseteq contested

IInv == TypeOK /\ KeysAreIndexed /\ ReadersKnow

\* A new store has neither keys nor an index.
THEOREM InitIInv == Init => IInv
  BY InitTypeOK DEF Init, IInv, KeysAreIndexed, ReadersKnow, Present

\* Every call keeps index, keys and the readers of the index in step.
THEOREM NextIInv == IInv /\ [Next]_vars => IInv'
<1> SUFFICES ASSUME IInv, [Next]_vars PROVE KeysAreIndexed' /\ ReadersKnow'
  BY NextTypeOK DEF IInv
<1> USE StoreAssumption DEF IInv, TypeOK, KeysAreIndexed, ReadersKnow, Present, redis, history
<1>1. CASE UNCHANGED vars
  BY <1>1 DEF vars
<1>2. ASSUME NEW c \in Callers, Step(c) PROVE KeysAreIndexed' /\ ReadersKnow'
  <2>1. ASSUME NEW k \in Keys, Get(c, k) PROVE KeysAreIndexed' /\ ReadersKnow'
    BY <2>1 DEF Get
  <2>2. ASSUME NEW k \in Keys, NEW v \in Values, Put(c, k, v)
        PROVE  KeysAreIndexed' /\ ReadersKnow'
    <3>1. Present' = Present \cup {k}
      BY <2>2 DEF Put
    <3>2. KeysAreIndexed'
      BY <2>2, <3>1 DEF Put
    <3>3. ReadersKnow'
      BY <2>2, <3>1 DEF Put
    <3>4. QED
      BY <3>2, <3>3
  <2>3. CASE DeleteAtOnce(c)
    BY <2>3 DEF DeleteAtOnce
  <2>4. CASE ReadIndex(c)
    BY <2>4 DEF ReadIndex
  <2>5. CASE DeleteMembers(c)
    <3>1. Present' = Present \ members[c]
      BY <2>5 DEF DeleteMembers
    <3>2. KeysAreIndexed'
      BY <2>5, <3>1 DEF DeleteMembers
    <3>3. \A d \in deleting' : Present' \ members'[d] \subseteq contested'
      BY <2>5, <3>1 DEF DeleteMembers, Leave
    <3>4. ReadersKnow'
      BY <2>5, <3>3 DEF DeleteMembers, Leave
    <3>5. QED
      BY <3>2, <3>4
  <2>6. CASE BreakOff(c)
    BY <2>6 DEF BreakOff, Leave
  <2>7. QED
    BY <1>2, <2>1, <2>2, <2>3, <2>4, <2>5, <2>6 DEF Step
<1>3. QED
  BY <1>1, <1>2 DEF Next

\* A key is outside the index only if its last put overlapped a delete_session.
THEOREM KeysAreIndexedAlways == Spec => []KeysAreIndexed
<1>1. IInv => KeysAreIndexed
  BY DEF IInv
<1>2. QED
  BY <1>1, InitIInv, NextIInv, PTL DEF Spec

-----------------------------------------------------------------------------
\* Every backend implements StoreSpec, Redis command by command.
THEOREM Implements == Spec => RefinesStore
<1>1. Init => Abstract!StoreInit
  BY DEF Init, Abstract!StoreInit, Abstract!Empty
<1>2. IInv /\ [Next]_vars
        => [\E c \in Callers : Abstract!StoreStep(c)]_(Abstract!storeVars)
  <2> SUFFICES ASSUME IInv, [Next]_vars
               PROVE  \/ \E c \in Callers : Abstract!StoreStep(c)
                      \/ UNCHANGED Abstract!storeVars
    OBVIOUS
  <2> USE DEF redis, history, Abstract!StoreStep
  <2>1. CASE UNCHANGED vars
    BY <2>1 DEF vars, Abstract!storeVars
  <2>2. ASSUME NEW c \in Callers, Step(c) PROVE Abstract!StoreStep(c)
    <3>1. ASSUME NEW k \in Keys, Get(c, k) PROVE Abstract!Read(c, k)
      BY <3>1 DEF Get, Abstract!Read
    <3>2. ASSUME NEW k \in Keys, NEW v \in Values, Put(c, k, v)
          PROVE  Abstract!Write(c, k, v)
      BY <3>2 DEF Put, Abstract!Write
    <3>3. CASE DeleteAtOnce(c)
      <4>1. deleting' = deleting \ {c}
        BY <3>3 DEF DeleteAtOnce, IInv, ReadersKnow
      <4>2. data' = [k \in Keys |-> IF k \in {} THEN data[k] ELSE Missing]
        BY <3>3 DEF DeleteAtOnce
      <4>3. /\ {} \in SUBSET contested
            /\ contested' = {}
            /\ returned' = returned \cup {c}
            /\ UNCHANGED got
        BY <3>3 DEF DeleteAtOnce
      <4>4. QED
        BY <4>1, <4>2, <4>3 DEF Abstract!Erase
    <3>4. CASE ReadIndex(c)
      BY <3>4 DEF ReadIndex, Abstract!CallDelete
    <3>5. CASE DeleteMembers(c)
      <4> DEFINE survivors == contested \ members[c]
      <4>1. \A k \in Keys \ survivors : k \in members[c] \/ data[k] = Missing
        BY <3>5 DEF DeleteMembers, IInv, ReadersKnow, Present
      <4>2. data' = [k \in Keys |-> IF k \in survivors THEN data[k] ELSE Missing]
        BY <3>5, <4>1 DEF DeleteMembers
      <4>3. QED
        BY <3>5, <4>2 DEF DeleteMembers, Leave, Abstract!Erase
    <3>6. CASE BreakOff(c)
      BY <3>6 DEF BreakOff, Leave, Abstract!Quit
    <3>7. QED
      BY <2>2, <3>1, <3>2, <3>3, <3>4, <3>5, <3>6 DEF Step
  <2>3. QED
    BY <2>1, <2>2 DEF Next
<1>3. QED
  BY <1>1, <1>2, InitIInv, NextIInv, PTL DEF Spec, RefinesStore, Abstract!StoreBehaviour
=============================================================================
