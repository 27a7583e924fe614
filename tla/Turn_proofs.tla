----------------------------- MODULE Turn_proofs -----------------------------
(***************************************************************************)
(* Turn: types, and what terminate() leaves of a LocalProcess workspace    *)
(* however many calls, turns and threads there are.  Every step of Turn is a step of LocalProcess or leaves it alone   *)
(* (Implements), so the workspace's invariants are proved on its own       *)
(* actions.                                                                *)
(***************************************************************************)
EXTENDS Turn, TLAPS

USE DEF local, turn, vars

(***************************************************************************)
(* The composition uses the workspace through its operations only.         *)
(***************************************************************************)
LEMMA StepOfLocal ==
    ASSUME [Next]_vars
    PROVE  [LocalNext]_local
<1>1. ASSUME NEW r \in Runs, NEW c \in Calls, Command(r, c)
      PROVE  LocalNext
      BY <1>1 DEF Command, LocalNext, Call
<1>2. ASSUME Leave
      PROVE  LocalNext \/ UNCHANGED local
      BY <1>2, TurnAssumption DEF Leave, LocalNext, Call
<1>3. ASSUME CancelExit
      PROVE  LocalNext
      BY <1>3, TurnAssumption DEF CancelExit, LocalNext
<1>4. ASSUME NEW c \in Calls, BodyCall(c) \/ Proceed(c)
      PROVE  LocalNext
      BY <1>4 DEF BodyCall, Proceed, LocalNext
<1>5. ASSUME NEW r \in Runs,
             \/ RunTurn(r) \/ BeginRun(r) \/ DirectRun(r) \/ CommandOnLoop(r)
             \/ RunEnds(r) \/ TurnReturns(r) \/ CancelTurn(r)
      PROVE  UNCHANGED local
      BY <1>5 DEF RunTurn, BeginRun, DirectRun, CommandOnLoop, RunEnds, TurnReturns, CancelTurn
<1>6. ASSUME ExitEnds
      PROVE  UNCHANGED local
      BY <1>6 DEF ExitEnds
<1> QED BY <1>1, <1>2, <1>3, <1>4, <1>5, <1>6 DEF Next

\* Every step of a turn is an operation of the workspace, or leaves it alone.
THEOREM Implements == Spec => LocalInit /\ [][LocalNext]_local
<1>1. Init => LocalInit
      BY DEF Init
<1>2. [Next]_vars => [LocalNext]_local
      BY StepOfLocal
<1> QED BY <1>1, <1>2, PTL DEF Spec

-----------------------------------------------------------------------------
(***************************************************************************)
(* Types.                                                                  *)
(***************************************************************************)
LEMMA LocalTypeStep ==
    ASSUME LocalTypeOK, [LocalNext]_local
    PROVE  LocalTypeOK'
<1> USE DEF LocalTypeOK
<1>1. ASSUME NEW c \in Calls, Call(c)
      PROVE  LocalTypeOK'
  <2>1. CASE Refuse(c)
        BY <2>1 DEF Refuse, Return
  <2>2. CASE Execute(c)
        BY <2>2 DEF Execute
  <2>3. CASE Transfer(c)
        BY <2>3 DEF Transfer
  <2>4. CASE Terminate(c)
        BY <2>4 DEF Terminate, Return
  <2>5. CASE Unsupported(c)
        BY <2>5 DEF Unsupported, Return
  <2> QED BY <1>1, <2>1, <2>2, <2>3, <2>4, <2>5 DEF Call
<1>2. ASSUME NEW c \in Calls, Progress(c)
      PROVE  LocalTypeOK'
  <2>1. CASE MakeDir(c)
        BY <2>1 DEF MakeDir
  <2>2. CASE Spawn(c)
        BY <2>2 DEF Spawn, Return
  <2>3. CASE CommandEnds(c)
        BY <2>3 DEF CommandEnds, Return
  <2>4. CASE Timeout(c)
        BY <2>4 DEF Timeout
  <2>5. CASE Reap(c)
        BY <2>5 DEF Reap, Return
  <2>6. CASE CopyEnds(c)
        BY <2>6 DEF CopyEnds, Return
  <2>7. CASE Erased(c)
        BY <2>7 DEF Erased, Return
  <2> QED BY <1>2, <2>1, <2>2, <2>3, <2>4, <2>5, <2>6, <2>7 DEF Progress
<1>3. ASSUME NEW c \in Calls, Enter(c)
      PROVE  LocalTypeOK'
      BY <1>3 DEF Enter
<1>4. ASSUME NEW c \in Calls, Cancel(c)
      PROVE  LocalTypeOK'
      BY <1>4 DEF Cancel, Return
<1>5. CASE UNCHANGED local
      BY <1>5
<1> QED BY <1>1, <1>2, <1>3, <1>4, <1>5 DEF LocalNext

\* Every step of the turn and of the workspace keeps the types.
LEMMA TypeStep ==
    ASSUME TypeOK, [Next]_vars
    PROVE  TypeOK'
<1>t. LocalTypeOK'
      BY StepOfLocal, LocalTypeStep DEF TypeOK
<1> USE <1>t DEF TypeOK
<1>1. ASSUME NEW r \in Runs, RunTurn(r) \/ BeginRun(r) \/ DirectRun(r) \/ CommandOnLoop(r)
      PROVE  TypeOK'
      BY <1>1 DEF RunTurn, BeginRun, DirectRun, CommandOnLoop, NextRun
<1>2. ASSUME NEW r \in Runs, NEW c \in Calls, Command(r, c)
      PROVE  TypeOK'
      BY <1>2 DEF Command
<1>3. ASSUME NEW r \in Runs, RunEnds(r)
      PROVE  TypeOK'
      BY <1>3 DEF RunEnds
<1>4. ASSUME NEW r \in Runs, TurnReturns(r) \/ CancelTurn(r)
      PROVE  TypeOK'
      BY <1>4 DEF TurnReturns, CancelTurn
<1>5. CASE Leave \/ ExitEnds \/ CancelExit
      BY <1>5 DEF Leave, ExitEnds, CancelExit
<1>6. ASSUME NEW c \in Calls, BodyCall(c) \/ Proceed(c)
      PROVE  TypeOK'
      BY <1>6 DEF BodyCall, Proceed
<1>7. CASE UNCHANGED vars
      BY <1>7
<1> QED BY <1>1, <1>2, <1>3, <1>4, <1>5, <1>6, <1>7 DEF Next

(***************************************************************************)
(* Every variable always has its type, and no turn awaits a run on the     *)
(* event loop's own thread.                                                *)
(***************************************************************************)
THEOREM TypeCorrect == Spec => []TypeOK
<1>1. Init => TypeOK
  <2>1. LocalInit => LocalTypeOK
        BY DEF LocalInit, LocalTypeOK
  <2> QED BY <2>1 DEF Init, TypeOK
<1>2. TypeOK /\ [Next]_vars => TypeOK'
      BY TypeStep
<1> QED BY <1>1, <1>2, PTL DEF Spec

-----------------------------------------------------------------------------
(***************************************************************************)
(* The directory.  What makes DirectoryErased inductive: after the flag is *)
(* set, whatever may still touch the directory was under way then.         *)
(***************************************************************************)
OnlyLateCallsBusy == terminated => \A c \in Calls : Busy(c) => c \in late

DirectoryInv == LocalTypeOK /\ OnlyLateCallsBusy /\ DirectoryErased

\* After the flag is set no new call begins, so no step but one of a call that was
\* under way touches the directory.
LEMMA DirectoryStep ==
    ASSUME DirectoryInv, [LocalNext]_local
    PROVE  DirectoryInv'
<1> USE DEF DirectoryInv, OnlyLateCallsBusy, DirectoryErased, Busy
<1>t. LocalTypeOK'
      BY LocalTypeStep
<1> USE <1>t DEF LocalTypeOK
<1>1. ASSUME NEW c \in Calls, Call(c)
      PROVE  DirectoryInv'
  <2>1. CASE Refuse(c) \/ Unsupported(c)
        BY <2>1 DEF Refuse, Unsupported, Return
  <2>2. CASE Execute(c)
        BY <2>2 DEF Execute
  <2>3. CASE Transfer(c)
        BY <2>3 DEF Transfer
  <2>4. CASE Terminate(c)
    <3>1. CASE terminated
          BY <2>4, <3>1 DEF Terminate, Return
    <3>2. CASE ~terminated /\ erases
          BY <2>4, <3>2 DEF Terminate
    <3>3. CASE ~terminated /\ ~erases
          BY <2>4, <3>3 DEF Terminate, Return
    <3> QED BY <3>1, <3>2, <3>3
  <2> QED BY <1>1, <2>1, <2>2, <2>3, <2>4 DEF Call
<1>2. ASSUME NEW c \in Calls, Progress(c)
      PROVE  DirectoryInv'
  <2>1. CASE MakeDir(c)
        BY <2>1 DEF MakeDir
  <2>2. CASE Spawn(c)
        BY <2>2 DEF Spawn, Return
  <2>3. CASE CommandEnds(c)
        BY <2>3 DEF CommandEnds, Return
  <2>4. CASE Timeout(c)
        BY <2>4 DEF Timeout
  <2>5. CASE Reap(c)
        BY <2>5 DEF Reap, Return
  <2>6. CASE CopyEnds(c)
        BY <2>6 DEF CopyEnds, Return
  <2>7. CASE Erased(c)
        BY <2>7 DEF Erased, Return
  <2> QED BY <1>2, <2>1, <2>2, <2>3, <2>4, <2>5, <2>6, <2>7 DEF Progress
<1>3. ASSUME NEW c \in Calls, Enter(c)
      PROVE  DirectoryInv'
      BY <1>3 DEF Enter
<1>4. ASSUME NEW c \in Calls, Cancel(c)
      PROVE  DirectoryInv'
      BY <1>4 DEF Cancel, Return
<1>5. CASE UNCHANGED local
      BY <1>5
<1> QED BY <1>1, <1>2, <1>3, <1>4, <1>5 DEF LocalNext

\* The invariant about the directory always holds.
LEMMA DirectoryInvariant == Spec => []DirectoryInv
<1>1. LocalInit => DirectoryInv
      BY DEF LocalInit, DirectoryInv, LocalTypeOK, OnlyLateCallsBusy, DirectoryErased
<1>2. DirectoryInv /\ [LocalNext]_local => DirectoryInv'
      BY DirectoryStep
<1> QED BY <1>1, <1>2, Implements, PTL

(***************************************************************************)
(* A terminated workspace has erased its directory, or a call was under    *)
(* way, or terminate() was cancelled first.                                *)
(***************************************************************************)
THEOREM DirectoryErasedAlways == Spec => []DirectoryErased
<1>1. DirectoryInv => DirectoryErased
      BY DEF DirectoryInv
<1> QED BY <1>1, DirectoryInvariant, PTL

(***************************************************************************)
(* No command starts and no file is copied after terminate() but for a     *)
(* call that was under way.                                                *)
(***************************************************************************)
THEOREM NothingNew == Spec => NothingNewAfterTerminate
<1> DEFINE Quiet == \A c \in Calls :
        work'[c] \in {"command", "copy"} /\ work[c] = "none" /\ terminated => c \in late
<1>1. ASSUME DirectoryInv, [LocalNext]_local
      PROVE  [Quiet]_local
  <2> SUFFICES ASSUME NEW d \in Calls, work'[d] \in {"command", "copy"},
                      work[d] = "none", terminated
               PROVE  d \in late
      OBVIOUS
  <2> USE DEF DirectoryInv, LocalTypeOK, OnlyLateCallsBusy, Busy
  <2>1. PICK c \in Calls : Call(c) \/ Enter(c) \/ Progress(c) \/ Cancel(c)
        BY <1>1 DEF LocalNext
  <2>2. CASE Call(c)
        BY <1>1, <2>2 DEF Call, Refuse, Execute, Transfer, Terminate, Unsupported
  <2>3. CASE Enter(c)
        BY <2>3 DEF Enter
  <2>4. CASE Progress(c)
    <3>1. CASE Spawn(c)
          BY <1>1, <3>1 DEF Spawn
    <3>2. CASE MakeDir(c) \/ Reap(c)
          BY <3>2 DEF MakeDir, Reap
    <3>3. CASE CommandEnds(c) \/ Timeout(c) \/ CopyEnds(c) \/ Erased(c)
          BY <1>1, <3>3 DEF CommandEnds, Timeout, CopyEnds, Erased
    <3> QED BY <2>4, <3>1, <3>2, <3>3 DEF Progress
  <2>5. CASE Cancel(c)
        BY <1>1, <2>5 DEF Cancel
  <2> QED BY <2>1, <2>2, <2>3, <2>4, <2>5
<1>2. DirectoryInv /\ [LocalNext]_local => [Quiet]_local
      BY <1>1
<1> QED BY <1>2, DirectoryInvariant, Implements, PTL DEF NothingNewAfterTerminate

-----------------------------------------------------------------------------
(***************************************************************************)
(* What runs for a call that has returned, from what each await stands     *)
(* for.                                                                    *)
(***************************************************************************)
WorkFitsPc ==
    \A c \in Calls :
        /\ pc[c] \in {"idle", "entered", "spawn"} => work[c] = "none"
        /\ pc[c] = "reap" => work[c] \in {"over", "orphan"}
        /\ pc[c] = "await" => work[c] \in {"command", "copy", "erase"}

LeftInv == LocalTypeOK /\ WorkFitsPc /\ NothingLeftBehind

\* Only a cancellation separates a call from its command or its thread.
LEMMA LeftStep ==
    ASSUME LeftInv, [LocalNext]_local
    PROVE  LeftInv'
<1> USE DEF LeftInv, WorkFitsPc, NothingLeftBehind
<1>t. LocalTypeOK'
      BY LocalTypeStep
<1> USE <1>t DEF LocalTypeOK
<1>1. ASSUME NEW c \in Calls, Call(c)
      PROVE  LeftInv'
  <2>1. CASE Refuse(c) \/ Unsupported(c)
        BY <2>1 DEF Refuse, Unsupported, Return
  <2>2. CASE Execute(c) \/ Transfer(c)
        BY <2>2 DEF Execute, Transfer
  <2>3. CASE Terminate(c)
    <3>1. CASE ~terminated /\ erases
          BY <2>3, <3>1 DEF Terminate
    <3>2. CASE terminated \/ ~erases
          BY <2>3, <3>2 DEF Terminate, Return
    <3> QED BY <3>1, <3>2
  <2> QED BY <1>1, <2>1, <2>2, <2>3 DEF Call
<1>2. ASSUME NEW c \in Calls, Progress(c)
      PROVE  LeftInv'
  <2>1. CASE MakeDir(c)
        BY <2>1 DEF MakeDir
  <2>2. CASE Spawn(c)
        BY <2>2 DEF Spawn, Return
  <2>3. CASE CommandEnds(c)
        BY <2>3 DEF CommandEnds, Return
  <2>4. CASE Timeout(c)
        BY <2>4 DEF Timeout
  <2>5. CASE Reap(c)
        BY <2>5 DEF Reap, Return
  <2>6. CASE CopyEnds(c)
        BY <2>6 DEF CopyEnds, Return
  <2>7. CASE Erased(c)
        BY <2>7 DEF Erased, Return
  <2> QED BY <1>2, <2>1, <2>2, <2>3, <2>4, <2>5, <2>6, <2>7 DEF Progress
<1>3. ASSUME NEW c \in Calls, Enter(c)
      PROVE  LeftInv'
      BY <1>3 DEF Enter
<1>4. ASSUME NEW c \in Calls, Cancel(c)
      PROVE  LeftInv'
      BY <1>4 DEF Cancel, Return
<1>5. CASE UNCHANGED local
      BY <1>5
<1> QED BY <1>1, <1>2, <1>3, <1>4, <1>5 DEF LocalNext

(***************************************************************************)
(* Only a cancelled call leaves its command or thread running.             *)
(***************************************************************************)
THEOREM NothingLeftBehindAlways == Spec => []NothingLeftBehind
<1>1. LocalInit => LeftInv
      BY DEF LocalInit, LeftInv, LocalTypeOK, WorkFitsPc, NothingLeftBehind
<1>2. LeftInv /\ [LocalNext]_local => LeftInv'
      BY LeftStep
<1>3. LeftInv => NothingLeftBehind
      BY DEF LeftInv
<1> QED BY <1>1, <1>2, <1>3, Implements, PTL

=============================================================================
