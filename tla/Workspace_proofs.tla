--------------------------- MODULE Workspace_proofs ---------------------------
(***************************************************************************)
(* What Workspace keeps, for any number of calls, workspaces and           *)
(* sandboxes, both backends and all failures.                              *)
(***************************************************************************)
EXTENDS Workspace, TLAPS

\* Workspaces are made one after the other, and only those that are made are
\* called, terminated or have a sandbox.
MadeInOrder ==
    /\ \A c \in Calls : on[c] <= made
    /\ \A w \in Workspaces : w > made => held[w] = NoSandbox

\* A workspace is booted while it has no sandbox and is not terminated, once,
\* or it is raced; what it has then is a sandbox of its own making.
BootsAlone ==
    /\ \A c \in Calls : pc[c] = "boot" =>
          \/ held[on[c]] = NoSandbox /\ ~terminated[on[c]]
          \/ on[c] \in raced /\ held[on[c]] = NoSandbox
          \/ on[c] \in raced /\ maker[held[on[c]]] = on[c]
    /\ \A c, d \in Calls :
          pc[c] = "boot" /\ pc[d] = "boot" /\ on[c] = on[d] /\ c # d => on[c] \in raced

\* Once booted, a workspace has a sandbox, and one that was born.
BootedHolds ==
    /\ \A c \in Calls : pc[c] = "mkdir" => held[on[c]] # NoSandbox
    /\ \A w \in Workspaces :
          held[w] # NoSandbox => sandbox[held[w]] # "unborn"

IInv == TypeOK /\ MadeInOrder /\ BootsAlone /\ BootedHolds /\ SandboxesAccountedFor

\* The invariant holds at the start: a new workspace or one made by create().
LEMMA InitIInv == Init => IInv
  <1> SUFFICES ASSUME Init PROVE IInv
    OBVIOUS
  <1> USE WorkspaceAssumption DEF Init
  <1>1. TypeOK
    BY DEF TypeOK, Workspaces, Sandboxes, NoSandbox, NoWorkspace, Methods, Labels
  <1>2. MadeInOrder /\ BootsAlone /\ BootedHolds
    BY DEF MadeInOrder, BootsAlone, BootedHolds, Workspaces, Sandboxes, NoSandbox
  <1>3. SandboxesAccountedFor
    BY DEF SandboxesAccountedFor, Live, Workspaces, Sandboxes, NoSandbox
  <1> QED BY <1>1, <1>2, <1>3 DEF IInv

-----------------------------------------------------------------------------
\* A step is a stutter or one action of one call.
LEMMA Steps ==
  ASSUME NEW ACTION P, [Next]_vars,
         UNCHANGED vars => P,
         \A c \in Calls, m \in Methods, w \in Workspaces : Begin(c, m, w) => P,
         \A c \in Calls, w \in Workspaces : Terminate(c, w) => P,
         \A c \in Calls, s \in Sandboxes : Reconnect(c, s) => P,
         \A c \in Calls : Booted(c) \/ BootFails(c) \/ MakeDir(c) => P,
         \A c \in Calls : Work(c) \/ WorkTimesOut(c) => P,
         \A c \in Calls : Answer(c) \/ AnswerFails(c) => P,
         \A c \in Calls : Connect(c) \/ Unreachable(c) => P,
         \A c \in Calls : CancelBoot(c) \/ Cancel(c) => P
  PROVE  P
  BY DEF Next, Step, Finished

\* A request leaves a sandbox in one of its states, and revives none.
LEMMA ChangedType ==
  ASSUME TypeOK, NEW c \in Calls, NEW s \in Sandboxes
  PROVE  /\ Changed(c, s) \in {"unborn", "running", "paused", "gone"}
         /\ Changed(c, s) \in {"running", "paused"} => Live(s) /\ pc[c] # "remove"
  BY DEF Changed, TypeOK, Live

\* Nor does it undo a birth.
LEMMA ChangedBorn ==
  ASSUME NEW c \in Calls, NEW s \in Sandboxes, sandbox[s] # "unborn"
  PROVE  Changed(c, s) # "unborn"
  BY DEF Changed

\* Every step keeps the types.  MakeDir returns the sandbox the workspace
\* holds by then, so BootedHolds is needed.
LEMMA NextTypeOK == TypeOK /\ BootedHolds /\ [Next]_vars => TypeOK'
<1> SUFFICES ASSUME TypeOK, BootedHolds, [Next]_vars PROVE TypeOK'
  OBVIOUS
<1> USE DEF TypeOK, Goto, Return, Called, Labels, provider, history
<1>1. ASSUME UNCHANGED vars PROVE TypeOK'
  BY <1>1 DEF vars
<1>2. ASSUME NEW c \in Calls, NEW m \in Methods, NEW w \in Workspaces,
             Begin(c, m, w)
      PROVE TypeOK'
  <2>1. Await(m) \in {"work", "pause", "resume"}
    BY DEF Await
  <2>2. CASE Return(c, "WorkspaceTerminated") /\ UNCHANGED <<with, raced>>
    BY <1>2, <2>2 DEF Begin
  <2>3. CASE held[w] # NoSandbox /\ Proceed(c, m, held[w]) /\ UNCHANGED raced
    BY <1>2, <2>1, <2>3 DEF Begin, Proceed
  <2>4. CASE Goto(c, "boot") /\ raced' \in {raced, raced \cup {w}} /\ UNCHANGED <<with, result>>
    BY <1>2, <2>4 DEF Begin
  <2> QED BY <1>2, <2>2, <2>3, <2>4 DEF Begin
<1>3. ASSUME NEW c \in Calls, NEW w \in Workspaces, Terminate(c, w) PROVE TypeOK'
  BY <1>3 DEF Terminate, Methods
<1>4. ASSUME NEW c \in Calls, NEW s \in Sandboxes, Reconnect(c, s) PROVE TypeOK'
  <2>1. 1 \in Workspaces /\ s # NoSandbox
    BY WorkspaceAssumption DEF Workspaces, Sandboxes, NoSandbox
  <2> QED BY <1>4, <2>1 DEF Reconnect, Methods
<1>5. ASSUME NEW c \in Calls, Booted(c) \/ BootFails(c) \/ MakeDir(c) PROVE TypeOK'
  <2>1. Await(method[c]) \in {"work", "pause", "resume"}
    BY DEF Await
  <2>2. CASE Booted(c)
    <3> PICK s \in Sandboxes :
          /\ sandbox' = [sandbox EXCEPT ![s] = "running"]
          /\ maker' = [maker EXCEPT ![s] = on[c]]
          /\ held' = [held EXCEPT ![on[c]] = s]
          /\ \/ Goto(c, "mkdir") /\ with' = [with EXCEPT ![c] = s] /\ UNCHANGED result
             \/ Proceed(c, method[c], s)
      BY <2>2 DEF Booted
    <3>1. s # NoSandbox
      BY DEF Sandboxes, NoSandbox
    <3>2. CASE Goto(c, "mkdir") /\ with' = [with EXCEPT ![c] = s] /\ UNCHANGED result
      BY <2>2, <3>1, <3>2 DEF Booted
    <3>3. CASE Proceed(c, method[c], s)
      <4>1. CASE method[c] = "enter"
        BY <2>2, <3>1, <3>3, <4>1 DEF Booted, Proceed
      <4>2. CASE method[c] # "enter"
        BY <2>1, <2>2, <3>1, <3>3, <4>2 DEF Booted, Proceed
      <4> QED BY <4>1, <4>2
    <3> QED BY <3>2, <3>3
  <2>3. CASE BootFails(c)
    BY <2>3 DEF BootFails, BootForNobody
  <2>4. CASE MakeDir(c)
    <3>1. held[on[c]] \in Sandboxes /\ held[on[c]] # NoSandbox
      BY <2>4 DEF MakeDir, BootedHolds
    <3>2. CASE Proceed(c, method[c], held[on[c]])
      <4>1. CASE method[c] = "enter"
        BY <2>4, <3>1, <3>2, <4>1 DEF MakeDir, Proceed
      <4>2. CASE method[c] # "enter"
        BY <2>1, <2>4, <3>1, <3>2, <4>2 DEF MakeDir, Proceed
      <4> QED BY <4>1, <4>2
    <3>3. CASE Return(c, "error") /\ UNCHANGED with
      BY <2>4, <3>3 DEF MakeDir
    <3> QED BY <2>4, <3>2, <3>3 DEF MakeDir
  <2> QED BY <1>5, <2>2, <2>3, <2>4
<1>6. ASSUME NEW c \in Calls, Work(c) \/ WorkTimesOut(c) PROVE TypeOK'
  BY <1>6 DEF Work, WorkTimesOut
<1>7. ASSUME NEW c \in Calls, Answer(c) \/ AnswerFails(c) PROVE TypeOK'
  <2>1. CASE Answer(c)
    <3>1. with[c] \in Sandboxes
      BY <2>1 DEF Answer, Requests
    <3> QED BY <2>1, <3>1, ChangedType DEF Answer
  <2>2. CASE AnswerFails(c)
    BY <2>2 DEF AnswerFails, Requests, Lost
  <2> QED BY <1>7, <2>1, <2>2
<1>8. ASSUME NEW c \in Calls, Connect(c) \/ Unreachable(c) PROVE TypeOK'
  <2>1. CASE Connect(c)
    <3>1. made + 1 \in Workspaces
      BY <2>1, WorkspaceAssumption DEF Connect, Workspaces
    <3>2. with[c] \in Sandboxes
      BY <2>1 DEF Connect
    <3> QED BY <2>1, <3>1, <3>2 DEF Connect, Connected
  <2>2. CASE Unreachable(c)
    BY <2>2 DEF Unreachable
  <2> QED BY <1>8, <2>1, <2>2
<1>9. ASSUME NEW c \in Calls, CancelBoot(c) \/ Cancel(c) PROVE TypeOK'
  <2>1. CASE CancelBoot(c)
    BY <2>1 DEF CancelBoot, BootForNobody
  <2>2. CASE Cancel(c)
    <3>1. with[c] \in Sandboxes
      BY <2>2 DEF Cancel
    <3> QED BY <2>2, <3>1, ChangedType DEF Cancel, Lost, Connected
  <2> QED BY <1>9, <2>1, <2>2
<1> QED BY <1>1, <1>2, <1>3, <1>4, <1>5, <1>6, <1>7, <1>8, <1>9, Steps

\* Only reconnect() makes a workspace, the next one, and a call needs one that is
\* made.
LEMMA NextMadeInOrder == TypeOK /\ MadeInOrder /\ [Next]_vars => MadeInOrder'
<1> SUFFICES ASSUME TypeOK, MadeInOrder, [Next]_vars PROVE MadeInOrder'
  OBVIOUS
<1> USE DEF TypeOK, MadeInOrder, Goto, Return, Called, Proceed, provider, history
<1>1. ASSUME UNCHANGED vars PROVE MadeInOrder'
  BY <1>1 DEF vars
<1>2. ASSUME NEW c \in Calls, NEW m \in Methods, NEW w \in Workspaces,
             Begin(c, m, w) PROVE MadeInOrder'
  BY <1>2, WorkspaceAssumption DEF Begin, Workspaces
<1>3. ASSUME NEW c \in Calls, NEW w \in Workspaces, Terminate(c, w) PROVE MadeInOrder'
  BY <1>3, WorkspaceAssumption DEF Terminate, Workspaces
<1>4. ASSUME NEW c \in Calls, NEW s \in Sandboxes, Reconnect(c, s) PROVE MadeInOrder'
  BY <1>4, WorkspaceAssumption DEF Reconnect, Workspaces
<1>5. ASSUME NEW c \in Calls, Booted(c) \/ BootFails(c) \/ MakeDir(c) PROVE MadeInOrder'
  <2>1. CASE Booted(c)
    BY <2>1, WorkspaceAssumption DEF Booted, Workspaces
  <2> QED BY <1>5, <2>1 DEF BootFails, BootForNobody, MakeDir
<1>6. ASSUME NEW c \in Calls, Work(c) \/ WorkTimesOut(c) PROVE MadeInOrder'
  BY <1>6 DEF Work, WorkTimesOut
<1>7. ASSUME NEW c \in Calls, Answer(c) \/ AnswerFails(c) PROVE MadeInOrder'
  BY <1>7 DEF Answer, AnswerFails
<1>8. ASSUME NEW c \in Calls, Connect(c) \/ Unreachable(c) PROVE MadeInOrder'
  <2>1. CASE Connect(c)
    BY <2>1, WorkspaceAssumption DEF Connect, Workspaces
  <2> QED BY <1>8, <2>1 DEF Unreachable
<1>9. ASSUME NEW c \in Calls, CancelBoot(c) \/ Cancel(c) PROVE MadeInOrder'
  BY <1>9 DEF CancelBoot, Cancel
<1> QED BY <1>1, <1>2, <1>3, <1>4, <1>5, <1>6, <1>7, <1>8, <1>9, Steps

\* No step takes a workspace's sandbox away.
LEMMA NextBootedHolds == TypeOK /\ MadeInOrder /\ BootedHolds /\ [Next]_vars => BootedHolds'
<1> SUFFICES ASSUME TypeOK, MadeInOrder, BootedHolds, [Next]_vars PROVE BootedHolds'
  OBVIOUS
<1> USE DEF TypeOK, BootedHolds, Goto, Return, Called, Proceed, provider, history
<1>1. ASSUME UNCHANGED vars PROVE BootedHolds'
  BY <1>1 DEF vars
<1>2. ASSUME NEW c \in Calls, NEW m \in Methods, NEW w \in Workspaces,
             Begin(c, m, w) PROVE BootedHolds'
  BY <1>2 DEF Begin, Await
<1>3. ASSUME NEW c \in Calls, NEW w \in Workspaces, Terminate(c, w) PROVE BootedHolds'
  BY <1>3 DEF Terminate
<1>4. ASSUME NEW c \in Calls, NEW s \in Sandboxes, Reconnect(c, s) PROVE BootedHolds'
  BY <1>4 DEF Reconnect
<1>5. ASSUME NEW c \in Calls, Booted(c) \/ BootFails(c) \/ MakeDir(c) PROVE BootedHolds'
  <2>1. CASE Booted(c)
    BY <2>1 DEF Booted, Await, Sandboxes, NoSandbox
  <2> QED BY <1>5, <2>1 DEF BootFails, BootForNobody, MakeDir, Await
<1>6. ASSUME NEW c \in Calls, Work(c) \/ WorkTimesOut(c) PROVE BootedHolds'
  BY <1>6 DEF Work, WorkTimesOut
<1>7. ASSUME NEW c \in Calls, Answer(c) \/ AnswerFails(c) PROVE BootedHolds'
  <2>1. CASE Answer(c)
    <3>1. with[c] \in Sandboxes
      BY <2>1 DEF Answer, Requests
    <3> QED BY <2>1, <3>1, ChangedBorn DEF Answer
  <2> QED BY <1>7, <2>1 DEF AnswerFails
<1>8. ASSUME NEW c \in Calls, Connect(c) \/ Unreachable(c) PROVE BootedHolds'
  <2>1. CASE Connect(c)
    <3>1. with[c] \in Sandboxes
      BY <2>1 DEF Connect
    <3> QED BY <2>1, <3>1 DEF Connect, Connected
  <2> QED BY <1>8, <2>1 DEF Unreachable
<1>9. ASSUME NEW c \in Calls, CancelBoot(c) \/ Cancel(c) PROVE BootedHolds'
  <2>1. CASE CancelBoot(c)
    BY <2>1 DEF CancelBoot, BootForNobody
  <2>2. CASE Cancel(c)
    <3>1. with[c] \in Sandboxes
      BY <2>2 DEF Cancel
    <3> QED BY <2>2, <3>1, ChangedBorn DEF Cancel, Connected
  <2> QED BY <1>9, <2>1, <2>2
<1> QED BY <1>1, <1>2, <1>3, <1>4, <1>5, <1>6, <1>7, <1>8, <1>9, Steps

\* A second boot, or terminate() during a boot, races the workspace.
LEMMA NextBootsAlone == TypeOK /\ MadeInOrder /\ BootedHolds /\ BootsAlone /\ [Next]_vars => BootsAlone'
<1> SUFFICES ASSUME TypeOK, MadeInOrder, BootedHolds, BootsAlone, [Next]_vars PROVE BootsAlone'
  OBVIOUS
<1> USE DEF TypeOK, BootsAlone, Booting, Goto, Return, Called, Proceed, provider, history
<1>1. ASSUME UNCHANGED vars PROVE BootsAlone'
  BY <1>1 DEF vars
<1>2. ASSUME NEW c \in Calls, NEW m \in Methods, NEW w \in Workspaces,
             Begin(c, m, w) PROVE BootsAlone'
  BY <1>2 DEF Begin, Await
<1>3. ASSUME NEW c \in Calls, NEW w \in Workspaces, Terminate(c, w) PROVE BootsAlone'
  BY <1>3 DEF Terminate
<1>4. ASSUME NEW c \in Calls, NEW s \in Sandboxes, Reconnect(c, s) PROVE BootsAlone'
  BY <1>4 DEF Reconnect
<1>5. ASSUME NEW c \in Calls, Booted(c) \/ BootFails(c) \/ MakeDir(c) PROVE BootsAlone'
  <2>1. CASE Booted(c)
    <3> PICK s \in Sandboxes :
          /\ Fresh(s)
          /\ maker' = [maker EXCEPT ![s] = on[c]]
          /\ held' = [held EXCEPT ![on[c]] = s]
      BY <2>1 DEF Booted
    <3>1. pc'[c] # "boot" /\ \A d \in Calls : d # c => pc'[d] = pc[d]
      BY <2>1 DEF Booted, Await
    <3>2. \A w \in Workspaces : held[w] # NoSandbox => held[w] # s
      BY DEF Fresh, BootedHolds
    <3>3. UNCHANGED <<on, raced, terminated>>
      BY <2>1 DEF Booted
    <3>4. ASSUME NEW d \in Calls, pc'[d] = "boot"
          PROVE  \/ held'[on[d]] = NoSandbox /\ ~terminated[on[d]]
                 \/ on[d] \in raced /\ held'[on[d]] = NoSandbox
                 \/ on[d] \in raced /\ maker'[held'[on[d]]] = on[d]
      <4>1. d # c /\ pc[d] = "boot" /\ pc[c] = "boot"
        BY <2>1, <3>1, <3>4 DEF Booted
      <4>2. CASE on[d] = on[c]
        BY <4>1, <4>2
      <4>3. CASE on[d] # on[c]
        BY <3>2, <4>1, <4>3
      <4> QED BY <4>2, <4>3
    <3> QED BY <3>1, <3>3, <3>4
  <2>2. CASE BootFails(c) \/ MakeDir(c)
    BY <2>2 DEF BootFails, BootForNobody, MakeDir, Await
  <2> QED BY <1>5, <2>1, <2>2
<1>6. ASSUME NEW c \in Calls, Work(c) \/ WorkTimesOut(c) PROVE BootsAlone'
  BY <1>6 DEF Work, WorkTimesOut
<1>7. ASSUME NEW c \in Calls, Answer(c) \/ AnswerFails(c) PROVE BootsAlone'
  BY <1>7 DEF Answer, AnswerFails
<1>8. ASSUME NEW c \in Calls, Connect(c) \/ Unreachable(c) PROVE BootsAlone'
  <2>1. CASE Connect(c)
    <3>1. \A d \in Calls : on[d] # made + 1
      BY WorkspaceAssumption DEF MadeInOrder, Workspaces
    <3> QED BY <2>1, <3>1 DEF Connect
  <2> QED BY <1>8, <2>1 DEF Unreachable
<1>9. ASSUME NEW c \in Calls, CancelBoot(c) \/ Cancel(c) PROVE BootsAlone'
  BY <1>9 DEF CancelBoot, Cancel
<1> QED BY <1>1, <1>2, <1>3, <1>4, <1>5, <1>6, <1>7, <1>8, <1>9, Steps

\* Each step keeps every sandbox accounted for: only terminate() gives one up,
\* and it removes it; only a boot that met another overwrites one.
LEMMA NextAccounted == IInv /\ [Next]_vars => SandboxesAccountedFor'
<1> SUFFICES ASSUME IInv, [Next]_vars PROVE SandboxesAccountedFor'
  OBVIOUS
<1> USE DEF IInv, TypeOK, SandboxesAccountedFor, Live, Removing, Goto, Return,
            Called, Proceed, provider, history
<1>1. ASSUME UNCHANGED vars PROVE SandboxesAccountedFor'
  BY <1>1 DEF vars
<1>2. ASSUME NEW c \in Calls, NEW m \in Methods, NEW w \in Workspaces,
             Begin(c, m, w)
      PROVE SandboxesAccountedFor'
  BY <1>2 DEF Begin, Await
<1>3. ASSUME NEW c \in Calls, NEW w \in Workspaces, Terminate(c, w)
      PROVE SandboxesAccountedFor'
  <2>1. ASSUME NEW s \in Sandboxes, Live(s)', held[w] = s, ~terminated[w]
        PROVE  Removing(s)'
    <3>1. s # NoSandbox
      BY DEF Sandboxes, NoSandbox
    <3> QED BY <1>3, <2>1, <3>1 DEF Terminate
  <2>2. ASSUME NEW s \in Sandboxes, Removing(s) PROVE Removing(s)'
    BY <1>3, <2>2 DEF Terminate
  <2>3. UNCHANGED <<provider, held, stray>> /\ raced \subseteq raced'
    BY <1>3 DEF Terminate
  <2>4. \A v \in Workspaces : v # w => terminated'[v] = terminated[v]
    BY <1>3 DEF Terminate
  <2> QED BY <2>1, <2>2, <2>3, <2>4
<1>4. ASSUME NEW c \in Calls, NEW s \in Sandboxes, Reconnect(c, s)
      PROVE SandboxesAccountedFor'
  BY <1>4 DEF Reconnect
<1>5. ASSUME NEW c \in Calls, Booted(c) \/ BootFails(c) \/ MakeDir(c)
      PROVE SandboxesAccountedFor'
  <2>1. CASE Booted(c)
    <3> PICK n \in Sandboxes :
          /\ sandbox' = [sandbox EXCEPT ![n] = "running"]
          /\ maker' = [maker EXCEPT ![n] = on[c]]
          /\ held' = [held EXCEPT ![on[c]] = n]
      BY <2>1 DEF Booted
    <3>1. UNCHANGED <<terminated, raced, stray>> /\ pc[c] = "boot"
      BY <2>1 DEF Booted
    <3>2. ASSUME NEW s \in Sandboxes, Removing(s) PROVE Removing(s)'
      BY <2>1, <3>2 DEF Booted
    <3>3. on[c] \in raced \/ (held[on[c]] = NoSandbox /\ ~terminated[on[c]])
      BY <3>1 DEF BootsAlone
    <3>4. ASSUME NEW s \in Sandboxes, held[on[c]] = s
          PROVE  maker[s] \in raced
      <4>1. s # NoSandbox
        BY DEF Sandboxes, NoSandbox
      <4> QED BY <3>1, <3>4, <4>1 DEF BootsAlone
    <3>5. ASSUME NEW s \in Sandboxes, Live(s)', s # n
          PROVE  s \in stray \/ maker'[s] \in raced \/ Removing(s)'
                 \/ \E w \in Workspaces : held'[w] = s /\ ~terminated'[w]
      <4>1. Live(s) /\ maker'[s] = maker[s]
        BY <3>5
      <4> QED BY <3>1, <3>2, <3>4, <4>1
    <3>6. maker'[n] \in raced \/ \E w \in Workspaces : held'[w] = n /\ ~terminated'[w]
      BY <3>1, <3>3
    <3> QED BY <3>1, <3>5, <3>6
  <2>2. CASE BootFails(c) \/ MakeDir(c)
    BY <2>2 DEF BootFails, BootForNobody, MakeDir, Await
  <2> QED BY <1>5, <2>1, <2>2
<1>6. ASSUME NEW c \in Calls, Work(c) \/ WorkTimesOut(c) PROVE SandboxesAccountedFor'
  BY <1>6 DEF Work, WorkTimesOut
<1>7. ASSUME NEW c \in Calls, Answer(c) \/ AnswerFails(c) PROVE SandboxesAccountedFor'
  <2>1. CASE Answer(c)
    <3>1. with[c] \in Sandboxes
      BY <2>1 DEF Answer, Requests
    <3>2. ASSUME NEW s \in Sandboxes, Live(s)'
          PROVE  Live(s) /\ ~(pc[c] = "remove" /\ with[c] = s)
      BY <2>1, <3>1, <3>2, ChangedType DEF Answer
    <3>3. ASSUME NEW s \in Sandboxes, Removing(s), ~(pc[c] = "remove" /\ with[c] = s)
          PROVE  Removing(s)'
      BY <2>1, <3>3 DEF Answer
    <3>4. UNCHANGED <<held, terminated, maker, raced, stray>>
      BY <2>1 DEF Answer
    <3> QED BY <3>2, <3>3, <3>4
  <2>2. CASE AnswerFails(c)
    BY <2>2 DEF AnswerFails, Lost
  <2> QED BY <1>7, <2>1, <2>2
<1>8. ASSUME NEW c \in Calls, Connect(c) \/ Unreachable(c) PROVE SandboxesAccountedFor'
  <2>1. CASE Connect(c)
    <3>1. with[c] \in Sandboxes
      BY <2>1 DEF Connect
    <3>2. ASSUME NEW s \in Sandboxes, Live(s)' PROVE Live(s)
      BY <2>1, <3>1, <3>2 DEF Connect, Connected
    <3>3. ASSUME NEW s \in Sandboxes, Removing(s) PROVE Removing(s)'
      BY <2>1, <3>3 DEF Connect
    <3>4. ASSUME NEW s \in Sandboxes, NEW w \in Workspaces, held[w] = s
          PROVE  held'[w] = s
      <4>1. s # NoSandbox /\ w # made + 1
        BY <3>4, WorkspaceAssumption
        DEF MadeInOrder, Workspaces, Sandboxes, NoSandbox
      <4> QED BY <2>1, <3>4, <4>1 DEF Connect
    <3>5. UNCHANGED <<terminated, maker, raced, stray>>
      BY <2>1 DEF Connect
    <3> QED BY <3>2, <3>3, <3>4, <3>5
  <2>2. CASE Unreachable(c)
    BY <2>2 DEF Unreachable
  <2> QED BY <1>8, <2>1, <2>2
<1>9. ASSUME NEW c \in Calls, CancelBoot(c) \/ Cancel(c) PROVE SandboxesAccountedFor'
  <2>1. CASE CancelBoot(c)
    BY <2>1 DEF CancelBoot, BootForNobody
  <2>2. CASE Cancel(c)
    BY <2>2, ChangedType DEF Cancel, Lost, Connected, Requests
  <2> QED BY <1>9, <2>1, <2>2
<1> QED BY <1>1, <1>2, <1>3, <1>4, <1>5, <1>6, <1>7, <1>8, <1>9, Steps

\* Every step keeps the inductive invariant.
LEMMA NextIInv == IInv /\ [Next]_vars => IInv'
  BY NextTypeOK, NextMadeInOrder, NextBootedHolds, NextBootsAlone, NextAccounted
  DEF IInv

\* The inductive invariant always holds.
THEOREM IInvAlways == Spec => []IInv
  BY InitIInv, NextIInv, PTL DEF Spec

-----------------------------------------------------------------------------
\* Every variable of Workspace always has its type; a call never works on no
\* sandbox.
THEOREM TypeCorrect == Spec => []TypeOK
<1>1. IInv => TypeOK
  BY DEF IInv
<1> QED BY <1>1, IInvAlways, PTL

\* Every sandbox that lives can still be stopped, but for the losses named in
\* SandboxesAccountedFor.
THEOREM SandboxesAccountedForAlways == Spec => []SandboxesAccountedFor
<1>1. IInv => SandboxesAccountedFor
  BY DEF IInv
<1> QED BY <1>1, IInvAlways, PTL

\* A workspace whose boots did not meet never changes its sandbox: a boot finds
\* it without one, and reconnect() makes a workspace that had none.
THEOREM KeepsItsSandboxAlways == Spec => KeepsItsSandbox
<1> DEFINE Keeps == \A w \in Workspaces :
              held[w] # NoSandbox /\ w \notin raced => held'[w] = held[w]
<1>1. IInv /\ [Next]_vars => Keeps
  <2> SUFFICES ASSUME IInv, [Next]_vars PROVE Keeps
    OBVIOUS
  <2> USE DEF IInv, TypeOK
  <2>1. ASSUME UNCHANGED held PROVE Keeps
    BY <2>1
  <2>2. ASSUME NEW c \in Calls, Booted(c) PROVE Keeps
    BY <2>2 DEF Booted, BootsAlone
  <2>3. ASSUME NEW c \in Calls, Connect(c) PROVE Keeps
    <3>1. \A w \in Workspaces : held[w] # NoSandbox => w # made + 1
      BY WorkspaceAssumption DEF MadeInOrder, Workspaces
    <3> QED BY <2>3, <3>1 DEF Connect
  <2>4. UNCHANGED held \/ \E c \in Calls : Booted(c) \/ Connect(c)
    BY Zenon DEF Next, Step, Finished, vars, Begin, Terminate, Reconnect, BootFails,
       MakeDir, Work, WorkTimesOut, Answer, AnswerFails, Unreachable,
       CancelBoot, Cancel
  <2> QED BY <2>1, <2>2, <2>3, <2>4
<1> QED BY <1>1, IInvAlways, PTL DEF Spec, KeepsItsSandbox
=============================================================================
