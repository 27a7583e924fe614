------------------------------ MODULE Workspace ------------------------------
(***************************************************************************)
(* oak_workspace/local_docker.py and e2b.py: the workspaces that stand for *)
(* one sandbox of a provider.  The sandbox is booted by the first call     *)
(* that needs it, over an await and without a lock; pause() and resume()   *)
(* act on it, terminate() removes it, reconnect() makes another workspace  *)
(* of it.  Several calls run at once on one event loop; each await of the  *)
(* provider is a step of its own.                                          *)
(***************************************************************************)
EXTENDS Naturals

CONSTANTS
    Calls,          \* bound: method calls, each made once
    MaxWorkspaces,  \* bound: the first workspace and those reconnect() makes
    MaxSandboxes,   \* bound: sandboxes the provider can make
    Backends,       \* subset of {"docker", "e2b"}
    Lazies,         \* subset of BOOLEAN: is the first workspace just
                    \* constructed (TRUE), or made by create() (FALSE)?
    Faults          \* kinds of failure that may happen

Methods == {"execute", "transfer", "pause", "resume", "enter", "terminate",
            "reconnect"}
Workspaces == 1..MaxWorkspaces
NoWorkspace == 0
Sandboxes == 1..MaxSandboxes
NoSandbox == 0

ASSUME WorkspaceAssumption ==
    /\ MaxWorkspaces \in Nat \ {0}
    /\ MaxSandboxes \in Nat \ {0}
    /\ Backends \subseteq {"docker", "e2b"} /\ Backends # {}
    /\ Lazies \subseteq BOOLEAN /\ Lazies # {}
    /\ Faults \subseteq {"provider", "timeout", "cancel"}

VARIABLES
    backend,    \* the class of the workspaces
    made,       \* workspaces 1..made exist
    held,       \* _container or _sandbox of each workspace
    terminated, \* _terminated of each workspace
    sandbox,    \* the provider's sandboxes: unborn, running, paused or gone
    maker,      \* the workspace that booted each sandbox
    \* one per call
    pc,
    method,
    on,         \* self
    with,       \* the sandbox it works on: a local, read once
    result,
    \* history
    raced,      \* workspaces one of whose boots met another boot or terminate(),
                \* or began after terminate() (by __aenter__)
    stray       \* sandboxes lost to a boot or a removal that broke off

provider == <<sandbox, maker>>
history == <<raced, stray>>
vars == <<backend, made, held, terminated, provider, pc, method, on, with,
          result, history>>

Labels == {"idle", "boot", "mkdir", "work", "pause", "resume", "remove",
           "connect", "done"}

TypeOK ==
    /\ backend \in Backends
    /\ made \in Workspaces
    /\ held \in [Workspaces -> Sandboxes \cup {NoSandbox}]
    /\ terminated \in [Workspaces -> BOOLEAN]
    /\ sandbox \in [Sandboxes -> {"unborn", "running", "paused", "gone"}]
    /\ maker \in [Sandboxes -> Workspaces \cup {NoWorkspace}]
    /\ pc \in [Calls -> Labels]
    /\ method \in [Calls -> Methods]
    /\ on \in [Calls -> Workspaces]
    /\ with \in [Calls -> Sandboxes \cup {NoSandbox}]
    /\ result \in [Calls -> {"none", "ok", "failed", "error", "cancelled",
                             "WorkspaceTerminated", "WorkspaceTimeout",
                             "WorkspaceUnreachable"}]
    /\ raced \subseteq Workspaces
    /\ stray \subseteq Sandboxes
    /\ \A c \in Calls : pc[c] \notin {"idle", "boot", "done"} => with[c] # NoSandbox

Init ==
    /\ backend \in Backends
    /\ made = 1
    /\ terminated = [w \in Workspaces |-> FALSE]
    /\ \E lazy \in Lazies :
          /\ held = [w \in Workspaces |-> IF w = 1 /\ ~lazy THEN 1 ELSE NoSandbox]
          /\ sandbox = [s \in Sandboxes |->
                           IF s = 1 /\ ~lazy THEN "running" ELSE "unborn"]
          /\ maker = [s \in Sandboxes |-> IF s = 1 /\ ~lazy THEN 1 ELSE NoWorkspace]
    /\ pc = [c \in Calls |-> "idle"]
    /\ method = [c \in Calls |-> "execute"]
    /\ on = [c \in Calls |-> 1]
    /\ with = [c \in Calls |-> NoSandbox]
    /\ result = [c \in Calls |-> "none"]
    /\ raced = {}
    /\ stray = {}

-----------------------------------------------------------------------------
Goto(c, where) == pc' = [pc EXCEPT ![c] = where]

Return(c, what) ==
    /\ Goto(c, "done")
    /\ result' = [result EXCEPT ![c] = what]

Called(c, m, w) ==
    /\ pc[c] = "idle"
    /\ w \in 1..made
    /\ method' = [method EXCEPT ![c] = m]
    /\ on' = [on EXCEPT ![c] = w]

\* What a method awaits once it has its sandbox.
Await(m) == IF m \in {"pause", "resume"} THEN m ELSE "work"

\* The ensure method has returned the sandbox s to call c of method m.
Proceed(c, m, s) ==
    /\ with' = [with EXCEPT ![c] = s]
    /\ IF m = "enter"
       THEN Return(c, "ok")
       ELSE Goto(c, Await(m)) /\ UNCHANGED result

Booting(w) == \E c \in Calls : pc[c] = "boot" /\ on[c] = w

\* Mutant: the method does not look whether the workspace has a sandbox.
BeginAfresh(c, m, w) ==
    /\ m \notin {"terminate", "reconnect"}
    /\ Called(c, m, w)
    /\ ~terminated[w]
    /\ Goto(c, "boot")
    /\ UNCHANGED <<with, result, backend, made, held, terminated, provider, history>>

\* execute, upload, download, pause, resume and __aenter__ up to their first
\* await.  All but __aenter__ look at _terminated first.
Begin(c, m, w) ==
    /\ m \notin {"terminate", "reconnect"}
    /\ Called(c, m, w)
    /\ \/ /\ terminated[w] /\ m # "enter"
          /\ Return(c, "WorkspaceTerminated")
          /\ UNCHANGED <<with, raced>>
       \/ /\ ~terminated[w] \/ m = "enter"
          /\ held[w] # NoSandbox
          /\ Proceed(c, m, held[w])
          /\ UNCHANGED raced
       \/ /\ ~terminated[w] \/ m = "enter"
          /\ held[w] = NoSandbox
          /\ Goto(c, "boot")
          /\ raced' = IF Booting(w) \/ terminated[w] THEN raced \cup {w} ELSE raced
          /\ UNCHANGED <<with, result>>
    /\ UNCHANGED <<backend, made, held, terminated, provider, stray>>

\* terminate(), also from __aexit__: the flag is set before the removal.
Terminate(c, w) ==
    /\ Called(c, "terminate", w)
    /\ terminated' = [terminated EXCEPT ![w] = TRUE]
    /\ IF terminated[w] \/ held[w] = NoSandbox
       THEN Return(c, "ok") /\ UNCHANGED with
       ELSE /\ with' = [with EXCEPT ![c] = held[w]]
            /\ Goto(c, "remove") /\ UNCHANGED result
    /\ raced' = IF Booting(w) THEN raced \cup {w} ELSE raced
    /\ UNCHANGED <<backend, made, held, provider, stray>>

\* reconnect() with the handle of a sandbox some workspace has held.
Reconnect(c, s) ==
    /\ Called(c, "reconnect", 1)
    /\ maker[s] # NoWorkspace
    /\ with' = [with EXCEPT ![c] = s]
    /\ Goto(c, "connect")
    /\ UNCHANGED <<backend, made, held, terminated, provider, result, history>>

-----------------------------------------------------------------------------
(* The awaits.  containers.run and AsyncSandbox.create.                    *)

Fresh(s) == /\ sandbox[s] = "unborn"
            /\ \A r \in 1..(s - 1) : sandbox[r] # "unborn"

\* The sandbox is there and the workspace takes it, whatever it held.
\* E2B returns it; Docker makes the working directory in it first.
Booted(c) ==
    /\ pc[c] = "boot"
    /\ \E s \in Sandboxes :
          /\ Fresh(s)
          /\ sandbox' = [sandbox EXCEPT ![s] = "running"]
          /\ maker' = [maker EXCEPT ![s] = on[c]]
          /\ held' = [held EXCEPT ![on[c]] = s]
          /\ IF backend = "docker"
             THEN /\ Goto(c, "mkdir")
                  /\ with' = [with EXCEPT ![c] = s]
                  /\ UNCHANGED result
             ELSE Proceed(c, method[c], s)
    /\ UNCHANGED <<backend, made, terminated, method, on, history>>

\* A boot breaks off.  The request, in its thread or at the provider, may be
\* carried out all the same, for nobody.
BootForNobody ==
    \/ UNCHANGED <<sandbox, stray>>
    \/ \E s \in Sandboxes :
          /\ Fresh(s)
          /\ sandbox' = [sandbox EXCEPT ![s] = "running"]
          /\ stray' = stray \cup {s}

\* The provider fails.  A create() that fails to make the working directory
\* leaves a container for nobody, too, and no workspace.
BootFails(c) ==
    /\ "provider" \in Faults
    /\ pc[c] = "boot"
    /\ BootForNobody
    /\ Return(c, "error")
    /\ UNCHANGED <<backend, made, held, terminated, maker, method, on, with, raced>>

\* Mutant: the container is not returned after the directory was made.
MakeDirOnly(c) ==
    /\ pc[c] = "mkdir"
    /\ \/ sandbox[with[c]] = "running" /\ Proceed(c, method[c], NoSandbox)
       \/ /\ sandbox[with[c]] # "running" \/ "provider" \in Faults
          /\ Return(c, "error")
          /\ UNCHANGED with
    /\ UNCHANGED <<backend, made, held, terminated, provider, method, on, history>>

\* The directory is made in the container just booted, but the container
\* returned is the one the workspace holds by now.
MakeDir(c) ==
    /\ pc[c] = "mkdir"
    /\ \/ sandbox[with[c]] = "running" /\ Proceed(c, method[c], held[on[c]])
       \/ /\ sandbox[with[c]] # "running" \/ "provider" \in Faults
          /\ Return(c, "error")
          /\ UNCHANGED with
    /\ UNCHANGED <<backend, made, held, terminated, provider, method, on, history>>

\* A command or a file transfer; a transfer reports its errors as a result.
Work(c) ==
    /\ pc[c] = "work"
    /\ \/ sandbox[with[c]] = "running" /\ Return(c, "ok")
       \/ /\ sandbox[with[c]] # "running" \/ "provider" \in Faults
          /\ Return(c, IF method[c] = "transfer" THEN "failed" ELSE "error")
    /\ UNCHANGED <<backend, made, held, terminated, provider, method, on, with,
                   history>>

WorkTimesOut(c) ==
    /\ "timeout" \in Faults
    /\ pc[c] = "work" /\ method[c] = "execute"
    /\ Return(c, "WorkspaceTimeout")
    /\ UNCHANGED <<backend, made, held, terminated, provider, method, on, with,
                   history>>

\* What the provider makes of a request on sandbox s.
Changed(c, s) ==
    CASE pc[c] = "pause"  /\ sandbox[s] = "running" -> "paused"
      [] pc[c] = "resume" /\ sandbox[s] = "paused"  -> "running"
      [] pc[c] = "remove"                           -> "gone"
      [] OTHER                                      -> sandbox[s]

Requests == {"pause", "resume", "remove"}

\* Mutant: a removal that does nothing to a paused container (no force).
AnswerUnlessPaused(c) ==
    /\ pc[c] \in Requests
    /\ sandbox' = IF pc[c] = "remove" /\ sandbox[with[c]] = "paused" THEN sandbox
                  ELSE [sandbox EXCEPT ![with[c]] = Changed(c, with[c])]
    /\ Return(c, "ok")
    /\ UNCHANGED <<backend, made, held, terminated, maker, method, on, with, history>>

\* pause, resume and remove (force=True); their errors are swallowed.
Answer(c) ==
    /\ pc[c] \in Requests
    /\ sandbox' = [sandbox EXCEPT ![with[c]] = Changed(c, with[c])]
    /\ Return(c, "ok")
    /\ UNCHANGED <<backend, made, held, terminated, maker, method, on, with, history>>

Lost(c) == IF pc[c] = "remove" /\ sandbox[with[c]] # "gone" THEN {with[c]} ELSE {}

AnswerFails(c) ==
    /\ "provider" \in Faults
    /\ pc[c] \in Requests
    /\ stray' = stray \cup Lost(c)
    /\ Return(c, "ok")
    /\ UNCHANGED <<backend, made, held, terminated, provider, method, on, with, raced>>

\* containers.get finds a paused container and leaves it so; E2B's connect
\* wakes the sandbox.
Connected(s) == IF backend = "e2b" THEN "running" ELSE sandbox[s]

Connect(c) ==
    /\ pc[c] = "connect"
    /\ sandbox[with[c]] \in {"running", "paused"}
    /\ made < MaxWorkspaces
    /\ made' = made + 1
    /\ held' = [held EXCEPT ![made'] = with[c]]
    /\ sandbox' = [sandbox EXCEPT ![with[c]] = Connected(with[c])]
    /\ Return(c, "ok")
    /\ UNCHANGED <<backend, terminated, maker, method, on, with, history>>

\* The sandbox is gone, the provider fails (or the bound is reached).
Unreachable(c) ==
    /\ pc[c] = "connect"
    /\ \/ sandbox[with[c]] = "gone"
       \/ "provider" \in Faults
       \/ made = MaxWorkspaces
    /\ Return(c, "WorkspaceUnreachable")
    /\ UNCHANGED <<backend, made, held, terminated, provider, method, on, with,
                   history>>

\* The task is cancelled in a boot.
CancelBoot(c) ==
    /\ "cancel" \in Faults
    /\ pc[c] = "boot"
    /\ BootForNobody
    /\ Return(c, "cancelled")
    /\ UNCHANGED <<backend, made, held, terminated, maker, method, on, with, raced>>

\* A request on a sandbox, too, may be carried out after its call is cancelled.
Cancel(c) ==
    /\ "cancel" \in Faults
    /\ pc[c] \notin {"idle", "boot", "done"}
    /\ \/ UNCHANGED sandbox /\ stray' = stray \cup Lost(c)
       \/ /\ pc[c] \in Requests
          /\ sandbox' = [sandbox EXCEPT ![with[c]] = Changed(c, with[c])]
          /\ UNCHANGED stray
       \/ /\ pc[c] = "connect" /\ sandbox[with[c]] = "paused"
          /\ sandbox' = [sandbox EXCEPT ![with[c]] = Connected(with[c])]
          /\ UNCHANGED stray
    /\ Return(c, "cancelled")
    /\ UNCHANGED <<backend, made, held, terminated, maker, method, on, with, raced>>

-----------------------------------------------------------------------------
Step(c) ==
    \/ \E m \in Methods, w \in Workspaces : Begin(c, m, w)
    \/ \E w \in Workspaces : Terminate(c, w)
    \/ \E s \in Sandboxes : Reconnect(c, s)
    \/ Booted(c) \/ BootFails(c) \/ MakeDir(c)
    \/ Work(c) \/ WorkTimesOut(c)
    \/ Answer(c) \/ AnswerFails(c)
    \/ Connect(c) \/ Unreachable(c)
    \/ CancelBoot(c) \/ Cancel(c)

Finished == (\A c \in Calls : pc[c] = "done") /\ UNCHANGED vars

Next == (\E c \in Calls : Step(c)) \/ Finished

Spec == Init /\ [][Next]_vars

-----------------------------------------------------------------------------
Live(s) == sandbox[s] \in {"running", "paused"}

Removing(s) == \E c \in Calls : pc[c] = "remove" /\ with[c] = s

\* Every sandbox that exists can still be stopped: a workspace that is not
\* terminated has it, or terminate() is about to remove it.  The exceptions
\* are the ones local_docker.py and e2b.py make: a removal or a boot that failed
\* or was cancelled, a boot that met another boot or terminate(), or a boot by
\* __aenter__ after it.
SandboxesAccountedFor ==
    \A s \in Sandboxes : Live(s) =>
       \/ s \in stray
       \/ maker[s] \in raced
       \/ Removing(s)
       \/ \E w \in Workspaces : held[w] = s /\ ~terminated[w]

\* A workspace never changes its sandbox behind the caller's back, unless its
\* first boots met: one that was paused, lost or removed through another
\* workspace is an error of the call, never replaced by an empty one.
KeepsItsSandbox ==
    [][\A w \in Workspaces :
          held[w] # NoSandbox /\ w \notin raced => held'[w] = held[w]]_vars
=============================================================================
