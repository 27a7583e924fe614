---------------------------- MODULE LocalProcess ----------------------------
(***************************************************************************)
(* oak_workspace/local_process.py: commands as subprocesses of the host in *)
(* a working directory, which terminate() erases if the workspace made it. *)
(* Most calls are coroutines of the application's event loop.  execute()   *)
(* may also be called on a worker thread, by the WorkspaceAdapter, on a    *)
(* loop of its own: there another thread runs between _check_alive() and   *)
(* mkdir().  Files go by the default directory, cwd is not modelled.       *)
(***************************************************************************)
CONSTANTS
    Calls,      \* bound: method calls, each made once
    Threaded    \* those made on a worker thread: execute() only

ASSUME CallsAssumption == Threaded \subseteq Calls

VARIABLES
    erases,     \* _cleanup and _owns_workdir
    terminated, \* _terminated
    dir,        \* the working directory
    pc,         \* of each call
    work,       \* what runs outside the coroutine for it: a subprocess (with
                \* its children), a thread that copies or erases, or the
                \* children of a shell that was killed
    result,
    late,       \* history: calls under way when terminate() set the flag
    dropped     \* history: rmtree was cancelled before its thread began

local == <<erases, terminated, dir, pc, work, result, late, dropped>>

LocalTypeOK ==
    /\ erases \in BOOLEAN /\ terminated \in BOOLEAN
    /\ dir \in {"present", "gone"}
    /\ pc \in [Calls -> {"idle", "entered", "spawn", "await", "reap", "done"}]
    /\ work \in [Calls -> {"none", "command", "copy", "erase", "orphan", "over"}]
    /\ result \in [Calls -> {"none", "ok", "error", "timeout", "cancelled"}]
    /\ late \subseteq Calls
    /\ dropped \in BOOLEAN

LocalInit ==
    /\ erases \in BOOLEAN
    /\ terminated = FALSE
    /\ dir = "present"
    /\ pc = [c \in Calls |-> "idle"]
    /\ work = [c \in Calls |-> "none"]
    /\ result = [c \in Calls |-> "none"]
    /\ late = {}
    /\ dropped = FALSE

Return(c, r) ==
    /\ pc' = [pc EXCEPT ![c] = "done"]
    /\ result' = [result EXCEPT ![c] = r]

\* A call that passed _check_alive() and may still touch the directory.
Busy(c) == pc[c] \in {"entered", "spawn"} \/ work[c] \in {"command", "copy", "orphan"}

-----------------------------------------------------------------------------
\* _check_alive() raises WorkspaceTerminated.
Refuse(c) ==
    /\ pc[c] = "idle"
    /\ terminated
    /\ Return(c, "error")
    /\ UNCHANGED <<erases, terminated, dir, work, late, dropped>>

\* Mutant: no _check_alive().
ExecuteUnchecked(c) ==
    /\ pc[c] = "idle"
    /\ dir' = "present"
    /\ pc' = [pc EXCEPT ![c] = "spawn"]
    /\ UNCHANGED <<erases, terminated, work, result, late, dropped>>

\* execute() on the event loop, up to its first await: mkdir() makes the
\* directory again if it is gone.
Execute(c) ==
    /\ pc[c] = "idle"
    /\ ~terminated
    /\ dir' = "present"
    /\ pc' = [pc EXCEPT ![c] = "spawn"]
    /\ UNCHANGED <<erases, terminated, work, result, late, dropped>>

\* Mutant: no _check_alive().
EnterUnchecked(c) ==
    /\ pc[c] = "idle"
    /\ pc' = [pc EXCEPT ![c] = "entered"]
    /\ UNCHANGED <<erases, terminated, dir, work, result, late, dropped>>

\* The same on a worker thread: check, then make the directory.
Enter(c) ==
    /\ pc[c] = "idle"
    /\ ~terminated
    /\ pc' = [pc EXCEPT ![c] = "entered"]
    /\ UNCHANGED <<erases, terminated, dir, work, result, late, dropped>>

MakeDir(c) ==
    /\ pc[c] = "entered"
    /\ dir' = "present"
    /\ pc' = [pc EXCEPT ![c] = "spawn"]
    /\ UNCHANGED <<erases, terminated, work, result, late, dropped>>

\* create_subprocess_shell(): FileNotFoundError when the directory went.
Spawn(c) ==
    /\ pc[c] = "spawn"
    /\ IF dir = "present"
       THEN /\ pc' = [pc EXCEPT ![c] = "await"]
            /\ work' = [work EXCEPT ![c] = "command"]
            /\ UNCHANGED result
       ELSE Return(c, "error") /\ UNCHANGED work
    /\ UNCHANGED <<erases, terminated, dir, late, dropped>>

\* The command, or what is left of it, ends; communicate() returns if the
\* call still awaits it.
CommandEnds(c) ==
    /\ work[c] \in {"command", "orphan"}
    /\ work' = [work EXCEPT ![c] = "over"]
    /\ IF pc[c] = "await" THEN Return(c, "ok") ELSE UNCHANGED <<pc, result>>
    /\ UNCHANGED <<erases, terminated, dir, late, dropped>>

\* Mutant: the timeout is raised and the command left alone.
TimeoutNoKill(c) ==
    /\ pc[c] = "await"
    /\ work[c] = "command"
    /\ pc' = [pc EXCEPT ![c] = "reap"]
    /\ UNCHANGED <<erases, terminated, dir, work, result, late, dropped>>

\* wait_for() gives up: kill() ends the shell, its children may live on.
Timeout(c) ==
    /\ pc[c] = "await"
    /\ work[c] = "command"
    /\ pc' = [pc EXCEPT ![c] = "reap"]
    /\ \E w \in {"over", "orphan"} : work' = [work EXCEPT ![c] = w]
    /\ UNCHANGED <<erases, terminated, dir, result, late, dropped>>

\* proc.wait(): on some builds of Python it returns only when the children
\* have closed the pipes too.
Reap(c) ==
    /\ pc[c] = "reap"
    /\ Return(c, "timeout")
    /\ UNCHANGED <<erases, terminated, dir, work, late, dropped>>

\* upload() makes the directory of its destination, download() one elsewhere.
Transfer(c) ==
    /\ pc[c] = "idle"
    /\ ~terminated
    /\ dir' \in {dir, "present"}
    /\ pc' = [pc EXCEPT ![c] = "await"]
    /\ work' = [work EXCEPT ![c] = "copy"]
    /\ UNCHANGED <<erases, terminated, result, late, dropped>>

\* copyfile() ends; an error is returned as success=False.
CopyEnds(c) ==
    /\ work[c] = "copy"
    /\ work' = [work EXCEPT ![c] = "over"]
    /\ IF pc[c] = "await" THEN Return(c, "ok") ELSE UNCHANGED <<pc, result>>
    /\ UNCHANGED <<erases, terminated, dir, late, dropped>>

\* terminate(), and __aexit__() with auto_terminate: the flag first, then
\* rmtree() on a thread.
Terminate(c) ==
    /\ pc[c] = "idle"
    /\ terminated' = TRUE
    /\ late' = IF terminated THEN late ELSE {d \in Calls : Busy(d)}
    /\ IF ~terminated /\ erases
       THEN /\ work' = [work EXCEPT ![c] = "erase"]
            /\ pc' = [pc EXCEPT ![c] = "await"]
            /\ UNCHANGED result
       ELSE Return(c, "ok") /\ UNCHANGED work
    /\ UNCHANGED <<erases, dir, dropped>>

\* rmtree(ignore_errors=True) ends: what runs in the directory meanwhile may
\* leave some of it.
Erased(c) ==
    /\ work[c] = "erase"
    /\ work' = [work EXCEPT ![c] = "over"]
    /\ \/ dir' = "gone"
       \/ UNCHANGED dir /\ \E d \in Calls : Busy(d)
    /\ IF pc[c] = "await" THEN Return(c, "ok") ELSE UNCHANGED <<pc, result>>
    /\ UNCHANGED <<erases, terminated, late, dropped>>

\* snapshot, restore, pause, resume and reconnect raise CapabilityUnsupported.
Unsupported(c) ==
    /\ pc[c] = "idle"
    /\ Return(c, "error")
    /\ UNCHANGED <<erases, terminated, dir, work, late, dropped>>

\* A coroutine of the event loop is cancelled at its await.  The subprocess
\* or the thread goes on, except a shell not yet reported and a thread that
\* the executor had not begun.
Cancel(c) ==
    /\ pc[c] \in {"spawn", "await", "reap"}
    /\ Return(c, "cancelled")
    /\ \/ UNCHANGED <<work, dropped>>
       \/ /\ work[c] \in {"copy", "erase"}
          /\ work' = [work EXCEPT ![c] = "over"]
          /\ dropped' = (dropped \/ work[c] = "erase")
    /\ UNCHANGED <<erases, terminated, dir, late>>

Call(c) ==
    Refuse(c) \/ Execute(c) \/ Transfer(c) \/ Terminate(c) \/ Unsupported(c)

Progress(c) ==
    \/ MakeDir(c) \/ Spawn(c) \/ CommandEnds(c) \/ Timeout(c) \/ Reap(c)
    \/ CopyEnds(c) \/ Erased(c)

LocalNext == \E c \in Calls : Call(c) \/ Enter(c) \/ Progress(c) \/ Cancel(c)

-----------------------------------------------------------------------------
(***************************************************************************)
(* Once terminate() is over, the directory it erases is gone, unless some  *)
(* call was under way when the flag was set (it may make the directory     *)
(* again or keep rmtree() from emptying it) or terminate() was cancelled   *)
(* before rmtree() began: no later terminate() tries again.                *)
(***************************************************************************)
DirectoryErased ==
    terminated /\ erases /\ (\A c \in Calls : work[c] # "erase")
        => dir = "gone" \/ late # {} \/ dropped

(***************************************************************************)
(* A call that returned or raised has nothing running for it, unless it    *)
(* was cancelled; a timeout may leave the children of the shell it killed. *)
(***************************************************************************)
NothingLeftBehind ==
    \A c \in Calls : pc[c] = "done" =>
        /\ work[c] \in {"command", "copy", "erase"} => result[c] = "cancelled"
        /\ work[c] = "orphan" => result[c] \in {"timeout", "cancelled"}

(***************************************************************************)
(* After terminate() a command starts only for a call that had passed      *)
(* _check_alive() before, and so at most one for each worker thread.       *)
(***************************************************************************)
NothingNewAfterTerminate ==
    [][\A c \in Calls : work'[c] \in {"command", "copy"} /\ work[c] = "none" /\ terminated
            => c \in late]_local
=============================================================================
