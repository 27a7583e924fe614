-------------------------------- MODULE Turn --------------------------------
(***************************************************************************)
(* One use of oak.session.openhands on a LocalProcess workspace: the body  *)
(* of attach(), the turns it runs (openhands/wrapper.py), the worker       *)
(* threads that drive the conversation for them, the commands these send   *)
(* through the WorkspaceAdapter, the body's own calls of the workspace,    *)
(* and attach()'s exit.  The upstream conversation is external: run() is   *)
(* some commands, one after another, and then ends.                        *)
(***************************************************************************)
EXTENDS Naturals, LocalProcess

CONSTANTS
    MaxRuns,    \* bound: calls of conv.run()
    Policies,   \* exit_workspace
    ExitCall,   \* the call of attach()'s exit
    NoCall

\* Runs, and the commands they send, are numbered in the order they are made.
Runs == 1..MaxRuns

ASSUME TurnAssumption ==
    /\ MaxRuns \in Nat
    /\ Threaded \subseteq Nat
    /\ Policies \subseteq {"pause", "keep_alive", "terminate"}
    /\ NoCall \notin Calls
    /\ ExitCall \in Calls \ Threaded

VARIABLES
    app,        \* attach(): in its body, in its exit, or gone with the lease
    run,        \* each call of conv.run(): queued for a thread, on a thread, on
                \* the loop's thread, or blocked there for good
    awaited,    \* the runs whose run_turn(), approve() or reject() awaits them
    serving     \* the last command of each run

turn == <<app, run, awaited, serving>>
vars == <<local, turn>>

TypeOK ==
    /\ LocalTypeOK
    /\ app \in {"body", "exit", "gone"}
    /\ run \in [Runs -> {"idle", "queued", "thread", "loop", "blocked", "over"}]
    /\ awaited \subseteq {r \in Runs : run[r] \in {"queued", "thread", "over"}}
    /\ serving \in [Runs -> Threaded \cup {NoCall}]

Init ==
    /\ LocalInit
    /\ app = "body"
    /\ run = [r \in Runs |-> "idle"]
    /\ awaited = {}
    /\ serving = [r \in Runs |-> NoCall]

\* While a task is inside conv.run() itself the event loop stands still.
LoopFree == \A r \in Runs : run[r] \notin {"loop", "blocked"}

Waiting(r) == serving[r] # NoCall /\ pc[serving[r]] # "done"

-----------------------------------------------------------------------------
NextRun(r) == run[r] = "idle" /\ \A q \in Runs : q < r => run[q] # "idle"

\* Mutant: conv.run() is called without to_thread().
RunTurnOnLoop(r) ==
    /\ LoopFree
    /\ NextRun(r)
    /\ run' = [run EXCEPT ![r] = "loop"]
    /\ awaited' = awaited \cup {r}
    /\ UNCHANGED <<local, app, serving>>

\* run_turn(), approve(), reject(): to_thread(conv.run).  Nothing keeps a task
\* from a turn while another has one, or after the body has ended.
RunTurn(r) ==
    /\ LoopFree
    /\ NextRun(r)
    /\ run' = [run EXCEPT ![r] = "queued"]
    /\ awaited' = awaited \cup {r}
    /\ UNCHANGED <<local, app, serving>>

BeginRun(r) ==
    /\ run[r] = "queued"
    /\ run' = [run EXCEPT ![r] = "thread"]
    /\ UNCHANGED <<local, app, awaited, serving>>

\* A task calls session.conv.run() on the event loop's thread.
DirectRun(r) ==
    /\ LoopFree
    /\ NextRun(r)
    /\ run' = [run EXCEPT ![r] = "loop"]
    /\ UNCHANGED <<local, app, awaited, serving>>

\* WorkspaceAdapter.execute() on a worker thread: asyncio.run(), to the end.
Command(r, c) ==
    /\ run[r] = "thread"
    /\ ~Waiting(r)
    /\ c \in Threaded /\ \A b \in Threaded : b < c => pc[b] # "idle"
    /\ Enter(c) \/ Refuse(c)
    /\ serving' = [serving EXCEPT ![r] = c]
    /\ UNCHANGED <<app, run, awaited>>

\* On the loop's thread: run_coroutine_threadsafe(...).result() waits for the
\* loop that this very call holds.
CommandOnLoop(r) ==
    /\ run[r] = "loop"
    /\ run' = [run EXCEPT ![r] = "blocked"]
    /\ UNCHANGED <<local, app, awaited, serving>>

\* conv.run() returns.
RunEnds(r) ==
    /\ run[r] \in {"thread", "loop"}
    /\ ~Waiting(r)
    /\ run' = [run EXCEPT ![r] = "over"]
    /\ serving' = [serving EXCEPT ![r] = NoCall]
    /\ UNCHANGED <<local, app, awaited>>

\* The turn resumes on the loop, and returns.
TurnReturns(r) ==
    /\ LoopFree
    /\ r \in awaited
    /\ run[r] = "over"
    /\ awaited' = awaited \ {r}
    /\ UNCHANGED <<local, app, run, serving>>

\* The turn is cancelled: a run that has a thread goes on, one that was still
\* queued never begins.
CancelTurn(r) ==
    /\ LoopFree
    /\ r \in awaited
    /\ awaited' = awaited \ {r}
    /\ run' = [run EXCEPT ![r] = IF @ = "queued" THEN "over" ELSE @]
    /\ UNCHANGED <<local, app, serving>>

\* attach()'s exit, the only place that looks at exit_workspace: pause() is
\* unsupported here and the error is swallowed.
Leave ==
    /\ app = "body"
    /\ LoopFree
    /\ \/ "keep_alive" \in Policies /\ app' = "gone" /\ UNCHANGED local
       \/ "pause" \in Policies /\ app' = "gone" /\ Unsupported(ExitCall)
       \/ "terminate" \in Policies /\ app' = "exit" /\ Terminate(ExitCall)
    /\ UNCHANGED <<run, awaited, serving>>

\* terminate() has returned or was cancelled: the lease is released.
ExitEnds ==
    /\ app = "exit"
    /\ LoopFree
    /\ pc[ExitCall] = "done"
    /\ app' = "gone"
    /\ UNCHANGED <<local, run, awaited, serving>>

\* The body and the tasks it started call attached.workspace themselves; such
\* a task may go on during the exit and after it.
BodyCall(c) ==
    /\ c \notin Threaded \cup {ExitCall}
    /\ LoopFree
    /\ Call(c) \/ Cancel(c)
    /\ UNCHANGED turn

CancelExit == LoopFree /\ Cancel(ExitCall) /\ UNCHANGED turn

\* Coroutines of the event loop go on while it is free, those of the worker
\* threads' own loops always.
Proceed(c) ==
    /\ LoopFree \/ c \in Threaded
    /\ Progress(c)
    /\ UNCHANGED turn

Next ==
    \/ \E r \in Runs :
        \/ RunTurn(r) \/ BeginRun(r) \/ DirectRun(r) \/ CommandOnLoop(r)
        \/ RunEnds(r) \/ TurnReturns(r) \/ CancelTurn(r)
        \/ \E c \in Calls : Command(r, c)
    \/ Leave \/ ExitEnds \/ CancelExit
    \/ \E c \in Calls : BodyCall(c) \/ Proceed(c)

Spec == Init /\ [][Next]_vars

\* Threads and coroutines run on; a command may take for ever, and so may
\* the children of a shell that was killed.
FairProceed(c) ==
    \/ MakeDir(c) \/ Spawn(c) \/ Timeout(c) \/ CopyEnds(c) \/ Erased(c)
    \/ work[c] = "over" /\ Reap(c)

Fairness ==
    /\ \A c \in Calls : WF_vars((LoopFree \/ c \in Threaded) /\ FairProceed(c) /\ UNCHANGED turn)
    /\ \A r \in Runs : WF_vars(BeginRun(r)) /\ WF_vars(RunEnds(r)) /\ WF_vars(TurnReturns(r))
    /\ WF_vars(ExitEnds)

FairSpec == Spec /\ Fairness

-----------------------------------------------------------------------------
(***************************************************************************)
(* A turn returns, whatever its commands do and however many turns run at  *)
(* once: each command is timed out.  The exceptions are a killed shell     *)
(* whose children hold its pipes, and a task that blocks the event loop by *)
(* a conv.run() of its own.                                                *)
(***************************************************************************)
TurnsReturn ==
    \A r \in Runs :
        r \in awaited ~>
            \/ r \notin awaited
            \/ \E c \in Calls : work[c] = "orphan"
            \/ \E q \in Runs \ awaited : run[q] = "blocked"
=============================================================================
