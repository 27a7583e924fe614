----------------------------- MODULE Transcript -----------------------------
(***************************************************************************)
(* The conversation of one session as it travels: a turn's LLM and tool    *)
(* calls emit spans, a tracing backend shows some of them, the next        *)
(* attach() fetches and sorts them (trace_sources/otlp.py), reconstructs   *)
(* the messages (reconstruct.py) and puts them with the system prompt and  *)
(* the notices (context.py, openhands/attach.py) at the head of a new      *)
(* conversation, whose calls are traced again.  Attaches exclude each      *)
(* other: see Session.                                                     *)
(***************************************************************************)
EXTENDS Naturals, SequencesExt

CONSTANTS
    Texts,      \* what the user says
    Replies,    \* what the assistant says, and its tools return
    MaxSpans    \* bound: spans emitted in all

ASSUME TranscriptAssumption == MaxSpans \in Nat

VARIABLES
    told,       \* what user and assistant have said, in order
    spans,      \* the spans emitted so far, in order of their start times
    visible,    \* the spans the tracing backend returns by now
    waiting,    \* the action that waits for the user's approval, or NoAction
    live,       \* is an attach in its body?
    conv,       \* the messages of its conversation
    attached    \* what it found out

vars == <<told, spans, visible, waiting, live, conv, attached>>

NoAction == 0
NoTool == 0
Malformed == MaxSpans + 1   \* a pending action of which no PendingAction can be made

Message(r, c) == [role |-> r, content |-> c]
User(text) == Message("user", text)
Assistant(text) == Message("assistant", text)

Contents == Texts \cup Replies \cup
            {"system_prompt", "workspace_reset", "partial_history", "continuation"}
Messages == [role : {"system", "user", "assistant", "tool"}, content : Contents]

Span(in, out, t, action) ==
    [input |-> in, output |-> out, tool |-> t, pending |-> action]

Unattached == [state |-> <<>>, tools |-> <<>>, pending |-> NoAction, trace |-> "none"]

TypeOK ==
    /\ told \in Seq(Messages)
    /\ spans \in Seq([input : Seq(Messages), output : Seq(Messages),
                      tool : Nat, pending : Nat])
    /\ \A i \in DOMAIN spans :
          spans[i].tool \in {NoTool, i} /\ spans[i].pending \in {NoAction, i, Malformed}
    /\ Len(spans) <= MaxSpans
    /\ visible \subseteq DOMAIN spans
    /\ waiting \in {NoAction} \cup DOMAIN spans
    /\ live \in BOOLEAN
    /\ conv \in Seq(Messages)
    /\ attached \in [state : Seq(Messages), tools : Seq(DOMAIN spans),
                     pending : {NoAction} \cup DOMAIN spans,
                     trace : {"none", "no_prior", "loaded", "partial", "unavailable"}]
    /\ \A i \in ToSet(attached.tools) : spans[i].tool = i

Init ==
    /\ told = <<>>
    /\ spans = <<>>
    /\ visible = {}
    /\ waiting = NoAction
    /\ live = FALSE
    /\ conv = <<>>
    /\ attached = Unattached

-----------------------------------------------------------------------------
(* reconstruct.py *)

\* A finite set of numbers in ascending order.
Ascending(S) ==
    [k \in 1..Cardinality(S) |-> CHOOSE x \in S : Cardinality({y \in S : y <= x}) = k]

\* The messages (or spans) at the given places, in order.
At(ms, places) == [k \in 1..Cardinality(places) |-> ms[Ascending(places)[k]]]

\* Mutant: every message is kept, as often as it was traced.
WithNewRepeated(ms, new) == ms \o new

\* seen_message_keys: a message is kept unless it was seen before.
WithNew(ms, new) ==
    ms \o At(new, {i \in DOMAIN new : /\ ~Contains(ms, new[i])
                                     /\ \A j \in 1..(i - 1) : new[j] # new[i]})

\* ... span after span.
Merged(parts) ==
    LET merged[n \in 0..Len(parts)] ==
            IF n = 0 THEN <<>> ELSE WithNew(merged[n - 1], parts[n])
    IN  merged[Len(parts)]

\* Mutant: only what the model answered is kept.
SaidOutputOnly(ss) == Merged([j \in DOMAIN ss |-> spans[ss[j]].output])

\* The messages of all spans, each (role, content) where it comes first.  A
\* span with malformed messages brings none, as if it were missing.
Said(ss) == Merged([j \in DOMAIN ss |-> spans[ss[j]].input \o spans[ss[j]].output])

\* Mutant: every span counts as a tool call.
ToolHistoryAll(ss) == ss

ToolHistory(ss) == At(ss, {j \in DOMAIN ss : spans[ss[j]].tool # NoTool})

\* The places of the spans with a pending action; one that is no mapping at
\* all is skipped, as if it were missing.
Asking(ss) == {j \in DOMAIN ss : spans[ss[j]].pending # NoAction}

\* Mutant: the first pending action found is kept.
PendingFirst(ss) ==
    IF Asking(ss) = {} THEN NoAction ELSE spans[ss[Min(Asking(ss))]].pending

\* The last span with a pending action counts, whatever came after it; if that
\* is malformed nothing is pending, whatever came before it.
Pending(ss) ==
    IF Asking(ss) = {} THEN NoAction
    ELSE LET last == spans[ss[Max(Asking(ss))]].pending
         IN  IF last = Malformed THEN NoAction ELSE last

-----------------------------------------------------------------------------
(* openhands/attach.py, context.py *)

System(c) == <<Message("system", c)>>
If(condition, messages) == IF condition THEN messages ELSE <<>>

\* The three notices, each only when there is something to tell.
Notices(a, reset) ==
    If(reset, System("workspace_reset"))
        \o If(a.trace = "partial", System("partial_history"))
        \o If(a.state # <<>>, System("continuation"))

\* _default_compose: system prompt, notices, prior messages.
Compose(a, reset) == System("system_prompt") \o Notices(a, reset) \o a.state

\* Mutant: spans are taken in the order in which the backend returns them.
SortedNot(ss) == ss

\* Start times are distinct.
Sorted(ss) == Ascending(ToSet(ss))

Rehydrate(ss) ==
    [state |-> Said(ss), tools |-> ToolHistory(ss), pending |-> Pending(ss),
     trace |-> IF ss = <<>> THEN "no_prior" ELSE "loaded"]

\* attach(): the query returns the visible spans in any order or fails, or a
\* reconstructor of the application's own raises; then nothing is rehydrated.
Attach ==
    /\ ~live
    /\ live' = TRUE
    /\ \/ \E arrival \in SetToSeqs(visible) : attached' = Rehydrate(Sorted(arrival))
       \/ attached' = [Unattached EXCEPT !.trace = "unavailable"]
       \/ visible # {} /\ attached' = [Unattached EXCEPT !.trace = "partial"]
    /\ \E reset \in BOOLEAN : conv' = Compose(attached', reset)
    /\ UNCHANGED <<told, spans, visible, waiting>>

\* The with block is left, or the server crashes.
Detach ==
    /\ live
    /\ live' = FALSE
    /\ conv' = <<>>
    /\ attached' = Unattached
    /\ UNCHANGED <<told, spans, visible, waiting>>

-----------------------------------------------------------------------------
(* The agent: external, as the instrumentation that emits its spans. *)

\* What the model asks the user to approve, and how that is traced.
Gates == {"none", "traced", "malformed"}

\* One LLM call, traced with all it was sent and what it answered.
Call(prompt, reply, emitted, gate) ==
    LET action == Len(emitted) + 1
        pending == IF gate = "none" THEN NoAction
                   ELSE IF gate = "traced" THEN action ELSE Malformed
    IN  /\ Len(emitted) < MaxSpans
        /\ spans' = Append(emitted, Span(prompt, <<Assistant(reply)>>, NoTool, pending))
        /\ waiting' = IF gate = "none" THEN NoAction ELSE action
        /\ conv' = Append(prompt, Assistant(reply))

\* run_turn(text); the agent may stop at an approval gate.
RunTurn(text, reply, gate) ==
    /\ live /\ waiting = NoAction
    /\ Call(Append(conv, User(text)), reply, spans, gate)
    /\ told' = told \o <<User(text), Assistant(reply)>>
    /\ UNCHANGED <<visible, live, attached>>

\* approve(): the tool runs, the agent goes on with its result, perhaps to
\* another gate.
Approve(result, reply, gate) ==
    /\ live /\ waiting # NoAction
    /\ Call(Append(conv, Message("tool", result)), reply,
            Append(spans, Span(<<>>, <<>>, Len(spans) + 1, NoAction)), gate)
    /\ told' = told \o <<Message("tool", result), Assistant(reply)>>
    /\ UNCHANGED <<visible, live, attached>>

\* reject(reason): the agent replans.
Reject(reply, gate) ==
    /\ live /\ waiting # NoAction
    /\ Call(conv, reply, spans, gate)
    /\ told' = Append(told, Assistant(reply))
    /\ UNCHANGED <<visible, live, attached>>

\* The exporter delivers a span, late or never, or the backend indexes it.
Index(i) ==
    /\ i \in DOMAIN spans \ visible
    /\ visible' = visible \cup {i}
    /\ UNCHANGED <<told, spans, waiting, live, conv, attached>>

Next ==
    \/ Attach \/ Detach
    \/ \E reply \in Replies, gate \in Gates :
          \/ \E text \in Texts : RunTurn(text, reply, gate)
          \/ \E result \in Replies : Approve(result, reply, gate)
          \/ Reject(reply, gate)
    \/ \E i \in DOMAIN spans : Index(i)

Spec == Init /\ [][Next]_vars

-----------------------------------------------------------------------------
Dialogue(ms) == At(ms, {i \in DOMAIN ms : ms[i].role # "system"})

FirstOccurrences(ms) == At(ms, {i \in DOMAIN ms : \A j \in 1..(i - 1) : ms[j] # ms[i]})

(***************************************************************************)
(* However late spans arrive, in whatever order, and whichever of them are *)
(* missing: what an attach rehydrates was said, in that order, though not  *)
(* all of it (reconstruct_session over OTLPSpansTraceSource).              *)
(***************************************************************************)
HistoryInOrder ==
    \E places \in SUBSET DOMAIN told : Dialogue(attached.state) = At(told, places)

(***************************************************************************)
(* An attach that sees every span rehydrates all that was said, whoever    *)
(* said it in whichever of the earlier attaches, and every tool call in    *)
(* order; of what was said twice only the first time is left.              *)
(***************************************************************************)
HistoryComplete ==
    [][Attach /\ visible = DOMAIN spans /\ attached'.trace = "loaded" =>
            /\ Dialogue(attached'.state) = FirstOccurrences(told)
            /\ attached'.tools = Ascending({i \in DOMAIN spans : spans[i].tool # NoTool})]_vars

(***************************************************************************)
(* The prompt is traced and rehydrated into the next prompt, turn after    *)
(* turn; yet no conversation starts with anything said twice, or with a    *)
(* system message more than twice.                                         *)
(***************************************************************************)
PromptDoesNotGrow ==
    [][Attach => \A i \in DOMAIN conv' :
           Cardinality({j \in DOMAIN conv' : conv'[j] = conv'[i]})
             <= IF conv'[i].role = "system" THEN 2 ELSE 1]_vars

(***************************************************************************)
(* An action that waits for approval, and is traced well, is rehydrated by *)
(* an attach that sees every span, whatever was asked, decided and traced  *)
(* badly before it.                                                        *)
(***************************************************************************)
PendingNotMissed ==
    [][/\ Attach /\ visible = DOMAIN spans /\ attached'.trace = "loaded"
       /\ waiting # NoAction /\ spans[waiting].pending = waiting
       => attached'.pending = waiting]_vars
=============================================================================
