------------------------------ MODULE MCSession ------------------------------
(* Small instances of Session: which servers call what, and how. *)
EXTENDS Session

CONSTANTS a1, a2, a3, e1, e2, o1, o2

\* Two servers: the first attaches twice and ends, the second attaches and
\* ends once.
MCOwners == {o1, o2}
MCOwnerOf == [t \in Tasks |-> IF t \in {a2, e2} THEN o2 ELSE o1]

MCAttaches == {a1, a2, a3}
MCTwoAttaches == {a1, a2}
MCOneEnd == {e1}
MCTwoEnds == {e1, e2}

Opt(e, l, f, w) == [exit |-> e, lost |-> l, factory |-> f, wait |-> w]

\* Between the two sets every exit policy, lost policy, factory and wait
\* choice occurs.
MCAttachOptions == {Opt("pause", "boot_fresh", TRUE, TRUE), Opt("keep_alive", "skip", FALSE, FALSE)}
MCEndOptions == {Opt("pause", "boot_fresh", TRUE, TRUE), Opt("terminate", "raise", TRUE, FALSE)}
=============================================================================
