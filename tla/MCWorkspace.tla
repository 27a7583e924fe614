----------------------------- MODULE MCWorkspace -----------------------------
(* Small instances of Workspace. *)
EXTENDS Workspace, TLC

CONSTANTS c1, c2, c3

MCCalls == {c1, c2, c3}

\* The calls differ in nothing but their names.
MCSymmetry == Permutations(Calls)
=============================================================================
