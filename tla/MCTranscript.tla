---------------------------- MODULE MCTranscript ----------------------------
(* A user and an assistant who may each say the same thing twice. *)
EXTENDS Transcript

CONSTANTS go, yes, done, sure

MCTexts == {go, yes}
MCReplies == {done, sure}

\* What is said only matters as far as it was said before.
Symmetry == Permutations(MCTexts) \cup Permutations(MCReplies)
=============================================================================
