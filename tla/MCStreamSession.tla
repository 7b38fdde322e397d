-------------------------- MODULE MCStreamSession --------------------------
(* StreamSession on small sets of sessions and HTTP threads.               *)
EXTENDS StreamSession, TLC

SessionSymmetry == Permutations(Sessions)
=============================================================================
