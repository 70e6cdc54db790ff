-------------------------- MODULE MCRelayLifecycle --------------------------
(* Instances of RelayLifecycle for TLC.                                     *)
EXTENDS RelayLifecycle, TLC

CONSTANTS s1, s2, r1, r2, k1, k2

\* Calls of one kind are interchangeable (safety runs only).
CallSymmetry == Permutations(Starts) \cup Permutations(Runs)
                  \cup Permutations(Stops)
=============================================================================
