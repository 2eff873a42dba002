-------------------------------- MODULE MCLogin --------------------------------
EXTENDS Login, TLC

(* Requests, recovery codes and one-time passwords are interchangeable.    *)
Symmetry == Permutations(Threads) \cup Permutations(Codes) \cup Permutations(Steps)
=============================================================================
