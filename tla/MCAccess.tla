-------------------------------- MODULE MCAccess --------------------------------
EXTENDS AccessControl, TLC

(* Passwords are interchangeable, and so are accounts and paths.           *)
Symmetry == Permutations(Accounts) \cup Permutations(Passwords) \cup Permutations(Paths)
=============================================================================
