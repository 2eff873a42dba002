----------------------------- MODULE MCTaskCenter -----------------------------
(* Finite instances of TaskCenter for TLC.                                 *)
EXTENDS TaskCenter

CONSTANTS t1, t2, d1, d2, m1

(* A history has edits or manual runs, early on and of a clock task with   *)
(* the skip policy (both of them within the first second), or it has       *)
(* restarts and a failing statement: all together are too many states, and *)
(* each of them meets every step of the engine.                            *)
Edits  == spent.edits > 0
Manual ==
  \/ manual # <<>>
  \/ \E w \in ManualWorkers : worker[w].pc # "idle"
  \/ \E r \in RunIds : run[r] # Null /\ run[r].trigger = "manual"

Undisturbed ==
  /\ spent.faults = 0 /\ spent.boots <= 1 /\ now <= 3
  /\ \A t \in Tasks : Exists(t) => task[t].sched = "clock" /\ task[t].missed = "skip"

(* A clock task with the skip policy, or an interval task that makes up    *)
(* for what it missed.                                                     *)
Kinds == \A t \in Tasks : Exists(t) => (task[t].missed = "skip" <=> task[t].sched = "clock")

ByHandOrFault ==
  /\ Kinds
  /\ Edits \/ Manual => Undisturbed
  /\ Edits /\ Manual => now <= 1
=============================================================================
