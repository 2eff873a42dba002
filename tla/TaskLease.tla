------------------------------ MODULE TaskLease ------------------------------
(***************************************************************************)
(* What the claim protocol of scheduled tasks promises, without tables,    *)
(* versions or queues: a task is leased to one run at a time, a run keeps  *)
(* its lease until it ends, is revoked after the expiry or its task is     *)
(* deleted, and what a run came to is final.  TaskCenter implements it.    *)
(***************************************************************************)
EXTENDS Naturals

CONSTANTS
  Tasks,
  Runs,     \* run ids
  Term,     \* a lease lasts at least this long
  None      \* no run

VARIABLES
  clock,
  holder,   \* the run a task is leased to
  expiry,   \* when the lease of a task may be revoked; 0 without one
  outcome   \* what became of a run

leaseVars == <<clock, holder, expiry, outcome>>

Outcomes == {"none", "running", "done", "abandoned", "forgotten"}

LeaseTypeOK ==
  /\ clock \in Nat
  /\ holder \in [Tasks -> Runs \cup {None}]
  /\ expiry \in [Tasks -> Nat]
  /\ outcome \in [Runs -> Outcomes]

LeaseInit ==
  /\ clock \in Nat
  /\ holder = [t \in Tasks |-> None]
  /\ expiry = [t \in Tasks |-> 0]
  /\ outcome = [r \in Runs |-> "none"]

Revocable(t) == holder[t] # None /\ expiry[t] < clock

Revoked(S) == [r \in Runs |-> IF \E t \in S : holder[t] = r THEN "abandoned" ELSE outcome[r]]

(* A free task, or one whose lease has run out, is leased to a new run.    *)
Grant(t, r) ==
  /\ holder[t] = None \/ Revocable(t)
  /\ outcome[r] = "none"
  /\ holder' = [holder EXCEPT ![t] = r]
  /\ expiry' \in [Tasks -> Nat]
  /\ expiry'[t] >= clock + Term
  /\ \A u \in Tasks \ {t} : expiry'[u] = expiry[u]
  /\ outcome' = [(IF holder[t] = None THEN outcome ELSE Revoked({t})) EXCEPT ![r] = "running"]
  /\ UNCHANGED clock

(* Leases that ran out are taken back without a successor.                 *)
Revoke(S) ==
  /\ \A t \in S : Revocable(t)
  /\ holder' = [t \in Tasks |-> IF t \in S THEN None ELSE holder[t]]
  /\ expiry' = [t \in Tasks |-> IF t \in S THEN 0 ELSE expiry[t]]
  /\ outcome' = Revoked(S)
  /\ UNCHANGED clock

End(t) ==
  /\ holder[t] # None
  /\ holder' = [holder EXCEPT ![t] = None]
  /\ expiry' = [expiry EXCEPT ![t] = 0]
  /\ outcome' = [outcome EXCEPT ![holder[t]] = "done"]
  /\ UNCHANGED clock

(* A deleted task takes its runs along; a run that ended may be forgotten. *)
Forget(t, R) ==
  /\ \A r \in R : outcome[r] # "none"
  /\ \A r \in R : outcome[r] = "running" => holder[t] = r
  /\ holder[t] # None => holder[t] \in R
  /\ holder' = [holder EXCEPT ![t] = None]
  /\ expiry' = [expiry EXCEPT ![t] = 0]
  /\ outcome' = [r \in Runs |-> IF r \in R THEN "forgotten" ELSE outcome[r]]
  /\ UNCHANGED clock

ForgetEnded(r) ==
  /\ outcome[r] \in {"done", "abandoned"}
  /\ outcome' = [outcome EXCEPT ![r] = "forgotten"]
  /\ UNCHANGED <<clock, holder, expiry>>

Pass == clock' > clock /\ clock' \in Nat /\ UNCHANGED <<holder, expiry, outcome>>

LeaseNext ==
  \/ \E t \in Tasks, r \in Runs : Grant(t, r)
  \/ \E S \in SUBSET Tasks : Revoke(S)
  \/ \E t \in Tasks : End(t)
  \/ \E t \in Tasks, R \in SUBSET Runs : Forget(t, R)
  \/ \E r \in Runs : ForgetEnded(r)
  \/ Pass

LeaseSpec == LeaseInit /\ [][LeaseNext]_leaseVars
=============================================================================
