----------------------------- MODULE MCScheduler -----------------------------
(* Instances of the provisioning engine for TLC. *)
EXTENDS SchedulerContract, TLC, FiniteSets

(* Fault sets of the runs. *)
AllFaults  == FaultKind
MildFaults == {"associate", "gone"}
FairFaults == {"associate", "run", "delete", "gone"}

(* An asset meets any two kinds of mishap, besides being held by two tasks. *)
FewMishaps == \A a \in Asset : Cardinality(scars[a] \ {"overlap"}) <= 2

Symmetry == Permutations(Asset) \cup Permutations(Server) \cup Permutations(Task)
=============================================================================
