----------------------------- MODULE MCAuthClient -----------------------------
(* Instances of the authenticating client for TLC. *)
EXTENDS AuthClientProperties, TLC

AllFaults  == FaultKind
LiveFaults == {"revoke", "timeout"}

Symmetry == Permutations(Caller) \cup Permutations(Login) \cup Permutations(Token)

(* With complete catalogues it makes no difference whether services are required. *)
LiveInit == Init /\ required
LiveSpec == LiveInit /\ [][Next]_vars /\ Fairness
=============================================================================
