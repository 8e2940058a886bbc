---------------------------- MODULE MCNovaFloatingIP ----------------------------
EXTENDS NovaFloatingIP, TLC

(* Identifiers and addresses of floating IPs are interchangeable. *)
Interchangeable == Permutations(Id) \cup Permutations(Address)
=============================================================================
