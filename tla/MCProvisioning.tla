--------------------------- MODULE MCProvisioning ---------------------------
(* An instance of Provisioning for TLC. *)
EXTENDS ProvisioningInvariant, TLC

AllPeers     == {"address", "show", "tracker", "light"}
EngineFaults == {"gone", "crash"}
Symmetry     == Permutations(Server) \cup Permutations(Task)
=============================================================================
