-------------------------- MODULE SchedulerContract --------------------------
(* How far an asset is, read off the engine's state. *)
EXTENDS SchedulerInvariant

(* It is being deleted, or was refused and will be. *)
Leaving(a) ==
  \/ db[a].status = "MARKED_FOR_DELETION"
  \/ \E t \in Task : task[t].op = "delete" /\ task[t].id = a

PhaseOf(a) ==
  IF scars[a] # {} THEN "troubled"
  ELSE IF a \notin issued THEN "unknown"
  ELSE IF db[a] = NoDoc THEN "gone"
  ELSE IF Leaving(a) THEN "ending"
  ELSE IF vertex[a] # Null THEN "served" ELSE "pending"

Contract == INSTANCE AssetContract WITH
  phase <- [a \in Asset |-> PhaseOf(a)], attached <- vertex, running <- cloud, made <- owner

(* Whatever handlers, workers, deletions and the rescheduler do to each other, an asset
   nothing went wrong with is served, kept and removed as AssetContract says: its owner
   is given one server, made for it, that runs until the asset is deleted, and none is
   left then.  (createServer and updateAndNotify at 117-176, terminateInstance at 291,
   notifyDettachAsset at 220 of scheduler.go; destroyAsset at 107 of assets.go) *)
KeepsContract == Contract!ContractSpec
=============================================================================
