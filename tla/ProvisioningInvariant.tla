------------------------ MODULE ProvisioningInvariant ------------------------
(***************************************************************************)
(* How the agent of an asset goes along with the asset: the inductive      *)
(* invariant behind AgentInService and NoStrayAgent.  It leans on that of  *)
(* the engine (SchedulerInvariant), which Provisioning implements: while   *)
(* no two tasks held an asset together, the one that holds it is the only  *)
(* one that registers its agent, and none does so during a deletion.       *)
(***************************************************************************)
EXTENDS Provisioning, SchedulerInvariant

AgentsTyped ==
  /\ tracked \subseteq Asset
  /\ work \in [Task -> Work]
  /\ tracker \in [Asset -> Server \cup {Null}]
  /\ domain \subseteq Asset
  /\ calls \in [Asset -> [Call -> Nat]]
  /\ mishap \in [Asset -> SUBSET Mishap]

(* The agent of an asset nobody asked for is unknown to all services. *)
Unregistered == \A a \in Asset \ issued :
             tracker[a] = Null /\ a \notin domain /\ \A c \in Call : calls[a][c] = 0

Registered(a, s) == tracker[a] = s \/ "late" \in mishap[a]
InService(a, s)  == Registered(a, s) /\ a \in domain

(* The asset is deleted, or about to be. *)
Deleting(a) == db[a] = NoDoc \/ \E t \in Task : Holds(t, a) /\ task[t].op = "delete"

(* A request on its way to its caller: the agent goes along with the attempt. *)
Following(t, a) ==
  /\ At(t, {"join"}) => Registered(a, task[t].entity)
  /\ task[t].pc = "finish" /\ task[t].status = "SERVER_CREATED" => InService(a, task[t].server)

(* The agent stays with the server in service, and is taken out only with the asset. *)
ServiceScars == {"overlap", "provider", "write", "crash"}
InStepAt(a) ==
  a \in tracked /\ ~Met(scars[a], ServiceScars) =>
    /\ \A t \in Task : Holds(t, a) => Following(t, a)
    /\ db[a].status = "SERVER_CREATED" => Deleting(a) \/ InService(a, db[a].server)
    /\ calls[a]["leave"] > 0 \/ calls[a]["deregister"] > 0 => Deleting(a)

(* What a deletion has not taken out yet, a goroutine is about to. *)
TakenOutAt(a) ==
  ~Met(scars[a], {"overlap", "crash"}) /\ "left" \notin mishap[a] /\ Deleting(a) =>
    /\ tracker[a] = Null \/ calls[a]["deregister"] > 0
    /\ a \notin domain \/ calls[a]["leave"] > 0

AgentsInv == AgentsTyped /\ Unregistered /\ \A a \in Asset : InStepAt(a) /\ TakenOutAt(a)
==============================================================================
