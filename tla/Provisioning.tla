---------------------------- MODULE Provisioning ----------------------------
(***************************************************************************)
(* ProvisionInstance call by call (provision/serverprovision.go), with the *)
(* agent services it registers the new server at (stormstack/): the storm  *)
(* tracker, which keeps the server each agent runs on, and the default     *)
(* domain of storm light, which keeps the agents it manages.               *)
(*                                                                         *)
(* The module refines Scheduler: what that engine takes as one step        *)
(* (Configure, ConfigureFails, DetailFails) is a sequence of calls here,   *)
(* and goroutines of the agent services run beside them.  The address      *)
(* comes from FIPWithNova or FIPWithNeutron, whichever the provider was    *)
(* made with: both ask in two rounds; NovaFloatingIP has the addresses.    *)
(* (With FIPWithNeutron createAsset refuses every request, for its         *)
(* CheckAvailability is 0: only retries, after a restart, meet it.)        *)
(*                                                                         *)
(* createAsset takes only requests that name their agent, and a retry      *)
(* names the same one: an agent is known by its asset.  The tracker is     *)
(* taken to answer with the id it was given.                               *)
(***************************************************************************)
EXTENDS Scheduler

CONSTANT PeerFaults    \* the agents of ProvisionInstance whose calls may fail

ASSUME PeerFaultsAssumption == PeerFaults \subseteq {"address", "show", "tracker", "light"}

(* The next call of ProvisionInstance; "poll" is the loop of waitServerToStart and
   "again" the second round of Attach. *)
Work == {"none", "poll", "attach", "again", "show", "register", "join"}

(* The goroutines that run beside: those of a deletion, and the
   deregistration a failed DomainAddAgent leaves behind. *)
Call == {"leave", "deregister", "late"}

(* Why an agent's registration may be out of step with its asset: history.
   "late": a late deregistration took it; "left": the call that was to end it
   failed, was lost with the process, or is never made (marked records). *)
Mishap == {"late", "left"}

VARIABLES
  tracked,  \* the assets whose request names a storm tracker
  work,     \* the next call of each task's ProvisionInstance
  tracker,  \* the server each asset's agent is registered for
  domain,   \* the assets whose agent is in the default domain
  calls,    \* pending goroutines of the agent services
  mishap    \* history: what befell each asset's agent

agents == <<tracked, tracker, domain>>
aside  == <<calls, mishap>>
pvars  == <<vars, work, agents, aside>>

ProvisioningInit ==
  /\ Init
  /\ tracked \in SUBSET Asset
  /\ work = [t \in Task |-> "none"]
  /\ tracker = [a \in Asset |-> Null]
  /\ domain = {}
  /\ calls = [a \in Asset |-> [c \in Call |-> 0]]
  /\ mishap = [a \in Asset |-> {}]

Fails(f)      == f \in PeerFaults
At(t, ws)     == task[t].pc = "configure" /\ work[t] \in ws
Goto(t, w)    == work' = [work EXCEPT ![t] = w]
Spawn(a, c)   == calls' = [calls EXCEPT ![a][c] = @ + 1]
Befalls(a, m) == mishap' = [mishap EXCEPT ![a] = @ \cup m]

-----------------------------------------------------------------------------
(* The calls of ProvisionInstance *)

(* RunServer, the call of createInstance. *)
CreateInstance(t, s) ==
  /\ RunServer(t, s)
  /\ Goto(t, IF task'[t].pc = "configure" THEN "poll" ELSE "none")
  /\ UNCHANGED <<agents, aside>>

(* waitServerToStart leaves its loop: the server is ACTIVE or in ERROR, or GetServer
   failed.  It reports no error in any of these cases, and it may never get here. *)
Started(t) ==
  /\ At(t, {"poll"})
  /\ Goto(t, "attach")
  /\ UNCHANGED <<vars, agents, aside>>

(* Mutant: the request does not keep the server of the failed attempt. *)
GiveUp_forget(t) ==
  /\ Put(t, [task[t] EXCEPT !.pc = "cleanup"])
  /\ Goto(t, "none")
  /\ UNCHANGED <<db, cReq, resched, peervars, history>>

(* The attempt ends with ErrorAssociateIP or ErrorStormRegister. *)
GiveUp(t) ==
  /\ Put(t, [task[t] EXCEPT !.pc = "cleanup", !.server = task[t].entity])
  /\ Goto(t, "none")
  /\ UNCHANGED <<db, cReq, resched, peervars, history>>

Reachable(s) == s \in cloud     \* a server's port lives as long as it does

(* An address is allocated for the server, in either round. *)
Attached(t) ==
  /\ At(t, {"attach", "again"}) /\ Reachable(task[t].entity)
  /\ Goto(t, "show")
  /\ UNCHANGED <<vars, agents, aside>>

(* The first allocation is refused; the round releases addresses nobody uses (or,
   on Neutron, asks for their deletion by address instead of id, in vain). *)
NotAllocated(t) ==
  /\ At(t, {"attach"}) /\ Fails("address")
  /\ Goto(t, "again")
  /\ UNCHANGED <<vars, agents, aside>>

(* The second refusal; no external network, or no port (Neutron); the address is
   allocated but cannot be added to the server (Nova). *)
AttachFails(t) ==
  /\ At(t, {"attach", "again"})
  /\ Fails("address") \/ ~Reachable(task[t].entity)
  /\ GiveUp(t)
  /\ UNCHANGED <<agents, aside>>

(* GetServer finds the server; a request without a tracker is done. *)
Shown(t) ==
  /\ At(t, {"show"}) /\ task[t].entity \in cloud
  /\ \/ task[t].id \in tracked /\ Goto(t, "register") /\ UNCHANGED vars
     \/ task[t].id \notin tracked /\ Goto(t, "none") /\ Configure(t)
  /\ UNCHANGED <<agents, aside>>

(* ErrorServerDetail: the loop of createServer cleans nothing up. *)
ShowFails(t) ==
  /\ At(t, {"show"})
  /\ Fails("show") \/ task[t].entity \notin cloud
  /\ Put(t, NextAttempt([task[t] EXCEPT !.server = task[t].entity]))
  /\ Scarred(task[t].id, {"detail"})
  /\ Goto(t, "none")
  /\ UNCHANGED <<db, cReq, resched, peervars, issued, owner, agents, aside>>

(* Mutant: an agent that is already registered is not registered again. *)
Registration_once(a, s) ==
  IF tracker[a] = Null THEN [tracker EXCEPT ![a] = s] ELSE tracker

(* The tracker keeps the server of the last registration of an agent. *)
Registration(a, s) == [tracker EXCEPT ![a] = s]

(* RegisterStormAgent, the POST to the tracker. *)
Register(t) ==
  /\ At(t, {"register"})
  /\ tracker' = Registration(task[t].id, task[t].entity)
  /\ Goto(t, "join")
  /\ UNCHANGED <<vars, tracked, domain, aside>>

(* It reports an error; the tracker may have taken it all the same. *)
RegisterFails(t) ==
  /\ At(t, {"register"}) /\ Fails("tracker")
  /\ tracker' \in {tracker, Registration(task[t].id, task[t].entity)}
  /\ GiveUp(t)
  /\ UNCHANGED <<tracked, domain, aside>>

(* DomainAddAgent: the attempt has succeeded. *)
Join(t) ==
  /\ At(t, {"join"})
  /\ domain' = domain \cup {task[t].id}
  /\ Configure(t)
  /\ Goto(t, "none")
  /\ UNCHANGED <<tracked, tracker, aside>>

(* It fails: the deregistration is left to a goroutine of its own. *)
JoinFails(t) ==
  /\ At(t, {"join"}) /\ Fails("light")
  /\ domain' \in {domain, domain \cup {task[t].id}}
  /\ Spawn(task[t].id, "late")
  /\ GiveUp(t)
  /\ UNCHANGED <<tracked, tracker, mishap>>

-----------------------------------------------------------------------------
(* The goroutines beside *)

Ends(a, c) == calls[a][c] > 0 /\ calls' = [calls EXCEPT ![a][c] = @ - 1]

(* DeRegisterStormAgent. *)
Deregister(a, c) ==
  /\ Ends(a, c)
  /\ tracker' = [tracker EXCEPT ![a] = Null]
  /\ Befalls(a, IF c = "late" THEN {"late"} ELSE {})
  /\ UNCHANGED <<vars, work, tracked, domain>>

DeregisterFails(a, c) ==
  /\ Fails("tracker") /\ Ends(a, c)
  /\ tracker' \in {tracker, [tracker EXCEPT ![a] = Null]}
  /\ Befalls(a, {"late", "left"})
  /\ UNCHANGED <<vars, work, tracked, domain>>

(* DomainDeleteAgent. *)
Leave(a) ==
  /\ Ends(a, "leave")
  /\ domain' = domain \ {a}
  /\ UNCHANGED <<vars, work, tracked, tracker, mishap>>

LeaveFails(a) ==
  /\ Fails("light") /\ Ends(a, "leave")
  /\ domain' \in {domain, domain \ {a}}
  /\ Befalls(a, {"left"})
  /\ UNCHANGED <<vars, work, tracked, tracker>>

(* Mutant: the agent is left in the tracker. *)
Delete_domainOnly(a, t) ==
  /\ DestroyAsset(a, t)
  /\ calls[a]["leave"] = 0
  /\ Spawn(a, "leave")
  /\ UNCHANGED <<work, agents, mishap>>

(* The consumer of DelNotification: beside the two goroutines of the engine,
   one that leaves the domain and one that deregisters.  Bound: one deletion
   of an asset has such goroutines at a time. *)
Delete(a, t) ==
  /\ DestroyAsset(a, t)
  /\ calls[a]["leave"] = 0 /\ calls[a]["deregister"] = 0
  /\ calls' = [calls EXCEPT ![a]["leave"] = 1, ![a]["deregister"] = 1]
  /\ UNCHANGED <<work, agents, mishap>>

(* The rescheduler removes a marked record, and nothing of its agent. *)
Unrecord(t) ==
  /\ Remove(t)
  /\ Befalls(task[t].id, IF task[t].op = "marked" THEN {"left"} ELSE {})
  /\ UNCHANGED <<work, agents, calls>>

Restart ==
  /\ Crash
  /\ work' = [t \in Task |-> "none"]
  /\ calls' = [a \in Asset |-> [c \in Call |-> 0]]
  /\ mishap' = [a \in Asset |-> IF \E c \in Call : calls[a][c] > 0
                                THEN mishap[a] \cup {"left"} ELSE mishap[a]]
  /\ UNCHANGED agents

-----------------------------------------------------------------------------
(* The steps of the engine that call none of these services. *)
Elsewhere ==
  /\ \/ \E a \in Asset : CreateAssetFails(a) \/ \E t \in Task : CreateAsset(a, t)
     \/ Dispatch \/ Scan \/ RescheduleDies
     \/ \E t \in Task :
          \/ SendRequest(t) \/ Start(t) \/ StartFails(t) \/ RunServerFails(t)
          \/ Cleanup(t) \/ Finish(t) \/ Notify(t) \/ Record(t)
          \/ LookUp(t) \/ ListFails(t) \/ LookUpFails(t) \/ Kill(t) \/ KillFails(t)
          \/ Detach(t) \/ Take(t)
  /\ UNCHANGED <<work, agents, aside>>

Provision(t) ==
  \/ \E s \in Server : CreateInstance(t, s)
  \/ Started(t) \/ Attached(t) \/ NotAllocated(t) \/ AttachFails(t)
  \/ Shown(t) \/ ShowFails(t)
  \/ Register(t) \/ RegisterFails(t) \/ Join(t) \/ JoinFails(t)

Beside(a) ==
  \/ \E c \in {"deregister", "late"} : Deregister(a, c) \/ DeregisterFails(a, c)
  \/ Leave(a) \/ LeaveFails(a)

ProvisioningNext ==
  \/ Elsewhere \/ Restart
  \/ \E t \in Task : Provision(t) \/ Unrecord(t) \/ \E a \in Asset : Delete(a, t)
  \/ \E a \in Asset : Beside(a)

ProvisioningSpec == ProvisioningInit /\ [][ProvisioningNext]_pvars

-----------------------------------------------------------------------------
(* ProvisionInstance call by call does what the engine takes it to do: every
   step is a step of Scheduler, one that fails as "associate" and "detail"
   allow, or changes nothing that Scheduler knows (serverprovision.go:127,
   scheduler.go:129). *)
Engine == INSTANCE Scheduler WITH Faults <- Faults \cup {"associate", "detail"}
RefinesEngine == Engine!Spec

Quiet(a) == ~Busy(a) /\ \A c \in Call : calls[a][c] = 0

(* The asset a caller was given has its agent registered for the very server
   it was given, and managed in the domain, unless a deregistration came late
   (stormstack.go:130) or a deletion met the worker or did not end
   (scheduler.go:104). *)
AgentInService ==
  \A a \in tracked :
    db[a].status = "SERVER_CREATED" /\ Quiet(a) =>
      \/ tracker[a] = db[a].server /\ a \in domain
      \/ "late" \in mishap[a]
      \/ scars[a] \cap {"overlap", "provider", "write", "crash"} # {}

(* An asset that is no more leaves no agent in the tracker or the domain,
   unless the call that was to take it out failed or was never made:
   the rescheduler deletes marked assets without it (scheduler.go:275). *)
NoStrayAgent ==
  \A a \in issued :
    db[a] = NoDoc /\ Quiet(a) =>
      \/ tracker[a] = Null /\ a \notin domain
      \/ "left" \in mishap[a]
      \/ scars[a] \cap {"overlap", "crash"} # {}
=============================================================================
