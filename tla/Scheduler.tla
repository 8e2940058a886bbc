------------------------------ MODULE Scheduler ------------------------------
(***************************************************************************)
(* The provisioning engine of stormio: the HTTP handlers that accept and   *)
(* delete asset requests (controllers/assets.go), the bounded channel      *)
(* between them and the workers, the workers that build servers, the       *)
(* deactivation goroutines and the rescheduler (scheduler/scheduler.go),   *)
(* over the Mongo collection of asset requests, the OpenStack compute      *)
(* service and the caller's platform ("Vertex").                           *)
(*                                                                         *)
(* A task is one request object in memory together with the goroutine that *)
(* holds its pointer.  Every handler works on its own snapshot of the      *)
(* record and writes the whole snapshot back (an upsert), so tasks for one *)
(* asset may overwrite each other: most properties are about that.         *)
(***************************************************************************)
EXTENDS Naturals, Sequences

CONSTANTS
  Asset,        \* identities of asset requests (fresh UUIDs)
  Server,       \* the servers OpenStack can hand out, each id used once
  Task,         \* bound: request objects in memory at a time
  Null,         \* no server, no address, no owner
  MaxBuffer,    \* capacity of CRequest (50 in the code)
  MaxAttempts,  \* provisioning attempts of one worker (5 in the code)
  DeleteTries,  \* DeleteServer calls of one termination (3 in the code)
  Faults        \* what the environment may do wrong

FaultKind == {"provider", "run", "reply", "associate", "detail", "delete",
              "list", "notify", "gone", "write", "dbdown", "crash"}

ASSUME BoundsAssumption ==
  /\ MaxBuffer \in Nat \ {0}
  /\ MaxAttempts \in Nat \ {0}
  /\ DeleteTries \in Nat \ {0}
ASSUME NullAssumption == Null \notin Asset \cup Server
ASSUME FaultsAssumption == Faults \subseteq FaultKind

Status == {"NEW", "BUILD", "SERVER_CREATED", "RETRY",
           "MARKED_FOR_DELETION", "NOTIFICATION_FAILED"}

(* A stored record: the fields of AssetRequest that the engine changes.  An
   address is named by the server it belongs to. *)
Doc   == [status : Status, server : Server \cup {Null}, ip : Server \cup {Null}]
NoDoc == [status |-> "NONE", server |-> Null, ip |-> Null]

(* What a task is for: "create" holds for createAsset's object and for a
   retry once it is back in CRequest; "delete" is destroyAsset's object;
   "retry" and "marked" are the rescheduler's. *)
Op == {"create", "delete", "retry", "marked"}

(* Where the goroutine stands.  At "configure" the worker polls its new server until
   that is ACTIVE or in ERROR, for as long as it takes (waitServerToStart), and then
   gives it an address and registers its agent. *)
WorkerPc == {"start", "run", "configure", "cleanup", "finish", "notify", "record"}
KillerPc == {"lookup", "kill", "remove", "gone"}
Pc == {"send", "queued", "listed"} \cup WorkerPc \cup KillerPc

TaskRec == [op : Op, pc : Pc, id : Asset, status : Status,
            server : Server \cup {Null}, ip : Server \cup {Null},
            entity : Server \cup {Null},   \* the server being configured
            tries  : Nat,                  \* loop counter of the goroutine
            detach : BOOLEAN]              \* notifyDettachAsset still to run

FreeTask == [op |-> "create", pc |-> "free", id |-> Null, status |-> "NONE",
             server |-> Null, ip |-> Null, entity |-> Null, tries |-> 0,
             detach |-> FALSE]

(* Why an asset's bookkeeping may be out of step with the cloud: history of
   the mishaps it met.  "overlap": two tasks held the asset at a time. *)
Scar == {"overlap", "crash", "provider", "write", "reply", "detail",
         "delete", "list", "notify"}

VARIABLES
  db,       \* the Assets collection
  task,     \* the request objects in memory
  cReq,     \* the CRequest channel
  resched,  \* the goroutine of RescheduleOldRequests: "up" or "dead"
  cloud,    \* the servers that exist in OpenStack
  vertex,   \* the instance the caller believes is attached, per asset
  issued,   \* the ids NewUUID has handed out
  owner,    \* history: the asset each server was created for
  scars     \* history: the mishaps of each asset

sysvars  == <<db, task, cReq, resched>>
peervars == <<cloud, vertex>>
history  == <<issued, owner, scars>>
vars     == <<sysvars, peervars, history>>

TypeOK ==
  /\ db \in [Asset -> Doc \cup {NoDoc}]
  /\ task \in [Task -> TaskRec \cup {FreeTask}]
  /\ cReq \in Seq(Task)
  /\ resched \in {"up", "dead"}
  /\ cloud \subseteq Server
  /\ vertex \in [Asset -> Server \cup {Null}]
  /\ issued \subseteq Asset
  /\ owner \in [Server -> Asset \cup {Null}]
  /\ scars \in [Asset -> SUBSET Scar]

Init ==
  /\ db = [a \in Asset |-> NoDoc]
  /\ task = [t \in Task |-> FreeTask]
  /\ cReq = <<>>
  /\ resched = "up"
  /\ cloud = {}
  /\ vertex = [a \in Asset |-> Null]
  /\ issued = {}
  /\ owner = [s \in Server |-> Null]
  /\ scars = [a \in Asset |-> {}]

-----------------------------------------------------------------------------
(* Helpers *)

Free(t)  == task[t].pc = "free"
Busy(a)  == \E t \in Task : ~Free(t) /\ task[t].id = a
May(f)   == f \in Faults
Scarred(a, kinds) == scars' = [scars EXCEPT ![a] = @ \cup kinds]
Put(t, r) == task' = [task EXCEPT ![t] = r]

(* Connection.Update: upsert the whole snapshot; its error is dropped. *)
Stored(r) == [status |-> r.status, server |-> r.server, ip |-> r.ip]
Update(r) ==
  \/ db' = [db EXCEPT ![r.id] = Stored(r)] /\ UNCHANGED scars
  \/ May("write") /\ UNCHANGED db /\ Scarred(r.id, {"write"})

(* The object a handler or the rescheduler holds after reading record a. *)
Snapshot(a, op, pc, detach) ==
  [op |-> op, pc |-> pc, id |-> a, status |-> db[a].status,
   server |-> db[a].server, ip |-> db[a].ip, entity |-> Null, tries |-> 0,
   detach |-> detach]

Overlap(as) == [a \in Asset |-> IF a \in as /\ Busy(a)
                                THEN scars[a] \cup {"overlap"} ELSE scars[a]]

-----------------------------------------------------------------------------
(* HTTP handlers *)

(* Mutant: the id of the request body is kept instead of a new UUID. *)
CreateAsset_bodyId(a, t) ==
  /\ db[a] = NoDoc /\ Free(t)
  /\ issued' = issued \cup {a}
  /\ db' = [db EXCEPT ![a] = [NoDoc EXCEPT !.status = "NEW"]]
  /\ Put(t, [FreeTask EXCEPT !.pc = "send", !.id = a, !.status = "NEW"])
  /\ UNCHANGED <<cReq, resched, cloud, vertex, owner, scars>>

(* createAsset stores the request as NEW; the handler then holds the object
   until CRequest takes it.  The checks before the insert (a provider, an address
   still to be had, a URL to notify, an agent) refuse some requests and store
   nothing.  Assumed: a request leaves out the fields the engine fills, as
   ServerId; createAsset does not clear them. *)
CreateAsset(a, t) ==
  /\ a \notin issued /\ Free(t)
  /\ issued' = issued \cup {a}
  /\ db' = [db EXCEPT ![a] = [NoDoc EXCEPT !.status = "NEW"]]
  /\ Put(t, [FreeTask EXCEPT !.pc = "send", !.id = a, !.status = "NEW"])
  /\ UNCHANGED <<cReq, resched, cloud, vertex, owner, scars>>

(* The insert takes effect but its reply is lost: the caller gets a 500 and
   the record stays. *)
CreateAssetFails(a) ==
  /\ May("write") /\ a \notin issued
  /\ issued' = issued \cup {a}
  /\ db' = [db EXCEPT ![a] = [NoDoc EXCEPT !.status = "NEW"]]
  /\ Scarred(a, {"write"})
  /\ UNCHANGED <<task, cReq, resched, cloud, vertex, owner>>

(* Mutant: the caller is not told of the deletion. *)
DestroyAsset_noDetach(a, t) ==
  /\ db[a] # NoDoc /\ Free(t)
  /\ Put(t, Snapshot(a, "delete", "lookup", FALSE))
  /\ scars' = Overlap({a})
  /\ UNCHANGED <<db, cReq, resched, cloud, vertex, issued, owner>>

(* destroyAsset reads the record and hands the snapshot, through the
   DelNotification channel, to goroutines that run side by side: the
   deactivation below and notifyDettachAsset (Detach). *)
DestroyAsset(a, t) ==
  /\ db[a] # NoDoc /\ Free(t)
  /\ Put(t, Snapshot(a, "delete", "lookup", TRUE))
  /\ scars' = Overlap({a})
  /\ UNCHANGED <<db, cReq, resched, cloud, vertex, issued, owner>>

(* provisioner.CRequest <- asset: blocks while the channel is full. *)
SendRequest(t) ==
  /\ task[t].pc = "send"
  /\ Len(cReq) < MaxBuffer
  /\ cReq' = Append(cReq, t)
  /\ Put(t, [task[t] EXCEPT !.op = "create", !.pc = "queued"])
  /\ UNCHANGED <<db, resched, peervars, history>>

-----------------------------------------------------------------------------
(* The worker of one create request *)

(* The consumer of CRequest spawns one worker per request; the throttle only
   delays it. *)
Dispatch ==
  /\ cReq # <<>>
  /\ cReq' = Tail(cReq)
  /\ Put(Head(cReq), [task[Head(cReq)] EXCEPT !.pc = "start", !.tries = 0])
  /\ UNCHANGED <<db, resched, peervars, history>>

Start(t) ==
  /\ task[t].pc = "start"
  /\ LET r == [task[t] EXCEPT !.pc = "run", !.status = "BUILD"]
     IN Put(t, r) /\ Update(r)
  /\ UNCHANGED <<cReq, resched, peervars, issued, owner>>

(* No provider: createServer returns before it has written anything. *)
StartFails(t) ==
  /\ May("provider") /\ task[t].pc = "start"
  /\ Put(t, FreeTask)
  /\ Scarred(task[t].id, {"provider"})
  /\ UNCHANGED <<db, cReq, resched, peervars, issued, owner>>

(* Mutant: the status is left at BUILD. *)
NextAttempt_keepStatus(r) ==
  IF r.tries + 1 < MaxAttempts
  THEN [r EXCEPT !.pc = "run", !.entity = Null, !.tries = @ + 1]
  ELSE [r EXCEPT !.pc = "finish", !.entity = Null, !.tries = 0]

(* The request r after a failed attempt: the next one, or RETRY when all are
   used up. *)
NextAttempt(r) ==
  IF r.tries + 1 < MaxAttempts
  THEN [r EXCEPT !.pc = "run", !.entity = Null, !.tries = @ + 1]
  ELSE [r EXCEPT !.pc = "finish", !.entity = Null, !.tries = 0, !.status = "RETRY"]

Fresh == {s \in Server : owner[s] = Null}

RunServer(t, s) ==
  /\ task[t].pc = "run" /\ s \in Fresh
  /\ cloud' = cloud \cup {s}
  /\ owner' = [owner EXCEPT ![s] = task[t].id]
  /\ \/ /\ Put(t, [task[t] EXCEPT !.pc = "configure", !.entity = s])
        /\ UNCHANGED scars
     \/ /\ May("reply")   \* created, but the call reports an error
        /\ Put(t, NextAttempt(task[t]))
        /\ Scarred(task[t].id, {"reply"})
  /\ UNCHANGED <<db, cReq, resched, vertex, issued>>

(* Refused; always so once the quota of servers is exhausted. *)
RunServerFails(t) ==
  /\ task[t].pc = "run"
  /\ May("run") \/ Fresh = {}
  /\ Put(t, NextAttempt(task[t]))
  /\ UNCHANGED <<db, cReq, resched, peervars, history>>

(* Mutant: the server is looked up by its name, which others may share. *)
Configure_byName(t) ==
  /\ task[t].pc = "configure"
  /\ \E s \in cloud :
       Put(t, [task[t] EXCEPT !.pc = "finish", !.status = "SERVER_CREATED",
                 !.server = s, !.ip = s, !.entity = Null, !.tries = 0])
  /\ UNCHANGED <<db, cReq, resched, peervars, history>>

(* The rest of ProvisionInstance succeeds: the poll has ended, an address is
   attached and the agent is registered. *)
Configure(t) ==
  /\ task[t].pc = "configure"
  /\ Put(t, [task[t] EXCEPT !.pc = "finish", !.status = "SERVER_CREATED",
               !.server = task[t].entity, !.ip = task[t].entity,
               !.entity = Null, !.tries = 0])
  /\ UNCHANGED <<db, cReq, resched, peervars, history>>

(* Mutant: the failed attempt's server is not noted, so the cleanup deletes another or none. *)
ConfigureFails_unnamed(t) ==
  /\ May("associate") /\ task[t].pc = "configure"
  /\ Put(t, [task[t] EXCEPT !.pc = "cleanup"])
  /\ UNCHANGED <<db, cReq, resched, peervars, history>>

(* Mutant: these errors are missing from the switch, too. *)
ConfigureFails_leak(t) ==
  /\ May("associate") /\ task[t].pc = "configure"
  /\ Put(t, NextAttempt([task[t] EXCEPT !.server = task[t].entity]))
  /\ UNCHANGED <<db, cReq, resched, peervars, history>>

(* No address or no agent: the attempt's server is to be deleted. *)
ConfigureFails(t) ==
  /\ May("associate") /\ task[t].pc = "configure"
  /\ Put(t, [task[t] EXCEPT !.pc = "cleanup", !.server = task[t].entity])
  /\ UNCHANGED <<db, cReq, resched, peervars, history>>

(* ErrorServerDetail is in no case of the switch: nothing is cleaned up. *)
DetailFails(t) ==
  /\ May("detail") /\ task[t].pc = "configure"
  /\ Put(t, NextAttempt([task[t] EXCEPT !.server = task[t].entity]))
  /\ Scarred(task[t].id, {"detail"})
  /\ UNCHANGED <<db, cReq, resched, peervars, issued, owner>>

(* DeprovisionInstance in the attempt loop, called once, its error ignored. *)
Cleanup(t) ==
  /\ task[t].pc = "cleanup"
  /\ Put(t, NextAttempt(task[t]))
  /\ \/ cloud' = cloud \ {task[t].server} /\ UNCHANGED scars
     \/ May("delete") /\ UNCHANGED cloud /\ Scarred(task[t].id, {"delete"})
  /\ UNCHANGED <<db, cReq, resched, vertex, issued, owner>>

(* The final Update of createServer; a request without an address is not
   notified. *)
Finish(t) ==
  /\ task[t].pc = "finish"
  /\ Put(t, IF task[t].ip = Null THEN FreeTask
            ELSE [task[t] EXCEPT !.pc = "notify"])
  /\ Update(task[t])
  /\ UNCHANGED <<cReq, resched, peervars, issued, owner>>

(* Mutant: the result of the notification is not recorded. *)
Notify_unchecked(t) ==
  /\ task[t].pc = "notify"
  /\ Put(t, [task[t] EXCEPT !.pc = "record"])
  /\ vertex' \in {vertex, [vertex EXCEPT ![task[t].id] = task[t].server]}
  /\ UNCHANGED <<db, cReq, resched, cloud, history>>

(* notifyAttachAsset: acknowledged, refused with 404, or failed, in which
   case the caller may have taken it all the same. *)
Notify(t) ==
  /\ task[t].pc = "notify"
  /\ LET a == task[t].id
         attached == [vertex EXCEPT ![a] = task[t].server]
         After(status) == Put(t, [task[t] EXCEPT !.pc = "record", !.status = status])
     IN \/ After(task[t].status) /\ vertex' = attached
        \/ May("gone") /\ After("MARKED_FOR_DELETION") /\ UNCHANGED vertex
        \/ /\ May("notify")
           /\ After("NOTIFICATION_FAILED")
           /\ vertex' \in {vertex, attached}
  /\ UNCHANGED <<db, cReq, resched, cloud, history>>

(* The Update that ends updateAndNotify. *)
Record(t) ==
  /\ task[t].pc = "record"
  /\ Put(t, FreeTask)
  /\ Update(task[t])
  /\ UNCHANGED <<cReq, resched, peervars, issued, owner>>

-----------------------------------------------------------------------------
(* Termination: terminateInstance and what follows it *)

(* notifyDeActivation removes the record, the rescheduler's retry is sent
   back to CRequest. *)
Terminated(r) ==
  [r EXCEPT !.pc = IF r.op = "retry" THEN "send" ELSE "remove", !.tries = 0]

Ended(r) == IF r.detach THEN [r EXCEPT !.pc = "gone"] ELSE FreeTask

LookingUp(t) == task[t].pc = "lookup" /\ (task[t].op = "retry" => ~task[t].detach)

(* GetServer: the server is in the list of its name, or it is not. *)
LookUp(t) ==
  /\ LookingUp(t)
  /\ Put(t, IF task[t].server \in cloud
            THEN [task[t] EXCEPT !.pc = "kill", !.tries = 0]
            ELSE Terminated(task[t]))
  /\ UNCHANGED <<db, cReq, resched, peervars, history>>

(* GetServer drops the error of ListServers and reports "not found". *)
ListFails(t) ==
  /\ May("list") /\ LookingUp(t)
  /\ Put(t, Terminated(task[t]))
  /\ Scarred(task[t].id, {"list"})
  /\ UNCHANGED <<db, cReq, resched, peervars, issued, owner>>

(* No provider: a deactivation leaves the record, a retry goes on (the
   rescheduler ignores the error). *)
LookUpFails(t) ==
  /\ May("provider") /\ LookingUp(t)
  /\ Put(t, IF task[t].op = "retry" THEN Terminated(task[t]) ELSE Ended(task[t]))
  /\ Scarred(task[t].id, {"provider"})
  /\ UNCHANGED <<db, cReq, resched, peervars, issued, owner>>

Kill(t) ==
  /\ task[t].pc = "kill" /\ task[t].server \in cloud
  /\ cloud' = cloud \ {task[t].server}
  /\ Put(t, Terminated(task[t]))
  /\ UNCHANGED <<db, cReq, resched, vertex, history>>

(* Mutant: the loop has no end. *)
KillFails_forever(t) ==
  /\ task[t].pc = "kill"
  /\ May("delete") \/ task[t].server \notin cloud
  /\ cloud' \in {cloud, cloud \ {task[t].server}}
  /\ UNCHANGED <<db, task, cReq, resched, vertex, history>>

(* DeleteServer fails: refused, its reply lost, or the server is already
   gone.  After the last try terminateInstance goes on as if it had worked. *)
KillFails(t) ==
  /\ task[t].pc = "kill"
  /\ May("delete") \/ task[t].server \notin cloud
  /\ cloud' \in {cloud, cloud \ {task[t].server}}
  /\ LET last == task[t].tries + 1 = DeleteTries
     IN /\ Put(t, IF last THEN Terminated(task[t])
                  ELSE [task[t] EXCEPT !.tries = @ + 1])
        /\ IF last /\ task[t].server \in cloud'
           THEN Scarred(task[t].id, {"delete"}) ELSE UNCHANGED scars
  /\ UNCHANGED <<db, cReq, resched, vertex, issued, owner>>

(* conn.Remove; nobody reads the error notifyDeActivation returns. *)
Remove(t) ==
  /\ task[t].pc = "remove"
  /\ Put(t, Ended(task[t]))
  /\ \/ db' = [db EXCEPT ![task[t].id] = NoDoc] /\ UNCHANGED scars
     \/ May("write") /\ UNCHANGED db /\ Scarred(task[t].id, {"write"})
  /\ UNCHANGED <<cReq, resched, peervars, issued, owner>>

(* notifyDettachAsset: before the termination of a retry, beside that of a
   deletion. *)
Detach(t) ==
  /\ task[t].detach /\ task[t].pc \in KillerPc
  /\ Put(t, IF task[t].pc = "gone" THEN FreeTask
            ELSE [task[t] EXCEPT !.detach = FALSE])
  /\ LET detached == [vertex EXCEPT ![task[t].id] = Null]
     IN \/ vertex' = detached /\ UNCHANGED scars
        \/ /\ May("notify")
           /\ vertex' \in {vertex, detached}
           /\ Scarred(task[t].id, {"notify"})
  /\ UNCHANGED <<db, cReq, resched, cloud, issued, owner>>

-----------------------------------------------------------------------------
(* RescheduleOldRequests *)

OfRescheduler(t) == ~Free(t) /\ task[t].op \in {"retry", "marked"}

(* Mutants: a status is forgotten, or one too many is asked for. *)
Due_noRetry == {a \in Asset : db[a].status = "MARKED_FOR_DELETION"}
Due_noMarked == {a \in Asset : db[a].status = "RETRY"}
Due_created == {a \in Asset : db[a].status \in
                                {"RETRY", "MARKED_FOR_DELETION", "SERVER_CREATED"}}

(* The statuses a round asks for. *)
Due == {a \in Asset : db[a].status \in {"RETRY", "MARKED_FOR_DELETION"}}

(* One FindAll: the snapshots of all due records, taken together and then
   worked off one by one.  Runs only when the last round is over. *)
Scan ==
  /\ resched = "up"
  /\ \A t \in Task : ~OfRescheduler(t)
  /\ Due # {}
  /\ \E slot \in [Due -> {t \in Task : Free(t)}] :
       /\ \A a, b \in Due : slot[a] = slot[b] => a = b
       /\ task' = [t \in Task |->
            IF \E a \in Due : slot[a] = t
            THEN LET a == CHOOSE x \in Due : slot[x] = t
                     retry == db[a].status = "RETRY"
                 IN Snapshot(a, IF retry THEN "retry" ELSE "marked", "listed", retry)
            ELSE task[t]]
  /\ scars' = Overlap(Due)
  /\ UNCHANGED <<db, cReq, resched, cloud, vertex, issued, owner>>

(* The next snapshot of the round. *)
Take(t) ==
  /\ task[t].pc = "listed"
  /\ \A u \in Task : OfRescheduler(u) => task[u].pc = "listed"
  /\ Put(t, [task[t] EXCEPT !.pc = "lookup"])
  /\ UNCHANGED <<db, cReq, resched, peervars, history>>

(* No session or a failed query: the goroutine returns and is not restarted. *)
RescheduleDies ==
  /\ May("dbdown") /\ resched = "up"
  /\ \A t \in Task : ~OfRescheduler(t)
  /\ resched' = "dead"
  /\ UNCHANGED <<db, task, cReq, peervars, history>>

(* The process ends (a worker without a session closes a nil one and panics,
   or it is killed) and is started again: nothing in memory survives. *)
Crash ==
  /\ May("crash")
  /\ task' = [t \in Task |-> FreeTask]
  /\ cReq' = <<>>
  /\ resched' = "up"
  /\ scars' = [a \in Asset |-> IF Busy(a) THEN scars[a] \cup {"crash"} ELSE scars[a]]
  /\ UNCHANGED <<db, peervars, issued, owner>>

-----------------------------------------------------------------------------
Handler == \/ \E a \in Asset, t \in Task : CreateAsset(a, t) \/ DestroyAsset(a, t)
           \/ \E a \in Asset : CreateAssetFails(a)

Worker(t) == \/ SendRequest(t) \/ Start(t) \/ StartFails(t)
             \/ \E s \in Server : RunServer(t, s)
             \/ RunServerFails(t) \/ Configure(t) \/ ConfigureFails(t)
             \/ DetailFails(t) \/ Cleanup(t) \/ Finish(t) \/ Notify(t) \/ Record(t)

Killer(t) == \/ LookUp(t) \/ ListFails(t) \/ LookUpFails(t) \/ Kill(t)
             \/ KillFails(t) \/ Remove(t)

Next == \/ Handler \/ Dispatch \/ Scan \/ RescheduleDies \/ Crash
        \/ \E t \in Task : Worker(t) \/ Killer(t) \/ Detach(t) \/ Take(t)

Spec == Init /\ [][Next]_vars

(* Goroutines that can run do run, and every peer is assumed to answer each call,
   with a result or an error (goose's HTTP client sets no timeout).  Nothing is
   assumed about the poll at "configure", which has no bound.  A blocked sender of
   a Go channel waits in FIFO order, so room that keeps coming back is its room
   (SF).  The rescheduler's round comes round again after five minutes: SF, for the
   bound Task may disable it in between.  Callers, faults and crashes are under no
   obligation. *)
FairSpec ==
  /\ Spec
  /\ WF_vars(Dispatch) /\ SF_vars(Scan)
  /\ \A t \in Task : /\ WF_vars(task[t].pc # "configure" /\ Worker(t))
                     /\ SF_vars(SendRequest(t))
                     /\ WF_vars(Killer(t)) /\ WF_vars(Detach(t))
                     /\ WF_vars(Take(t))

(* Every server that is polled becomes ACTIVE or goes into ERROR; it need not. *)
Settling ==
  \A t \in Task : WF_vars(Configure(t) \/ ConfigureFails(t) \/ DetailFails(t))

=============================================================================
