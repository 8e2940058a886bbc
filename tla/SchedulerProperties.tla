------------------------- MODULE SchedulerProperties -------------------------
(***************************************************************************)
(* What the provisioning engine promises.  The excuses are the mishaps of  *)
(* an asset's history (scars): each property names exactly those that can  *)
(* break it, so it also says that no other fault and no interleaving does. *)
(***************************************************************************)
EXTENDS Scheduler

(* Excused(a, kinds): asset a met one of these mishaps. *)
Excused(a, kinds) == scars[a] \cap kinds # {}

(* Some record or some goroutine still knows the server. *)
Referenced(s) ==
  \/ \E a \in Asset : db[a].server = s
  \/ \E t \in Task : ~Free(t) /\ s \in {task[t].server, task[t].entity}

(* Every server a record, a goroutine or the caller refers to was created for
   that very asset: goroutines share request objects by pointer, and no
   interleaving of create, delete and reschedule lets one asset's request
   act on (or hand out) another asset's server.
   (scheduler.go createServer, terminateInstance, notifyAttachAsset) *)
Owned(a, s) == s = Null \/ owner[s] = a
OwnedRecord(a) == /\ Owned(a, db[a].server) /\ Owned(a, db[a].ip)
                  /\ Owned(a, vertex[a])
OwnedTask(r) == /\ Owned(r.id, r.server) /\ Owned(r.id, r.ip)
                /\ Owned(r.id, r.entity)
OwnServer ==
  /\ \A a \in Asset : OwnedRecord(a)
  /\ \A t \in Task : ~Free(t) => OwnedTask(task[t])

(* No server is left running that nothing knows of, unless one of the seven
   mishaps struck its asset.  A failed attempt that reached RunServer
   (no address, no agent), a provider outage and a lost or refused
   notification never leak.  (createServer's cleanup, terminateInstance) *)
LeakScars == {"overlap", "crash", "write", "reply", "detail", "delete", "list"}
NoOrphan ==
  \A s \in cloud : Referenced(s) \/ Excused(owner[s], LeakScars)

(* A record that stands at SERVER_CREATED while no goroutine holds the asset
   describes a running server, with its own address, and the caller was told
   of exactly that server.  (createServer, updateAndNotify) *)
ReadyIsReal ==
  \A a \in Asset :
    /\ db[a].status = "SERVER_CREATED" /\ ~Busy(a)
    /\ ~Excused(a, {"overlap", "crash", "write", "provider"})
    => /\ db[a].server \in cloud
       /\ db[a].ip = db[a].server
       /\ vertex[a] = db[a].server

(* A RETRY record at rest owns no address and its last attempt's server is
   gone, and the caller has nothing attached: a rescheduled creation starts
   from nothing.  (createServer 143-146 and 158-162) *)
RetryIsClean ==
  \A a \in Asset :
    db[a].status = "RETRY" /\ ~Excused(a, {"overlap", "write", "detail", "delete"})
    => /\ db[a].ip = Null /\ vertex[a] = Null
       /\ db[a].server \notin cloud

(* NEW and BUILD are not picked up by the rescheduler, so a record may stand
   there only while some goroutine holds it; only a crash, a provider outage
   and a lost write strand it.  (RescheduleOldRequests 265) *)
NothingStranded ==
  \A a \in Asset :
    db[a].status \in {"NEW", "BUILD"}
    => Busy(a) \/ Excused(a, {"crash", "provider", "write"})

(* The caller is never left with an attached instance that does not run:
   every path that deletes a server detaches it at the caller, too.
   (the DelNotification consumer 104-112, terminateFailedResource) *)
CallerNotMisled ==
  \A a \in Asset :
    vertex[a] # Null /\ ~Busy(a)
    => \/ vertex[a] \in cloud
       \/ Excused(a, {"overlap", "crash", "notify"})

(* A deleted record comes back only when a worker and a deletion (or two
   rounds of the rescheduler) held the asset together: Update is an upsert
   and revives what was removed.  (mongoaccess.go 49-52) *)
StaysDeleted ==
  [][\A a \in Asset :
       a \in issued /\ db[a] = NoDoc /\ db'[a] # NoDoc => Excused(a, {"overlap"})]_vars

(* The engine deletes a server the caller has attached only on behalf of a
   deletion of that asset: neither the cleanup after a failed attempt nor the
   rescheduler's termination ever hits a server in service, however tasks
   overlap and whatever snapshot they act on. *)
KillsOnlyUnserved ==
  [][\A a \in Asset :
       vertex[a] \in cloud \ cloud'
       => \E t \in Task : /\ task[t].pc = "kill" /\ task[t].op = "delete"
                         /\ task[t].id = a]_vars

-----------------------------------------------------------------------------
(* An accepted deletion removes the record, whatever workers and rescheduler
   do meanwhile (one of them may bring it back later: StaysDeleted), even if a
   worker polls its server for ever. *)
DeletionEnds ==
  \A a \in Asset :
    (\E t \in Task : /\ task[t].op = "delete" /\ task[t].id = a
                     /\ task[t].pc \in {"lookup", "kill", "remove"})
    ~> (db[a] = NoDoc)

(* A record the rescheduler looks for leaves its status: one whose creation failed
   is built again, one the caller refused is removed, even if some worker polls its
   server for ever.  (RescheduleOldRequests at 255) *)
LeftoversMove ==
  \A a \in Asset, left \in {"RETRY", "MARKED_FOR_DELETION"} :
    (db[a].status = left) ~> (db[a].status # left)

(* An accepted request leaves NEW and BUILD, provided that servers do not stay
   between states for ever: no worker waits on a channel that is never drained, no
   attempt loop is endless but the poll of waitServerToStart, which the premise is
   about.  (createServer; serverprovision.go 548-567) *)
RequestServed ==
  Settling => \A a \in Asset : (db[a].status \in {"NEW", "BUILD"})
                               ~> (db[a].status \notin {"NEW", "BUILD"})

=============================================================================
