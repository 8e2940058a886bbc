--------------------------- MODULE SchedulerProofs ---------------------------
(***************************************************************************)
(* Proofs about the provisioning engine, for any number of assets, servers *)
(* and tasks, any bounds and any set of faults: types, ownership, what     *)
(* each step does, and what holds of single records and single servers     *)
(* whatever tasks overlap (Shaped, Promised and Condemned of               *)
(* SchedulerInvariant), and that only a deletion is after a server in      *)
(* service.                                                                *)
(***************************************************************************)
EXTENDS SchedulerInvariant, TLAPS

-----------------------------------------------------------------------------
(* Helpers on tasks *)

(* The channel holds queued tasks only, none of them twice. *)
ChannelOK ==
  /\ \A i \in 1..Len(cReq) : task[cReq[i]].pc = "queued"
  /\ \A i, j \in 1..Len(cReq) : cReq[i] = cReq[j] => i = j

Typed == TypeOK /\ ChannelOK

(* An active task is a full record, a free one is FreeTask. *)
LEMMA ActiveTask ==
  ASSUME TypeOK, NEW t \in Task
  PROVE  /\ task[t].pc # "free" <=> task[t] \in TaskRec
         /\ task[t].pc = "free" <=> task[t] = FreeTask
BY DEF TypeOK, TaskRec, FreeTask, Pc, WorkerPc, KillerPc

(* The task after a failed attempt is a worker's, with the same asset. *)
LEMMA NextAttemptType ==
  ASSUME NEW r \in TaskRec
  PROVE  /\ NextAttempt(r) \in TaskRec
         /\ NextAttempt(r).pc \in {"run", "finish"}
         /\ NextAttempt(r).id = r.id
         /\ NextAttempt(r).op = r.op
         /\ NextAttempt(r).server = r.server
         /\ NextAttempt(r).ip = r.ip
         /\ NextAttempt(r).entity = Null
         /\ NextAttempt(r).pc = "finish" => NextAttempt(r).status = "RETRY"
<1>1. CASE r.tries + 1 < MaxAttempts
  <2>1. NextAttempt(r) = [r EXCEPT !.pc = "run", !.entity = Null, !.tries = r.tries + 1]
    BY <1>1 DEF NextAttempt
  <2>2. "run" \in Pc /\ r.tries + 1 \in Nat
    BY DEF TaskRec, Pc, WorkerPc
  <2>3. NextAttempt(r) \in TaskRec
    BY <2>1, <2>2, Zenon DEF TaskRec
  <2>4. QED BY <2>1, <2>3 DEF TaskRec
<1>2. CASE ~(r.tries + 1 < MaxAttempts)
  <2>1. NextAttempt(r) = [r EXCEPT !.pc = "finish", !.entity = Null, !.tries = 0,
                                   !.status = "RETRY"]
    BY <1>2 DEF NextAttempt
  <2>2. "finish" \in Pc /\ 0 \in Nat /\ "RETRY" \in Status
    BY DEF Pc, WorkerPc, Status
  <2>3. NextAttempt(r) \in TaskRec
    BY <2>1, <2>2, Zenon DEF TaskRec
  <2>4. QED BY <2>1, <2>3 DEF TaskRec
<1>3. QED BY <1>1, <1>2

(* So is the task after a termination, which goes on with the same asset. *)
LEMMA TerminatedType ==
  ASSUME NEW r \in TaskRec
  PROVE  /\ Terminated(r) \in TaskRec
         /\ Terminated(r).pc \in {"send", "remove"}
         /\ Terminated(r).id = r.id
         /\ Terminated(r).op = r.op
         /\ Terminated(r).server = r.server
         /\ Terminated(r).ip = r.ip
         /\ Terminated(r).entity = r.entity
<1> DEFINE pc == IF r.op = "retry" THEN "send" ELSE "remove"
<1>1. pc \in Pc /\ pc \in {"send", "remove"} /\ 0 \in Nat
  BY DEF Pc, KillerPc
<1>2. Terminated(r) = [r EXCEPT !.pc = pc, !.tries = 0]
  BY DEF Terminated
<1> HIDE DEF pc
<1>3. Terminated(r) \in TaskRec
  BY <1>1, <1>2, Zenon DEF TaskRec
<1>4. QED BY <1>1, <1>2, <1>3 DEF TaskRec

(* A deactivation that has ended waits for its detach call or is over. *)
LEMMA EndedType ==
  ASSUME NEW r \in TaskRec
  PROVE  \/ Ended(r) = FreeTask
         \/ /\ Ended(r) \in TaskRec
            /\ Ended(r).pc = "gone" /\ Ended(r).id = r.id /\ Ended(r).op = r.op
            /\ Ended(r).server = r.server /\ Ended(r).ip = r.ip
            /\ Ended(r).entity = r.entity
<1>1. CASE r.detach
  <2>1. Ended(r) = [r EXCEPT !.pc = "gone"]
    BY <1>1 DEF Ended
  <2>2. "gone" \in Pc
    BY DEF Pc, KillerPc
  <2>3. Ended(r) \in TaskRec
    BY <2>1, <2>2, Zenon DEF TaskRec
  <2>4. QED BY <2>1, <2>3 DEF TaskRec
<1>2. CASE ~r.detach
  BY <1>2 DEF Ended
<1>3. QED BY <1>1, <1>2

(* Writing one task's slot. *)
LEMMA PutType ==
  ASSUME TypeOK, NEW t \in Task, NEW r \in TaskRec \cup {FreeTask}, Put(t, r)
  PROVE  /\ task' \in [Task -> TaskRec \cup {FreeTask}]
         /\ task'[t] = r
         /\ \A u \in Task : u # t => task'[u] = task[u]
BY DEF TypeOK, Put

(* The channel is untouched by a step of a task that is not in it. *)
LEMMA ChannelKept ==
  ASSUME Typed, NEW t \in Task, task[t].pc # "queued",
         NEW r \in TaskRec \cup {FreeTask}, Put(t, r), cReq' = cReq
  PROVE  ChannelOK'
<1>1. \A i \in 1..Len(cReq) : cReq[i] \in Task
  BY DEF Typed, TypeOK
<1>2. \A i \in 1..Len(cReq) : cReq[i] # t
  BY DEF Typed, ChannelOK
<1>3. \A u \in Task : u # t => task'[u] = task[u]
  BY PutType DEF Typed
<1>4. \A i \in 1..Len(cReq) : task'[cReq[i]].pc = "queued"
  BY <1>1, <1>2, <1>3 DEF Typed, ChannelOK
<1>5. QED BY <1>4 DEF Typed, ChannelOK

(* Writing a record, and marking an asset. *)
LEMMA UpdateType ==
  ASSUME TypeOK, NEW r \in TaskRec, Update(r)
  PROVE  /\ db' \in [Asset -> Doc \cup {NoDoc}]
         /\ scars' \in [Asset -> SUBSET Scar]
         /\ r.id \in Asset
<1>1. r.id \in Asset /\ Stored(r) \in Doc
  BY DEF TaskRec, Stored, Doc
<1>2. QED BY <1>1 DEF TypeOK, Update, Scarred, Scar

LEMMA ScarredType ==
  ASSUME TypeOK, NEW a \in Asset, NEW kinds \in SUBSET Scar, Scarred(a, kinds)
  PROVE  /\ scars' \in [Asset -> SUBSET Scar]
         /\ \A b \in Asset : scars[b] \subseteq scars'[b]
         /\ kinds \subseteq scars'[a]
BY DEF TypeOK, Scarred

-----------------------------------------------------------------------------
(* Type correctness *)

(* What a step may do to everything but the tasks and the channel. *)
WorldTyped ==
  /\ db' \in [Asset -> Doc \cup {NoDoc}]
  /\ resched' \in {"up", "dead"}
  /\ cloud' \subseteq Server
  /\ vertex' \in [Asset -> Server \cup {Null}]
  /\ issued' \subseteq Asset
  /\ owner' \in [Server -> Asset \cup {Null}]
  /\ scars' \in [Asset -> SUBSET Scar]

(* A step of one task that leaves the channel alone. *)
LEMMA TaskStepTyped ==
  ASSUME Typed, NEW t \in Task, task[t].pc # "queued",
         NEW r \in TaskRec \cup {FreeTask}, Put(t, r), cReq' = cReq, WorldTyped
  PROVE  Typed'
<1>1. task' \in [Task -> TaskRec \cup {FreeTask}]
  BY PutType DEF Typed
<1>2. ChannelOK'
  BY ChannelKept
<1>3. QED BY <1>1, <1>2 DEF Typed, TypeOK, WorldTyped

LEMMA HandlerTyped == Typed /\ Handler => Typed'
<1> SUFFICES ASSUME Typed, Handler PROVE Typed'
  OBVIOUS
<1>0. TypeOK BY DEF Typed
<1>1. ASSUME NEW a \in Asset, NEW t \in Task, CreateAsset(a, t) PROVE Typed'
  <2> DEFINE r == [FreeTask EXCEPT !.pc = "send", !.id = a, !.status = "NEW"]
  <2>1. r \in TaskRec
    BY DEF FreeTask, TaskRec, Op, Pc, Status
  <2>2. db' \in [Asset -> Doc \cup {NoDoc}]
    BY <1>0, <1>1 DEF CreateAsset, TypeOK, Doc, NoDoc, Status
  <2>3. WorldTyped
    BY <1>0, <1>1, <2>2 DEF CreateAsset, TypeOK, WorldTyped
  <2>4. task[t].pc # "queued" /\ Put(t, r) /\ cReq' = cReq
    BY <1>1 DEF CreateAsset, Free
  <2> HIDE DEF r
  <2>5. QED BY <2>1, <2>3, <2>4, TaskStepTyped
<1>2. ASSUME NEW a \in Asset, NEW t \in Task, DestroyAsset(a, t) PROVE Typed'
  <2> DEFINE r == Snapshot(a, "delete", "lookup", TRUE)
  <2>1. r \in TaskRec
    BY <1>0, <1>2 DEF DestroyAsset, TypeOK, Doc, NoDoc, Snapshot, TaskRec, Op, Pc, KillerPc
  <2>2. scars' \in [Asset -> SUBSET Scar]
    BY <1>0, <1>2 DEF DestroyAsset, TypeOK, Overlap, Scar
  <2>3. WorldTyped
    BY <1>0, <1>2, <2>2 DEF DestroyAsset, TypeOK, WorldTyped
  <2>4. task[t].pc # "queued" /\ Put(t, r) /\ cReq' = cReq
    BY <1>2 DEF DestroyAsset, Free
  <2> HIDE DEF r
  <2>5. QED BY <2>1, <2>3, <2>4, TaskStepTyped
<1>3. ASSUME NEW a \in Asset, CreateAssetFails(a) PROVE Typed'
  <2>1. db' \in [Asset -> Doc \cup {NoDoc}]
    BY <1>0, <1>3 DEF CreateAssetFails, TypeOK, Doc, NoDoc, Status
  <2>2. scars' \in [Asset -> SUBSET Scar]
    BY <1>0, <1>3, ScarredType DEF CreateAssetFails, Scar
  <2>3. QED
    BY <1>0, <1>3, <2>1, <2>2 DEF CreateAssetFails, Typed, TypeOK, ChannelOK
<1>4. QED BY <1>1, <1>2, <1>3 DEF Handler

LEMMA WorkerTyped ==
  ASSUME Typed, NEW t \in Task, Worker(t) PROVE Typed'
<1>0. TypeOK BY DEF Typed
<1>a. task[t].pc # "free" => task[t] \in TaskRec
  BY <1>0, ActiveTask
<1>b. FreeTask \in TaskRec \cup {FreeTask} OBVIOUS
<1>1. CASE SendRequest(t)
  <2> DEFINE r == [task[t] EXCEPT !.op = "create", !.pc = "queued"]
  <2>1. task[t] \in TaskRec /\ "create" \in Op /\ "queued" \in Pc
    BY <1>1, <1>a DEF SendRequest, Op, Pc
  <2>2. r \in TaskRec
    BY <2>1, Zenon DEF TaskRec
  <2>3. r.pc = "queued"
    BY <2>1 DEF TaskRec
  <2>4. Put(t, r) /\ cReq' = Append(cReq, t)
    BY <1>1 DEF SendRequest
  <2> HIDE DEF r
  <2>5. /\ task' \in [Task -> TaskRec \cup {FreeTask}]
        /\ task'[t] = r
        /\ \A u \in Task : u # t => task'[u] = task[u]
    BY <1>0, <2>2, <2>4, PutType
  <2>6. /\ cReq' \in Seq(Task) /\ Len(cReq') = Len(cReq) + 1
        /\ \A i \in 1..Len(cReq) : cReq'[i] = cReq[i] /\ cReq[i] \in Task
        /\ cReq'[Len(cReq) + 1] = t
    BY <1>0, <2>4 DEF TypeOK
  <2>7. \A i \in 1..Len(cReq) : cReq[i] # t
    BY <1>1 DEF Typed, ChannelOK, SendRequest
  <2>8. Len(cReq) \in Nat
    BY <1>0 DEF TypeOK
  <2>9. \A i \in 1..Len(cReq)' : task'[cReq'[i]].pc = "queued"
    BY <2>3, <2>5, <2>6, <2>7, <2>8 DEF Typed, ChannelOK
  <2>10. \A i, j \in 1..Len(cReq)' : cReq'[i] = cReq'[j] => i = j
    BY <2>6, <2>7, <2>8 DEF Typed, ChannelOK
  <2>11. QED
    BY <1>0, <1>1, <2>5, <2>6, <2>9, <2>10
       DEF SendRequest, Typed, TypeOK, ChannelOK, peervars, history
<1>2. CASE Start(t)
  <2> DEFINE r == [task[t] EXCEPT !.pc = "run", !.status = "BUILD"]
  <2>1. task[t] \in TaskRec /\ "run" \in Pc /\ "BUILD" \in Status
    BY <1>2, <1>a DEF Start, Pc, WorkerPc, Status
  <2>2. r \in TaskRec
    BY <2>1, Zenon DEF TaskRec
  <2>3. task[t].pc # "queued" /\ Put(t, r) /\ Update(r) /\ cReq' = cReq
    BY <1>2 DEF Start
  <2> HIDE DEF r
  <2>4. WorldTyped
    BY <1>0, <1>2, <2>2, <2>3, UpdateType DEF Start, TypeOK, WorldTyped, peervars
  <2>5. QED BY <2>2, <2>3, <2>4, TaskStepTyped
<1>3. CASE StartFails(t)
  <2>1. task[t] \in TaskRec
    BY <1>3, <1>a DEF StartFails
  <2>2. scars' \in [Asset -> SUBSET Scar]
    BY <1>0, <1>3, <2>1, ScarredType DEF StartFails, Scar, TaskRec
  <2>3. WorldTyped
    BY <1>0, <1>3, <2>2 DEF StartFails, TypeOK, WorldTyped, peervars
  <2>4. QED BY <1>3, <1>b, <2>3, TaskStepTyped DEF StartFails
<1>4. ASSUME NEW s \in Server, RunServer(t, s) PROVE Typed'
  <2>1. task[t] \in TaskRec
    BY <1>4, <1>a DEF RunServer
  <2>2. cloud' \subseteq Server /\ owner' \in [Server -> Asset \cup {Null}]
    BY <1>0, <1>4, <2>1 DEF RunServer, TypeOK, TaskRec
  <2>3. CASE Put(t, [task[t] EXCEPT !.pc = "configure", !.entity = s]) /\ UNCHANGED scars
    <3> DEFINE r == [task[t] EXCEPT !.pc = "configure", !.entity = s]
    <3>1. "configure" \in Pc BY DEF Pc, WorkerPc
    <3>2. r \in TaskRec BY <2>1, <3>1, Zenon DEF TaskRec
    <3>3. WorldTyped BY <1>0, <1>4, <2>2, <2>3 DEF RunServer, TypeOK, WorldTyped
    <3>4. Put(t, r) BY <2>3
    <3> HIDE DEF r
    <3>5. QED BY <1>4, <3>2, <3>3, <3>4, TaskStepTyped DEF RunServer
  <2>4. CASE Put(t, NextAttempt(task[t])) /\ Scarred(task[t].id, {"reply"})
    <3>1. scars' \in [Asset -> SUBSET Scar]
      BY <1>0, <2>1, <2>4, ScarredType DEF Scar, TaskRec
    <3>2. WorldTyped BY <1>0, <1>4, <2>2, <3>1 DEF RunServer, TypeOK, WorldTyped
    <3>3. QED BY <1>4, <2>1, <2>4, <3>2, NextAttemptType, TaskStepTyped DEF RunServer
  <2>5. QED BY <1>4, <2>3, <2>4 DEF RunServer
<1>5. CASE RunServerFails(t)
  <2>1. task[t] \in TaskRec
    BY <1>5, <1>a DEF RunServerFails
  <2>2. WorldTyped
    BY <1>0, <1>5 DEF RunServerFails, TypeOK, WorldTyped, peervars, history
  <2>3. QED BY <1>5, <2>1, <2>2, NextAttemptType, TaskStepTyped DEF RunServerFails
<1>6. CASE Configure(t)
  <2> DEFINE r == [task[t] EXCEPT !.pc = "finish", !.status = "SERVER_CREATED",
                     !.server = task[t].entity, !.ip = task[t].entity,
                     !.entity = Null, !.tries = 0]
  <2>1. /\ task[t] \in TaskRec /\ "finish" \in Pc /\ "SERVER_CREATED" \in Status
        /\ 0 \in Nat
    BY <1>6, <1>a DEF Configure, Pc, WorkerPc, Status
  <2>2. task[t].entity \in Server \cup {Null}
    BY <2>1 DEF TaskRec
  <2>3. r \in TaskRec
    BY <2>1, <2>2, Zenon DEF TaskRec
  <2>4. task[t].pc # "queued" /\ Put(t, r) /\ cReq' = cReq
    BY <1>6 DEF Configure
  <2>5. WorldTyped
    BY <1>0, <1>6 DEF Configure, TypeOK, WorldTyped, peervars, history
  <2> HIDE DEF r
  <2>6. QED BY <2>3, <2>4, <2>5, TaskStepTyped
<1>7. CASE ConfigureFails(t)
  <2> DEFINE r == [task[t] EXCEPT !.pc = "cleanup", !.server = task[t].entity]
  <2>1. task[t] \in TaskRec /\ "cleanup" \in Pc
    BY <1>7, <1>a DEF ConfigureFails, Pc, WorkerPc
  <2>2. task[t].entity \in Server \cup {Null}
    BY <2>1 DEF TaskRec
  <2>3. r \in TaskRec
    BY <2>1, <2>2, Zenon DEF TaskRec
  <2>4. task[t].pc # "queued" /\ Put(t, r) /\ cReq' = cReq
    BY <1>7 DEF ConfigureFails
  <2>5. WorldTyped
    BY <1>0, <1>7 DEF ConfigureFails, TypeOK, WorldTyped, peervars, history
  <2> HIDE DEF r
  <2>6. QED BY <2>3, <2>4, <2>5, TaskStepTyped
<1>8. CASE DetailFails(t)
  <2> DEFINE q == [task[t] EXCEPT !.server = task[t].entity]
  <2>1. task[t] \in TaskRec
    BY <1>8, <1>a DEF DetailFails
  <2>2. q \in TaskRec
    BY <2>1 DEF TaskRec
  <2>3. task[t].pc # "queued" /\ Put(t, NextAttempt(q)) /\ cReq' = cReq
    BY <1>8 DEF DetailFails
  <2>4. scars' \in [Asset -> SUBSET Scar]
    BY <1>0, <1>8, <2>1, ScarredType DEF DetailFails, Scar, TaskRec
  <2>5. WorldTyped
    BY <1>0, <1>8, <2>4 DEF DetailFails, TypeOK, WorldTyped, peervars
  <2> HIDE DEF q
  <2>6. QED BY <2>2, <2>3, <2>5, NextAttemptType, TaskStepTyped
<1>9. CASE Cleanup(t)
  <2>1. task[t] \in TaskRec
    BY <1>9, <1>a DEF Cleanup
  <2>2. scars' \in [Asset -> SUBSET Scar] /\ cloud' \subseteq Server
    BY <1>0, <1>9, <2>1, ScarredType DEF Cleanup, Scar, TaskRec, TypeOK
  <2>3. WorldTyped
    BY <1>0, <1>9, <2>2 DEF Cleanup, TypeOK, WorldTyped
  <2>4. QED BY <1>9, <2>1, <2>3, NextAttemptType, TaskStepTyped DEF Cleanup
<1>10. CASE Finish(t)
  <2> DEFINE r == IF task[t].ip = Null THEN FreeTask
                  ELSE [task[t] EXCEPT !.pc = "notify"]
  <2>1. task[t] \in TaskRec /\ "notify" \in Pc
    BY <1>10, <1>a DEF Finish, Pc, WorkerPc
  <2>2. r \in TaskRec \cup {FreeTask}
    BY <2>1, Zenon DEF TaskRec
  <2>3. task[t].pc # "queued" /\ Put(t, r) /\ cReq' = cReq /\ Update(task[t])
    BY <1>10 DEF Finish
  <2>4. WorldTyped
    BY <1>0, <1>10, <2>1, <2>3, UpdateType DEF Finish, TypeOK, WorldTyped, peervars
  <2> HIDE DEF r
  <2>5. QED BY <2>2, <2>3, <2>4, TaskStepTyped
<1>11. CASE Notify(t)
  <2>1. task[t] \in TaskRec /\ "record" \in Pc
    BY <1>11, <1>a DEF Notify, Pc, WorkerPc
  <2>2. /\ task[t].pc # "queued" /\ cReq' = cReq
        /\ \E status \in Status :
             Put(t, [task[t] EXCEPT !.pc = "record", !.status = status])
    BY <1>11, <2>1 DEF Notify, Status, TaskRec
  <2>3. vertex' \in [Asset -> Server \cup {Null}]
    BY <1>0, <1>11, <2>1 DEF Notify, TypeOK, TaskRec
  <2>4. WorldTyped
    BY <1>0, <1>11, <2>3 DEF Notify, TypeOK, WorldTyped, history
  <2>5. PICK status \in Status :
          Put(t, [task[t] EXCEPT !.pc = "record", !.status = status])
    BY <2>2
  <2> DEFINE r == [task[t] EXCEPT !.pc = "record", !.status = status]
  <2>6. r \in TaskRec
    BY <2>1, Zenon DEF TaskRec
  <2>7. Put(t, r) BY <2>5
  <2> HIDE DEF r
  <2>8. QED BY <2>2, <2>4, <2>6, <2>7, TaskStepTyped
<1>12. CASE Record(t)
  <2>1. task[t] \in TaskRec
    BY <1>12, <1>a DEF Record
  <2>2. WorldTyped
    BY <1>0, <1>12, <2>1, UpdateType DEF Record, TypeOK, WorldTyped, peervars
  <2>3. QED BY <1>12, <1>b, <2>2, TaskStepTyped DEF Record
<1>13. QED
  BY <1>1, <1>2, <1>3, <1>4, <1>5, <1>6, <1>7, <1>8, <1>9, <1>10, <1>11, <1>12
     DEF Worker

LEMMA KillerTyped ==
  ASSUME Typed, NEW t \in Task, Killer(t) \/ Detach(t) \/ Take(t) PROVE Typed'
<1>0. TypeOK BY DEF Typed
<1>a. task[t].pc # "free" => task[t] \in TaskRec
  BY <1>0, ActiveTask
<1>1. CASE LookUp(t)
  <2> DEFINE k == [task[t] EXCEPT !.pc = "kill", !.tries = 0]
  <2>1. task[t] \in TaskRec /\ "kill" \in Pc /\ 0 \in Nat
    BY <1>1, <1>a DEF LookUp, LookingUp, Pc, KillerPc
  <2>2. k \in TaskRec
    BY <2>1, Zenon DEF TaskRec
  <2>3. /\ task[t].pc # "queued" /\ cReq' = cReq
        /\ Put(t, IF task[t].server \in cloud THEN k ELSE Terminated(task[t]))
    BY <1>1 DEF LookUp, LookingUp
  <2>4. WorldTyped
    BY <1>0, <1>1 DEF LookUp, TypeOK, WorldTyped, peervars, history
  <2> HIDE DEF k
  <2>5. QED BY <2>1, <2>2, <2>3, <2>4, TerminatedType, TaskStepTyped
<1>2. CASE ListFails(t)
  <2>1. task[t] \in TaskRec
    BY <1>2, <1>a DEF ListFails, LookingUp
  <2>2. scars' \in [Asset -> SUBSET Scar]
    BY <1>0, <1>2, <2>1, ScarredType DEF ListFails, Scar, TaskRec
  <2>3. WorldTyped
    BY <1>0, <1>2, <2>2 DEF ListFails, TypeOK, WorldTyped, peervars
  <2>4. QED BY <1>2, <2>1, <2>3, TerminatedType, TaskStepTyped DEF ListFails, LookingUp
<1>3. CASE LookUpFails(t)
  <2>1. task[t] \in TaskRec
    BY <1>3, <1>a DEF LookUpFails, LookingUp
  <2>2. scars' \in [Asset -> SUBSET Scar]
    BY <1>0, <1>3, <2>1, ScarredType DEF LookUpFails, Scar, TaskRec
  <2>3. WorldTyped
    BY <1>0, <1>3, <2>2 DEF LookUpFails, TypeOK, WorldTyped, peervars
  <2>4. QED
    BY <1>3, <2>1, <2>3, TerminatedType, EndedType, TaskStepTyped
       DEF LookUpFails, LookingUp
<1>4. CASE Kill(t)
  <2>1. task[t] \in TaskRec
    BY <1>4, <1>a DEF Kill
  <2>2. WorldTyped
    BY <1>0, <1>4 DEF Kill, TypeOK, WorldTyped, history
  <2>3. QED BY <1>4, <2>1, <2>2, TerminatedType, TaskStepTyped DEF Kill
<1>5. CASE KillFails(t)
  <2> DEFINE k == [task[t] EXCEPT !.tries = task[t].tries + 1]
  <2>1. task[t] \in TaskRec
    BY <1>5, <1>a DEF KillFails
  <2>2. k \in TaskRec
    BY <2>1 DEF TaskRec
  <2>3. /\ task[t].pc # "queued" /\ cReq' = cReq
        /\ Put(t, Terminated(task[t])) \/ Put(t, k)
    BY <1>5 DEF KillFails
  <2>4. scars' \in [Asset -> SUBSET Scar]
    BY <1>0, <1>5, <2>1, ScarredType DEF KillFails, Scar, TaskRec, TypeOK
  <2>5. WorldTyped
    BY <1>0, <1>5, <2>4 DEF KillFails, TypeOK, WorldTyped
  <2> HIDE DEF k
  <2>6. QED BY <2>1, <2>2, <2>3, <2>5, TerminatedType, TaskStepTyped
<1>6. CASE Remove(t)
  <2>1. task[t] \in TaskRec
    BY <1>6, <1>a DEF Remove
  <2>2. db' \in [Asset -> Doc \cup {NoDoc}]
    BY <1>0, <1>6 DEF Remove, TypeOK
  <2>3. scars' \in [Asset -> SUBSET Scar]
    BY <1>0, <1>6, <2>1, ScarredType DEF Remove, Scar, TaskRec, TypeOK
  <2>4. WorldTyped
    BY <1>0, <1>6, <2>2, <2>3 DEF Remove, TypeOK, WorldTyped, peervars
  <2>5. QED BY <1>6, <2>1, <2>4, EndedType, TaskStepTyped DEF Remove
<1>7. CASE Detach(t)
  <2> DEFINE r == IF task[t].pc = "gone" THEN FreeTask
                  ELSE [task[t] EXCEPT !.detach = FALSE]
  <2>1. task[t] \in TaskRec /\ task[t].pc # "queued"
    BY <1>7, <1>a DEF Detach, KillerPc
  <2>2. r \in TaskRec \cup {FreeTask}
    BY <2>1 DEF TaskRec
  <2>3. Put(t, r) /\ cReq' = cReq
    BY <1>7 DEF Detach
  <2>4. vertex' \in [Asset -> Server \cup {Null}] /\ scars' \in [Asset -> SUBSET Scar]
    BY <1>0, <1>7, <2>1, ScarredType DEF Detach, Scar, TaskRec, TypeOK
  <2>5. WorldTyped
    BY <1>0, <1>7, <2>4 DEF Detach, TypeOK, WorldTyped
  <2> HIDE DEF r
  <2>6. QED BY <2>1, <2>2, <2>3, <2>5, TaskStepTyped
<1>8. CASE Take(t)
  <2> DEFINE r == [task[t] EXCEPT !.pc = "lookup"]
  <2>1. task[t] \in TaskRec /\ "lookup" \in Pc
    BY <1>8, <1>a DEF Take, Pc, KillerPc
  <2>2. r \in TaskRec
    BY <2>1 DEF TaskRec
  <2>3. task[t].pc # "queued" /\ Put(t, r) /\ cReq' = cReq
    BY <1>8 DEF Take
  <2>4. WorldTyped
    BY <1>0, <1>8 DEF Take, TypeOK, WorldTyped, peervars, history
  <2> HIDE DEF r
  <2>5. QED BY <2>2, <2>3, <2>4, TaskStepTyped
<1>9. QED
  BY <1>1, <1>2, <1>3, <1>4, <1>5, <1>6, <1>7, <1>8 DEF Killer

(* The head of the channel is a queued task, and is not in the tail. *)
LEMMA DispatchTyped == Typed /\ Dispatch => Typed'
<1> SUFFICES ASSUME Typed, Dispatch PROVE Typed'
  OBVIOUS
<1> DEFINE h == Head(cReq)
           r == [task[h] EXCEPT !.pc = "start", !.tries = 0]
<1>0. TypeOK BY DEF Typed
<1>1. cReq \in Seq(Task) /\ cReq # <<>> /\ Len(cReq) \in Nat \ {0}
  BY <1>0 DEF TypeOK, Dispatch
<1>2. h \in Task /\ h = cReq[1] /\ 1 \in 1..Len(cReq)
  BY <1>1
<1>3. task[h].pc = "queued"
  BY <1>2 DEF Typed, ChannelOK
<1>4. task[h] \in TaskRec
  BY <1>0, <1>2, <1>3, ActiveTask
<1>5. "start" \in Pc /\ 0 \in Nat
  BY DEF Pc, WorkerPc
<1>6. r \in TaskRec
  BY <1>4, <1>5, Zenon DEF TaskRec
<1>7. Put(h, r) /\ cReq' = Tail(cReq)
  BY DEF Dispatch
<1> HIDE DEF r, h
<1>8. /\ task' \in [Task -> TaskRec \cup {FreeTask}]
      /\ \A u \in Task : u # h => task'[u] = task[u]
  BY <1>0, <1>2, <1>6, <1>7, PutType
<1>9. /\ cReq' \in Seq(Task) /\ Len(cReq') = Len(cReq) - 1
      /\ \A i \in 1..Len(cReq') : /\ cReq'[i] = cReq[i + 1] /\ i + 1 \in 1..Len(cReq)
                                 /\ cReq[i + 1] \in Task
  BY <1>1, <1>7
<1>10. \A i \in 1..Len(cReq') : cReq[i + 1] # h
  BY <1>1, <1>2, <1>9 DEF Typed, ChannelOK
<1>11. \A i \in 1..Len(cReq') : task'[cReq'[i]].pc = "queued"
  BY <1>8, <1>9, <1>10 DEF Typed, ChannelOK
<1>12. \A i, j \in 1..Len(cReq') : cReq'[i] = cReq'[j] => i = j
  BY <1>1, <1>9 DEF Typed, ChannelOK
<1>13. QED
  BY <1>0, <1>8, <1>9, <1>11, <1>12
     DEF Dispatch, Typed, TypeOK, ChannelOK, peervars, history

(* A round of the rescheduler fills free slots with snapshots; every other
   task stays as it is. *)
LEMMA ScanEffect ==
  ASSUME Typed, Scan, NEW t \in Task
  PROVE  \/ task'[t] = task[t]
         \/ /\ Free(t)
            /\ \E a \in Due :
                 \/ task'[t] = Snapshot(a, "retry", "listed", TRUE)
                 \/ task'[t] = Snapshot(a, "marked", "listed", FALSE)
<1>1. PICK slot \in [Due -> {u \in Task : Free(u)}] :
        task' = [u \in Task |->
            IF \E a \in Due : slot[a] = u
            THEN LET a == CHOOSE x \in Due : slot[x] = u
                     retry == db[a].status = "RETRY"
                 IN Snapshot(a, IF retry THEN "retry" ELSE "marked", "listed", retry)
            ELSE task[u]]
  BY DEF Scan
<1>2. CASE ~\E a \in Due : slot[a] = t
  BY <1>1, <1>2
<1>3. CASE \E a \in Due : slot[a] = t
  <2> DEFINE a == CHOOSE x \in Due : slot[x] = t
             retry == db[a].status = "RETRY"
  <2>1. a \in Due /\ slot[a] = t
    BY <1>3
  <2>2. task'[t] = Snapshot(a, IF retry THEN "retry" ELSE "marked", "listed", retry)
    BY <1>1, <1>3
  <2>3. Free(t)
    BY <2>1
  <2>4. retry \in BOOLEAN OBVIOUS
  <2> HIDE DEF a
  <2>5. CASE retry = TRUE
    BY <2>1, <2>2, <2>3, <2>5
  <2>6. CASE retry = FALSE
    BY <2>1, <2>2, <2>3, <2>6
  <2>7. QED BY <2>4, <2>5, <2>6
<1>4. QED BY <1>2, <1>3

LEMMA ScanTyped == Typed /\ Scan => Typed'
<1> SUFFICES ASSUME Typed, Scan PROVE Typed'
  OBVIOUS
<1>0. TypeOK BY DEF Typed
<1>1. \A a \in Due : /\ Snapshot(a, "retry", "listed", TRUE) \in TaskRec
                     /\ Snapshot(a, "marked", "listed", FALSE) \in TaskRec
  <2>1. \A a \in Due : a \in Asset /\ db[a] \in Doc
    BY <1>0 DEF Due, TypeOK, NoDoc
  <2>2. QED BY <2>1 DEF Snapshot, TaskRec, Doc, Op, Pc
<1>2. \A t \in Task : task'[t] \in TaskRec \cup {FreeTask}
  BY <1>0, <1>1, ScanEffect, ZenonT(40) DEF TypeOK
<1>3. \E f : task' = [t \in Task |-> f[t]]
  <2>1. PICK slot \in [Due -> {u \in Task : Free(u)}] :
          task' = [u \in Task |->
              IF \E a \in Due : slot[a] = u
              THEN LET a == CHOOSE x \in Due : slot[x] = u
                       retry == db[a].status = "RETRY"
                   IN Snapshot(a, IF retry THEN "retry" ELSE "marked", "listed", retry)
              ELSE task[u]]
    BY DEF Scan
  <2>2. task' = [t \in Task |-> task'[t]]
    BY <2>1, Zenon
  <2>3. QED BY <2>2
<1>4. task' \in [Task -> TaskRec \cup {FreeTask}]
  BY <1>2, <1>3
<1>5. scars' \in [Asset -> SUBSET Scar]
  BY <1>0 DEF Scan, TypeOK, Overlap, Scar
<1>6. \A t \in Task : task[t].pc = "queued" => task'[t].pc = "queued"
  BY ScanEffect DEF Free
<1>7. ChannelOK'
  BY <1>0, <1>6 DEF Scan, Typed, ChannelOK, TypeOK
<1>8. QED BY <1>0, <1>4, <1>5, <1>7 DEF Scan, Typed, TypeOK

LEMMA StepTyped == Typed /\ [Next]_vars => Typed'
<1> SUFFICES ASSUME Typed, [Next]_vars PROVE Typed'
  OBVIOUS
<1>0. TypeOK BY DEF Typed
<1>1. CASE Handler BY <1>1, HandlerTyped
<1>2. CASE Dispatch BY <1>2, DispatchTyped
<1>3. CASE Scan BY <1>3, ScanTyped
<1>4. CASE RescheduleDies
  BY <1>0, <1>4 DEF RescheduleDies, Typed, TypeOK, ChannelOK, peervars, history
<1>5. CASE Crash
  <2>1. task' \in [Task -> TaskRec \cup {FreeTask}] /\ cReq' = <<>> /\ resched' = "up"
    BY <1>5 DEF Crash
  <2>2. scars' \in [Asset -> SUBSET Scar]
    BY <1>0, <1>5 DEF Crash, TypeOK, Scar
  <2>3. ChannelOK'
    BY <2>1 DEF ChannelOK
  <2>4. QED BY <1>0, <1>5, <2>1, <2>2, <2>3 DEF Crash, Typed, TypeOK, peervars
<1>6. CASE \E t \in Task : Worker(t) \/ Killer(t) \/ Detach(t) \/ Take(t)
  BY <1>6, WorkerTyped, KillerTyped
<1>7. CASE UNCHANGED vars
  BY <1>0, <1>7 DEF vars, sysvars, peervars, history, Typed, TypeOK, ChannelOK
<1>8. QED BY <1>1, <1>2, <1>3, <1>4, <1>5, <1>6, <1>7 DEF Next

LEMMA InitTyped == Init => Typed
BY DEF Init, Typed, TypeOK, ChannelOK

LEMMA AlwaysTyped == Spec => []Typed
BY InitTyped, StepTyped, PTL DEF Spec

(* Every variable keeps its type: in particular every goroutine that runs
   holds a whole request object, and the channel holds only queued ones. *)
THEOREM TypeCorrect == Spec => []TypeOK
<1>1. Typed => TypeOK BY DEF Typed
<1>2. QED BY <1>1, AlwaysTyped, PTL

-----------------------------------------------------------------------------
(* OwnServer *)

(* A task refers to at most what another record r of the same asset does. *)
LEMMA OwnedFields ==
  ASSUME NEW q, NEW r, OwnedTask(r), q.id = r.id,
         q.server \in {r.server, r.entity, Null},
         q.ip \in {r.ip, r.entity, Null},
         q.entity \in {r.entity, Null}
  PROVE  OwnedTask(q)
BY DEF OwnedTask, Owned

(* A step that gives no server away: one slot, the records and the caller's
   view change, and all they refer to is owned already. *)
LEMMA TaskStepOwned ==
  ASSUME TypeOK, OwnServer, owner' = owner,
         NEW t \in Task, NEW r \in TaskRec \cup {FreeTask}, Put(t, r),
         r.pc # "free" => OwnedTask(r),
         \A a \in Asset : /\ Owned(a, db'[a].server) /\ Owned(a, db'[a].ip)
                          /\ Owned(a, vertex'[a])
  PROVE  OwnServer'
<1>1. task'[t] = r /\ \A u \in Task : u # t => task'[u] = task[u]
  BY PutType
<1>2. \A u \in Task : task'[u].pc # "free" => OwnedTask(task'[u])
  BY <1>1 DEF OwnServer, Free
<1>3. QED
  BY <1>2 DEF OwnServer, OwnedRecord, OwnedTask, Owned, Free

(* What an Update leaves in the collection. *)
LEMMA UpdateOwned ==
  ASSUME TypeOK, OwnServer, NEW r \in TaskRec, Update(r),
         OwnedTask(r), NEW a \in Asset
  PROVE  Owned(a, db'[a].server) /\ Owned(a, db'[a].ip)
<1>1. db'[a] = db[a] \/ (a = r.id /\ db'[a] = Stored(r))
  BY DEF TypeOK, Update, TaskRec
<1>2. CASE db'[a] = db[a]
  BY <1>2 DEF OwnServer, OwnedRecord
<1>3. CASE a = r.id /\ db'[a] = Stored(r)
  BY <1>3 DEF Stored, OwnedTask
<1>4. QED BY <1>1, <1>2, <1>3

LEMMA HandlerOwned == Typed /\ OwnServer /\ Handler => OwnServer'
<1> SUFFICES ASSUME Typed, OwnServer, Handler PROVE OwnServer'
  OBVIOUS
<1>0. TypeOK BY DEF Typed
<1>1. ASSUME NEW a \in Asset, NEW t \in Task, CreateAsset(a, t) PROVE OwnServer'
  <2> DEFINE r == [FreeTask EXCEPT !.pc = "send", !.id = a, !.status = "NEW"]
  <2>1. r \in TaskRec /\ OwnedTask(r)
    BY DEF FreeTask, TaskRec, Op, Pc, Status, OwnedTask, Owned
  <2>2. \A b \in Asset : /\ Owned(b, db'[b].server) /\ Owned(b, db'[b].ip)
                         /\ Owned(b, vertex'[b])
    BY <1>0, <1>1 DEF CreateAsset, TypeOK, NoDoc, OwnServer, OwnedRecord, Owned
  <2>3. Put(t, r) /\ owner' = owner
    BY <1>1 DEF CreateAsset
  <2> HIDE DEF r
  <2>4. QED BY <1>0, <2>1, <2>2, <2>3, TaskStepOwned
<1>2. ASSUME NEW a \in Asset, NEW t \in Task, DestroyAsset(a, t) PROVE OwnServer'
  <2> DEFINE r == Snapshot(a, "delete", "lookup", TRUE)
  <2>1. r \in TaskRec
    BY <1>0, <1>2 DEF DestroyAsset, TypeOK, Doc, NoDoc, Snapshot, TaskRec, Op, Pc, KillerPc
  <2>2. OwnedTask(r)
    BY DEF Snapshot, OwnServer, OwnedRecord, OwnedTask, Owned
  <2>3. Put(t, r) /\ owner' = owner /\ db' = db /\ vertex' = vertex
    BY <1>2 DEF DestroyAsset
  <2> HIDE DEF r
  <2>4. QED BY <1>0, <2>1, <2>2, <2>3, TaskStepOwned DEF OwnServer, OwnedRecord
<1>3. ASSUME NEW a \in Asset, CreateAssetFails(a) PROVE OwnServer'
  BY <1>0, <1>3
     DEF CreateAssetFails, TypeOK, NoDoc, OwnServer, OwnedRecord, OwnedTask, Owned, Free
<1>4. QED BY <1>1, <1>2, <1>3 DEF Handler

(* RunServer gives a server nobody refers to to the task's asset. *)
LEMMA RunServerOwned ==
  ASSUME Typed, OwnServer, NEW t \in Task, NEW s \in Server, RunServer(t, s)
  PROVE  OwnServer'
<1>0. TypeOK BY DEF Typed
<1>1. task[t] \in TaskRec /\ OwnedTask(task[t])
  BY <1>0, ActiveTask DEF RunServer, OwnServer, Free
<1>2. \A x \in Server : owner'[x] = IF x = s THEN task[t].id ELSE owner[x]
  BY <1>0 DEF RunServer, TypeOK
<1>3. owner[s] = Null /\ Null \notin Asset /\ Null \notin Server
  BY NullAssumption DEF RunServer, Fresh
<1>4. \A a \in Asset, x \in Server \cup {Null} :
         Owned(a, x) => x = Null \/ owner'[x] = a
  BY <1>2, <1>3 DEF Owned
<1>5. PICK r \in TaskRec : /\ Put(t, r) /\ r.id = task[t].id
                           /\ r.server = task[t].server /\ r.ip = task[t].ip
                           /\ r.entity \in {s, Null}
  <2>1. CASE Put(t, [task[t] EXCEPT !.pc = "configure", !.entity = s])
    <3> DEFINE r == [task[t] EXCEPT !.pc = "configure", !.entity = s]
    <3>1. "configure" \in Pc BY DEF Pc, WorkerPc
    <3>2. r \in TaskRec BY <1>1, <3>1, Zenon DEF TaskRec
    <3>3. /\ r.id = task[t].id /\ r.server = task[t].server /\ r.ip = task[t].ip
          /\ r.entity = s
      BY <1>1 DEF TaskRec
    <3>4. Put(t, r) BY <2>1
    <3> HIDE DEF r
    <3>5. QED BY <3>2, <3>3, <3>4
  <2>2. CASE Put(t, NextAttempt(task[t]))
    BY <1>1, <2>2, NextAttemptType
  <2>3. QED BY <2>1, <2>2 DEF RunServer
<1>6. task'[t] = r /\ \A u \in Task : u # t => task'[u] = task[u]
  BY <1>0, <1>5, PutType
<1>7. \A u \in Task : task'[u].pc # "free" =>
        \A x \in {task'[u].server, task'[u].ip, task'[u].entity} :
           x = Null \/ owner'[x] = task'[u].id
  <2> SUFFICES ASSUME NEW u \in Task, task'[u].pc # "free",
                      NEW x \in {task'[u].server, task'[u].ip, task'[u].entity}
               PROVE  x = Null \/ owner'[x] = task'[u].id
    OBVIOUS
  <2>1. CASE u = t
    <3>1. x \in {task[t].server, task[t].ip, s, Null} /\ task'[u].id = task[t].id
      BY <1>5, <1>6, <2>1
    <3>2. Owned(task[t].id, task[t].server) /\ Owned(task[t].id, task[t].ip)
      BY <1>1 DEF OwnedTask
    <3>3. /\ task[t].server \in Server \cup {Null} /\ task[t].ip \in Server \cup {Null}
          /\ task[t].id \in Asset
      BY <1>1 DEF TaskRec
    <3>4. QED BY <1>2, <1>4, <3>1, <3>2, <3>3
  <2>2. CASE u # t
    <3>1. task'[u] = task[u] /\ task[u] \in TaskRec /\ OwnedTask(task[u])
      BY <1>0, <1>6, <2>2, ActiveTask DEF OwnServer, Free
    <3>2. /\ x \in Server \cup {Null} /\ task[u].id \in Asset
          /\ Owned(task[u].id, x)
      BY <3>1 DEF TaskRec, OwnedTask
    <3>3. QED BY <1>4, <3>1, <3>2
  <2>3. QED BY <2>1, <2>2
<1>8. \A a \in Asset : \A x \in {db'[a].server, db'[a].ip, vertex'[a]} :
        x = Null \/ owner'[x] = a
  <2>1. db' = db /\ vertex' = vertex
    BY DEF RunServer
  <2>2. \A a \in Asset : /\ db[a].server \in Server \cup {Null}
                         /\ db[a].ip \in Server \cup {Null}
                         /\ vertex[a] \in Server \cup {Null}
    BY <1>0 DEF TypeOK, Doc, NoDoc
  <2>3. QED BY <1>4, <2>1, <2>2 DEF OwnServer, OwnedRecord
<1>9. QED
  BY <1>7, <1>8 DEF OwnServer, OwnedRecord, OwnedTask, Owned, Free

(* The steps of a task other than RunServer: the request goes on with servers
   it already had, and what it writes or tells is its own. *)
LEMMA WorkerOwned ==
  ASSUME Typed, OwnServer, NEW t \in Task, Worker(t) PROVE OwnServer'
<1>0. TypeOK BY DEF Typed
<1>a. task[t].pc # "free" => task[t] \in TaskRec /\ OwnedTask(task[t])
  BY <1>0, ActiveTask DEF OwnServer, Free
<1>b. FreeTask \in TaskRec \cup {FreeTask} /\ FreeTask.pc = "free"
  BY DEF FreeTask
<1>c. db' = db /\ vertex' = vertex =>
        \A a \in Asset : /\ Owned(a, db'[a].server) /\ Owned(a, db'[a].ip)
                         /\ Owned(a, vertex'[a])
  BY DEF OwnServer, OwnedRecord
<1>1. CASE SendRequest(t)
  <2> DEFINE r == [task[t] EXCEPT !.op = "create", !.pc = "queued"]
  <2>1. task[t] \in TaskRec /\ OwnedTask(task[t]) /\ "create" \in Op /\ "queued" \in Pc
    BY <1>1, <1>a DEF SendRequest, Op, Pc
  <2>2. r \in TaskRec
    BY <2>1, Zenon DEF TaskRec
  <2>3. OwnedTask(r)
    BY <2>1 DEF OwnedTask, TaskRec
  <2>4. Put(t, r) /\ owner' = owner /\ db' = db /\ vertex' = vertex
    BY <1>1 DEF SendRequest, peervars, history
  <2> HIDE DEF r
  <2>5. QED BY <1>0, <1>c, <2>2, <2>3, <2>4, TaskStepOwned
<1>2. CASE Start(t)
  <2> DEFINE r == [task[t] EXCEPT !.pc = "run", !.status = "BUILD"]
  <2>1. /\ task[t] \in TaskRec /\ OwnedTask(task[t])
        /\ "run" \in Pc /\ "BUILD" \in Status
    BY <1>2, <1>a DEF Start, Pc, WorkerPc, Status
  <2>2. r \in TaskRec
    BY <2>1, Zenon DEF TaskRec
  <2>3. OwnedTask(r)
    BY <2>1 DEF OwnedTask, TaskRec
  <2>4. Put(t, r) /\ Update(r) /\ owner' = owner /\ vertex' = vertex
    BY <1>2 DEF Start, peervars
  <2> HIDE DEF r
  <2>5. \A a \in Asset : /\ Owned(a, db'[a].server) /\ Owned(a, db'[a].ip)
                         /\ Owned(a, vertex'[a])
    BY <1>0, <2>2, <2>3, <2>4, UpdateOwned DEF OwnServer, OwnedRecord
  <2>6. QED BY <1>0, <2>2, <2>3, <2>4, <2>5, TaskStepOwned
<1>3. CASE StartFails(t)
  BY <1>0, <1>3, <1>b, <1>c, TaskStepOwned DEF StartFails, peervars
<1>4. ASSUME NEW s \in Server, RunServer(t, s) PROVE OwnServer'
  BY <1>4, RunServerOwned
<1>5. CASE RunServerFails(t)
  <2>1. task[t] \in TaskRec /\ OwnedTask(task[t])
    BY <1>5, <1>a DEF RunServerFails
  <2>2. NextAttempt(task[t]) \in TaskRec /\ OwnedTask(NextAttempt(task[t]))
    BY <2>1, NextAttemptType, OwnedFields
  <2>3. QED
    BY <1>0, <1>5, <1>c, <2>2, TaskStepOwned DEF RunServerFails, peervars, history
<1>6. CASE Configure(t)
  <2> DEFINE r == [task[t] EXCEPT !.pc = "finish", !.status = "SERVER_CREATED",
                     !.server = task[t].entity, !.ip = task[t].entity,
                     !.entity = Null, !.tries = 0]
  <2>1. /\ task[t] \in TaskRec /\ OwnedTask(task[t])
        /\ "finish" \in Pc /\ "SERVER_CREATED" \in Status /\ 0 \in Nat
    BY <1>6, <1>a DEF Configure, Pc, WorkerPc, Status
  <2>2. task[t].entity \in Server \cup {Null}
    BY <2>1 DEF TaskRec
  <2>3. r \in TaskRec
    BY <2>1, <2>2, Zenon DEF TaskRec
  <2>4. /\ r.id = task[t].id /\ r.server = task[t].entity /\ r.ip = task[t].entity
        /\ r.entity = Null
    BY <2>1 DEF TaskRec
  <2>5. Put(t, r) /\ owner' = owner /\ db' = db /\ vertex' = vertex
    BY <1>6 DEF Configure, peervars, history
  <2> HIDE DEF r
  <2>6. OwnedTask(r)
    BY <2>1, <2>4 DEF OwnedTask, Owned
  <2>7. QED BY <1>0, <1>c, <2>3, <2>5, <2>6, TaskStepOwned
<1>7. CASE ConfigureFails(t)
  <2> DEFINE r == [task[t] EXCEPT !.pc = "cleanup", !.server = task[t].entity]
  <2>1. task[t] \in TaskRec /\ OwnedTask(task[t]) /\ "cleanup" \in Pc
    BY <1>7, <1>a DEF ConfigureFails, Pc, WorkerPc
  <2>2. task[t].entity \in Server \cup {Null}
    BY <2>1 DEF TaskRec
  <2>3. r \in TaskRec
    BY <2>1, <2>2, Zenon DEF TaskRec
  <2>4. /\ r.id = task[t].id /\ r.server = task[t].entity /\ r.ip = task[t].ip
        /\ r.entity = task[t].entity
    BY <2>1 DEF TaskRec
  <2>5. Put(t, r) /\ owner' = owner /\ db' = db /\ vertex' = vertex
    BY <1>7 DEF ConfigureFails, peervars, history
  <2> HIDE DEF r
  <2>6. OwnedTask(r)
    BY <2>1, <2>4 DEF OwnedTask, Owned
  <2>7. QED BY <1>0, <1>c, <2>3, <2>5, <2>6, TaskStepOwned
<1>8. CASE DetailFails(t)
  <2> DEFINE q == [task[t] EXCEPT !.server = task[t].entity]
  <2>1. task[t] \in TaskRec /\ OwnedTask(task[t])
    BY <1>8, <1>a DEF DetailFails
  <2>2. /\ q \in TaskRec /\ q.id = task[t].id /\ q.server = task[t].entity
        /\ q.ip = task[t].ip /\ q.entity = task[t].entity
    BY <2>1 DEF TaskRec
  <2>3. Put(t, NextAttempt(q)) /\ owner' = owner /\ db' = db /\ vertex' = vertex
    BY <1>8 DEF DetailFails, peervars
  <2> HIDE DEF q
  <2>4. OwnedTask(q)
    BY <2>1, <2>2 DEF OwnedTask
  <2>5. NextAttempt(q) \in TaskRec /\ OwnedTask(NextAttempt(q))
    BY <2>2, <2>4, NextAttemptType, OwnedFields
  <2>6. QED BY <1>0, <1>c, <2>3, <2>5, TaskStepOwned
<1>9. CASE Cleanup(t)
  <2>1. task[t] \in TaskRec /\ OwnedTask(task[t])
    BY <1>9, <1>a DEF Cleanup
  <2>2. NextAttempt(task[t]) \in TaskRec /\ OwnedTask(NextAttempt(task[t]))
    BY <2>1, NextAttemptType, OwnedFields
  <2>3. QED BY <1>0, <1>9, <1>c, <2>2, TaskStepOwned DEF Cleanup
<1>10. CASE Finish(t)
  <2> DEFINE n == [task[t] EXCEPT !.pc = "notify"]
             r == IF task[t].ip = Null THEN FreeTask ELSE n
  <2>1. task[t] \in TaskRec /\ OwnedTask(task[t]) /\ "notify" \in Pc
    BY <1>10, <1>a DEF Finish, Pc, WorkerPc
  <2>2. n \in TaskRec
    BY <2>1, Zenon DEF TaskRec
  <2>3. OwnedTask(n)
    BY <2>1 DEF OwnedTask, TaskRec
  <2>4. Put(t, r) /\ Update(task[t]) /\ owner' = owner /\ vertex' = vertex
    BY <1>10 DEF Finish, peervars
  <2> HIDE DEF n
  <2>5. r \in TaskRec \cup {FreeTask} /\ (r.pc # "free" => OwnedTask(r))
    BY <1>b, <2>2, <2>3
  <2> HIDE DEF r
  <2>6. \A a \in Asset : /\ Owned(a, db'[a].server) /\ Owned(a, db'[a].ip)
                         /\ Owned(a, vertex'[a])
    BY <1>0, <2>1, <2>4, UpdateOwned DEF OwnServer, OwnedRecord
  <2>7. QED BY <1>0, <2>4, <2>5, <2>6, TaskStepOwned
<1>11. CASE Notify(t)
  <2>1. task[t] \in TaskRec /\ OwnedTask(task[t]) /\ "record" \in Pc
    BY <1>11, <1>a DEF Notify, Pc, WorkerPc
  <2>2. PICK status \in Status :
          Put(t, [task[t] EXCEPT !.pc = "record", !.status = status])
    BY <1>11, <2>1 DEF Notify, Status, TaskRec
  <2> DEFINE r == [task[t] EXCEPT !.pc = "record", !.status = status]
  <2>3. r \in TaskRec
    BY <2>1, Zenon DEF TaskRec
  <2>4. OwnedTask(r)
    BY <2>1 DEF OwnedTask, TaskRec
  <2>5. Put(t, r) /\ owner' = owner /\ db' = db
    BY <1>11, <2>2 DEF Notify, history
  <2>6. \A a \in Asset : Owned(a, vertex'[a])
    BY <1>0, <1>11, <2>1 DEF Notify, TypeOK, OwnServer, OwnedRecord, OwnedTask, Owned
  <2> HIDE DEF r
  <2>7. QED
    BY <1>0, <2>3, <2>4, <2>5, <2>6, TaskStepOwned DEF OwnServer, OwnedRecord
<1>12. CASE Record(t)
  <2>1. task[t] \in TaskRec /\ OwnedTask(task[t])
    BY <1>12, <1>a DEF Record
  <2>2. \A a \in Asset : /\ Owned(a, db'[a].server) /\ Owned(a, db'[a].ip)
                         /\ Owned(a, vertex'[a])
    BY <1>0, <1>12, <2>1, UpdateOwned DEF Record, OwnServer, OwnedRecord, peervars
  <2>3. QED BY <1>0, <1>12, <1>b, <2>2, TaskStepOwned DEF Record
<1>13. QED
  BY <1>1, <1>2, <1>3, <1>4, <1>5, <1>6, <1>7, <1>8, <1>9, <1>10, <1>11, <1>12
     DEF Worker

LEMMA KillerOwned ==
  ASSUME Typed, OwnServer, NEW t \in Task, Killer(t) \/ Detach(t) \/ Take(t)
  PROVE  OwnServer'
<1>0. TypeOK BY DEF Typed
<1>1. task[t] \in TaskRec /\ OwnedTask(task[t])
  <2>1. task[t].pc # "free"
    BY DEF Killer, LookUp, LookingUp, ListFails, LookUpFails, Kill, KillFails, Remove,
           Detach, Take, KillerPc
  <2>2. QED BY <1>0, <2>1, ActiveTask DEF OwnServer, Free
<1>2. /\ Terminated(task[t]) \in TaskRec /\ OwnedTask(Terminated(task[t]))
      /\ Ended(task[t]) \in TaskRec \cup {FreeTask}
      /\ Ended(task[t]).pc # "free" => OwnedTask(Ended(task[t]))
  <2>1. FreeTask.pc = "free" BY DEF FreeTask
  <2>2. QED BY <1>1, <2>1, TerminatedType, EndedType, OwnedFields
<1>3. PICK r \in TaskRec \cup {FreeTask} :
        Put(t, r) /\ (r.pc # "free" => OwnedTask(r))
  <2>1. CASE \E x \in {Terminated(task[t]), Ended(task[t])} : Put(t, x)
    BY <1>2, <2>1
  <2>2. CASE LookUp(t)
    <3> DEFINE k == [task[t] EXCEPT !.pc = "kill", !.tries = 0]
    <3>1. "kill" \in Pc /\ 0 \in Nat BY DEF Pc, KillerPc
    <3>2. k \in TaskRec BY <1>1, <3>1, Zenon DEF TaskRec
    <3>3. OwnedTask(k) BY <1>1 DEF OwnedTask, TaskRec
    <3>4. Put(t, k) \/ Put(t, Terminated(task[t])) BY <2>2 DEF LookUp
    <3> HIDE DEF k
    <3>5. QED BY <1>2, <3>2, <3>3, <3>4
  <2>3. CASE ListFails(t) BY <2>1, <2>3 DEF ListFails
  <2>4. CASE LookUpFails(t) BY <2>1, <2>4 DEF LookUpFails
  <2>5. CASE Kill(t) BY <2>1, <2>5 DEF Kill
  <2>6. CASE KillFails(t)
    <3> DEFINE k == [task[t] EXCEPT !.tries = task[t].tries + 1]
    <3>1. k \in TaskRec BY <1>1 DEF TaskRec
    <3>2. OwnedTask(k) BY <1>1 DEF OwnedTask, TaskRec
    <3>3. Put(t, k) \/ Put(t, Terminated(task[t])) BY <2>6 DEF KillFails
    <3> HIDE DEF k
    <3>4. QED BY <1>2, <3>1, <3>2, <3>3
  <2>7. CASE Remove(t) BY <2>1, <2>7 DEF Remove
  <2>8. CASE Detach(t)
    <3> DEFINE k == [task[t] EXCEPT !.detach = FALSE]
    <3>1. k \in TaskRec BY <1>1 DEF TaskRec
    <3>2. OwnedTask(k) BY <1>1 DEF OwnedTask, TaskRec
    <3>3. Put(t, k) \/ Put(t, FreeTask) BY <2>8 DEF Detach
    <3>4. FreeTask.pc = "free" BY DEF FreeTask
    <3> HIDE DEF k
    <3>5. QED BY <3>1, <3>2, <3>3, <3>4
  <2>9. CASE Take(t)
    <3> DEFINE k == [task[t] EXCEPT !.pc = "lookup"]
    <3>1. "lookup" \in Pc BY DEF Pc, KillerPc
    <3>2. k \in TaskRec BY <1>1, <3>1 DEF TaskRec
    <3>3. OwnedTask(k) BY <1>1 DEF OwnedTask, TaskRec
    <3>4. Put(t, k) BY <2>9 DEF Take
    <3> HIDE DEF k
    <3>5. QED BY <3>2, <3>3, <3>4
  <2>10. QED
    BY <2>2, <2>3, <2>4, <2>5, <2>6, <2>7, <2>8, <2>9 DEF Killer
<1>4. owner' = owner
  BY DEF Killer, LookUp, ListFails, LookUpFails, Kill, KillFails, Remove, Detach, Take,
         history
<1>5. \A a \in Asset : vertex'[a] \in {vertex[a], Null}
  BY <1>0 DEF Killer, LookUp, ListFails, LookUpFails, Kill, KillFails, Remove, Detach,
              Take, peervars, TypeOK
<1>6. \A a \in Asset : db'[a] \in {db[a], NoDoc}
  BY <1>0 DEF Killer, LookUp, ListFails, LookUpFails, Kill, KillFails, Remove, Detach,
              Take, TypeOK
<1>7. \A a \in Asset : /\ Owned(a, db'[a].server) /\ Owned(a, db'[a].ip)
                       /\ Owned(a, vertex'[a])
  BY <1>5, <1>6 DEF OwnServer, OwnedRecord, Owned, NoDoc
<1>8. QED BY <1>0, <1>3, <1>4, <1>7, TaskStepOwned

LEMMA StepOwned == Typed /\ OwnServer /\ [Next]_vars => OwnServer'
<1> SUFFICES ASSUME Typed, OwnServer, [Next]_vars PROVE OwnServer'
  OBVIOUS
<1>0. TypeOK BY DEF Typed
<1>1. CASE Handler BY <1>1, HandlerOwned
<1>2. CASE Dispatch
  <2> DEFINE h == Head(cReq)
             r == [task[h] EXCEPT !.pc = "start", !.tries = 0]
  <2>1. cReq \in Seq(Task) /\ cReq # <<>> /\ Len(cReq) \in Nat \ {0}
    BY <1>0, <1>2 DEF TypeOK, Dispatch
  <2>2. h \in Task /\ h = cReq[1] /\ 1 \in 1..Len(cReq)
    BY <2>1
  <2>3. task[h].pc = "queued"
    BY <2>2 DEF Typed, ChannelOK
  <2>4. task[h] \in TaskRec /\ OwnedTask(task[h])
    BY <1>0, <2>2, <2>3, ActiveTask DEF OwnServer, Free
  <2>5. "start" \in Pc /\ 0 \in Nat
    BY DEF Pc, WorkerPc
  <2>6. r \in TaskRec
    BY <2>4, <2>5, Zenon DEF TaskRec
  <2>7. OwnedTask(r)
    BY <2>4 DEF OwnedTask, TaskRec
  <2>8. Put(h, r) /\ owner' = owner /\ db' = db /\ vertex' = vertex
    BY <1>2 DEF Dispatch, peervars, history
  <2> HIDE DEF r, h
  <2>9. QED BY <1>0, <2>2, <2>6, <2>7, <2>8, TaskStepOwned DEF OwnServer, OwnedRecord
<1>3. CASE Scan
  <2>1. owner' = owner /\ db' = db /\ vertex' = vertex
    BY <1>3 DEF Scan
  <2>2. \A t \in Task : task'[t].pc # "free" => OwnedTask(task'[t])
    <3>1. \A a \in Due : /\ OwnedTask(Snapshot(a, "retry", "listed", TRUE))
                         /\ OwnedTask(Snapshot(a, "marked", "listed", FALSE))
      BY DEF Due, Snapshot, OwnServer, OwnedRecord, OwnedTask, Owned
    <3>2. QED BY <1>3, <3>1, ScanEffect DEF OwnServer, Free
  <2>3. QED
    BY <2>1, <2>2 DEF OwnServer, OwnedRecord, OwnedTask, Owned, Free
<1>4. CASE RescheduleDies
  BY <1>4 DEF RescheduleDies, peervars, history, OwnServer, OwnedRecord, OwnedTask, Owned,
              Free
<1>5. CASE Crash
  BY <1>5 DEF Crash, peervars, OwnServer, OwnedRecord, OwnedTask, Owned, Free, FreeTask
<1>6. CASE \E t \in Task : Worker(t) \/ Killer(t) \/ Detach(t) \/ Take(t)
  BY <1>6, WorkerOwned, KillerOwned
<1>7. CASE UNCHANGED vars
  BY <1>7 DEF vars, sysvars, peervars, history, OwnServer, OwnedRecord, OwnedTask, Owned,
              Free
<1>8. QED BY <1>1, <1>2, <1>3, <1>4, <1>5, <1>6, <1>7 DEF Next

(* No interleaving lets a request refer to, terminate or hand out the server
   of another one. *)
THEOREM ServersStayWithTheirAsset == Spec => []OwnServer
<1>1. Init => OwnServer
  BY DEF Init, OwnServer, OwnedRecord, Owned, NoDoc, Free, FreeTask
<1>2. QED BY <1>1, StepOwned, AlwaysTyped, PTL DEF Spec

-----------------------------------------------------------------------------
(* What each action does, field by field *)

(* The request r goes on as q. *)
Becomes(q, r, op, pc, status, server, ip, entity, detach) ==
  /\ q \in TaskRec /\ q.id = r.id /\ q.op = op /\ q.pc = pc /\ q.status = status
  /\ q.server = server /\ q.ip = ip /\ q.entity = entity /\ q.detach = detach

(* r's attempt, whose server is now s, has failed. *)
Retried(q, r, s) ==
  \/ Becomes(q, r, r.op, "run", r.status, s, r.ip, Null, r.detach)
  \/ Becomes(q, r, r.op, "finish", "RETRY", s, r.ip, Null, r.detach)

(* r's termination is over: a retry is sent back, the others go on to remove. *)
Done(q, r) ==
  \/ r.op = "retry"
     /\ Becomes(q, r, r.op, "send", r.status, r.server, r.ip, r.entity, r.detach)
  \/ r.op # "retry"
     /\ Becomes(q, r, r.op, "remove", r.status, r.server, r.ip, r.entity, r.detach)

(* Nothing is left of r, except perhaps a detach call. *)
Finished(q, r) ==
  \/ ~r.detach /\ q = FreeTask
  \/ r.detach /\ Becomes(q, r, r.op, "gone", r.status, r.server, r.ip, r.entity, r.detach)

(* The record of asset a is written as x, or the write fails. *)
Wrote(a, x) ==
  \/ db'[a] = x /\ scars'[a] = scars[a]
  \/ db'[a] = db[a] /\ scars'[a] = scars[a] \cup {"write"}

(* A mishap of this kind befell asset a. *)
Blamed(a, kind) == scars'[a] = scars[a] \cup {kind}

(* No other task, no other record moves. *)
Others(t) == \A u \in Task : u # t => task'[u] = task[u]
Untouched(a) == \A b \in Asset : b # a => db'[b] = db[b] /\ scars'[b] = scars[b]

(* The model's operators on a request do just that. *)
LEMMA RetriedEffect ==
  ASSUME NEW r \in TaskRec PROVE Retried(NextAttempt(r), r, r.server)
<1>1. CASE r.tries + 1 < MaxAttempts
  <2>1. NextAttempt(r) = [r EXCEPT !.pc = "run", !.entity = Null, !.tries = r.tries + 1]
    BY <1>1 DEF NextAttempt
  <2> QED BY <2>1, NextAttemptType DEF Retried, Becomes, TaskRec
<1>2. CASE ~(r.tries + 1 < MaxAttempts)
  <2>1. NextAttempt(r) = [r EXCEPT !.pc = "finish", !.entity = Null, !.tries = 0,
                                   !.status = "RETRY"]
    BY <1>2 DEF NextAttempt
  <2> QED BY <2>1, NextAttemptType DEF Retried, Becomes, TaskRec
<1> QED BY <1>1, <1>2

(* Terminated is Done. *)
LEMMA DoneEffect ==
  ASSUME NEW r \in TaskRec PROVE Done(Terminated(r), r)
<1>1. CASE r.op = "retry"
  <2>1. Terminated(r) = [r EXCEPT !.pc = "send", !.tries = 0]
    BY <1>1 DEF Terminated
  <2> QED BY <1>1, <2>1, TerminatedType DEF Done, Becomes, TaskRec
<1>2. CASE r.op # "retry"
  <2>1. Terminated(r) = [r EXCEPT !.pc = "remove", !.tries = 0]
    BY <1>2 DEF Terminated
  <2> QED BY <1>2, <2>1, TerminatedType DEF Done, Becomes, TaskRec
<1> QED BY <1>1, <1>2

(* Ended is Finished. *)
LEMMA FinishedEffect ==
  ASSUME NEW r \in TaskRec PROVE Finished(Ended(r), r)
<1>1. CASE r.detach
  <2>1. Ended(r) = [r EXCEPT !.pc = "gone"]
    BY <1>1 DEF Ended
  <2>2. Ended(r).pc = "gone" /\ Ended(r).detach = r.detach /\ Ended(r).status = r.status
    BY <2>1 DEF TaskRec
  <2>3. Ended(r) # FreeTask
    BY <2>2 DEF FreeTask
  <2> QED BY <1>1, <2>2, <2>3, EndedType DEF Finished, Becomes
<1>2. CASE ~r.detach
  BY <1>2 DEF Ended, Finished
<1> QED BY <1>1, <1>2

(* Writing one task's slot leaves the others alone. *)
LEMMA PutEffect ==
  ASSUME Typed, NEW t \in Task, NEW r, Put(t, r)
  PROVE  task'[t] = r /\ Others(t)
BY DEF Put, Typed, TypeOK, Others

(* An Update writes the snapshot, or is lost, and no other record is touched. *)
LEMMA UpdateEffect ==
  ASSUME Typed, NEW r, r.id \in Asset, Update(r)
  PROVE  Wrote(r.id, Stored(r)) /\ Untouched(r.id)
BY DEF Update, Typed, TypeOK, Scarred, Wrote, Untouched

(* A mishap is noted for its asset only. *)
LEMMA ScarredEffect ==
  ASSUME Typed, NEW a \in Asset, NEW kind, Scarred(a, {kind}), db' = db
  PROVE  Blamed(a, kind) /\ Untouched(a)
BY DEF Scarred, Typed, TypeOK, Blamed, Untouched

(* A task that takes a step is in use. *)
LEMMA AtWork ==
  ASSUME Typed, NEW t \in Task, Worker(t) \/ Killer(t) \/ Detach(t) \/ Take(t)
  PROVE  task[t] \in TaskRec /\ task[t].id \in Asset
<1>1. task[t].pc # "free"
  BY DEF Worker, SendRequest, Start, StartFails, RunServer, RunServerFails, Configure,
         ConfigureFails, DetailFails, Cleanup, Finish, Notify, Record,
         Killer, LookUp, LookingUp, ListFails, LookUpFails, Kill, KillFails, Remove,
         Detach, Take, KillerPc
<1>2. task[t] \in TaskRec
  BY <1>1, ActiveTask DEF Typed
<1> QED BY <1>2 DEF TaskRec

(* World as it was *)
LEMMA SendRequestEffect ==
  ASSUME Typed, NEW t \in Task, SendRequest(t)
  PROVE  /\ task[t].pc = "send" /\ Others(t) 
         /\ Becomes(task'[t], task[t], "create", "queued", task[t].status,
                    task[t].server, task[t].ip, task[t].entity, task[t].detach)
         /\ UNCHANGED <<db, scars, vertex, cloud, owner, issued>>
<1> DEFINE r == [task[t] EXCEPT !.op = "create", !.pc = "queued"]
<1>1. task[t] \in TaskRec
  BY AtWork DEF Worker
<1>2. Becomes(r, task[t], "create", "queued", task[t].status,
                    task[t].server, task[t].ip, task[t].entity, task[t].detach)
  BY <1>1 DEF Becomes, TaskRec, Op, Pc
<1>3. Put(t, r) BY DEF SendRequest
<1> HIDE DEF r
<1>4. task'[t] = r /\ Others(t) BY <1>3, PutEffect
<1>5. UNCHANGED <<db, scars, vertex, cloud, owner, issued>> /\ task[t].pc = "send"
  BY DEF SendRequest, peervars, history
<1> QED BY <1>2, <1>4, <1>5

(* What createServer's first Update does. *)
LEMMA StartEffect ==
  ASSUME Typed, NEW t \in Task, Start(t)
  PROVE  /\ task[t].pc = "start" /\ Others(t)
         /\ Becomes(task'[t], task[t], task[t].op, "run", "BUILD",
                    task[t].server, task[t].ip, task[t].entity, task[t].detach)
         /\ Wrote(task[t].id, Stored(task'[t])) /\ Untouched(task[t].id)
         /\ UNCHANGED <<vertex, cloud, owner, issued>>
<1> DEFINE r == [task[t] EXCEPT !.pc = "run", !.status = "BUILD"]
<1>1. task[t] \in TaskRec /\ task[t].id \in Asset
  BY AtWork DEF Worker
<1>2. Becomes(r, task[t], task[t].op, "run", "BUILD", task[t].server, task[t].ip,
              task[t].entity, task[t].detach)
  BY <1>1 DEF Becomes, TaskRec, Pc, WorkerPc, Status
<1>3. Put(t, r) /\ Update(r) BY DEF Start
<1> HIDE DEF r
<1>4. task'[t] = r /\ Others(t) BY <1>3, PutEffect
<1>5. r.id = task[t].id BY <1>2 DEF Becomes
<1>6. Wrote(task[t].id, Stored(r)) /\ Untouched(task[t].id)
  BY <1>1, <1>3, <1>5, UpdateEffect
<1>7. UNCHANGED <<vertex, cloud, owner, issued>> /\ task[t].pc = "start"
  BY DEF Start, peervars
<1> QED BY <1>2, <1>4, <1>6, <1>7

(* What each outcome of the attempt does to the request. *)
LEMMA ConfigureEffect ==
  ASSUME Typed, NEW t \in Task, Configure(t)
  PROVE  /\ task[t].pc = "configure" /\ Others(t)
         /\ Becomes(task'[t], task[t], task[t].op, "finish", "SERVER_CREATED",
                    task[t].entity, task[t].entity, Null, task[t].detach)
         /\ UNCHANGED <<db, scars, vertex, cloud, owner, issued>>
<1> DEFINE r == [task[t] EXCEPT !.pc = "finish", !.status = "SERVER_CREATED",
                     !.server = task[t].entity, !.ip = task[t].entity,
                     !.entity = Null, !.tries = 0]
<1>1. task[t] \in TaskRec /\ task[t].id \in Asset
  BY AtWork DEF Worker
<1>2. Becomes(r, task[t], task[t].op, "finish", "SERVER_CREATED",
                    task[t].entity, task[t].entity, Null, task[t].detach)
  BY <1>1 DEF Becomes, TaskRec, Pc, WorkerPc, KillerPc, Op, Status
<1>3. Put(t, r)
  BY DEF Configure
<1> HIDE DEF r
<1>4. task'[t] = r /\ Others(t)
  BY <1>3, PutEffect
<1>5. UNCHANGED <<db, scars, vertex, cloud, owner, issued>> /\ task[t].pc = "configure"
  BY DEF Configure, peervars, history
<1> QED BY <1>2, <1>4, <1>5

(* The attempt's server becomes the request's, to be deleted. *)
LEMMA ConfigureFailsEffect ==
  ASSUME Typed, NEW t \in Task, ConfigureFails(t)
  PROVE  /\ task[t].pc = "configure" /\ Others(t)
         /\ Becomes(task'[t], task[t], task[t].op, "cleanup", task[t].status,
                    task[t].entity, task[t].ip, task[t].entity, task[t].detach)
         /\ UNCHANGED <<db, scars, vertex, cloud, owner, issued>>
<1> DEFINE r == [task[t] EXCEPT !.pc = "cleanup", !.server = task[t].entity]
<1>1. task[t] \in TaskRec /\ task[t].id \in Asset
  BY AtWork DEF Worker
<1>2. Becomes(r, task[t], task[t].op, "cleanup", task[t].status,
                    task[t].entity, task[t].ip, task[t].entity, task[t].detach)
  BY <1>1 DEF Becomes, TaskRec, Pc, WorkerPc, KillerPc, Op, Status
<1>3. Put(t, r)
  BY DEF ConfigureFails
<1> HIDE DEF r
<1>4. task'[t] = r /\ Others(t)
  BY <1>3, PutEffect
<1>5. UNCHANGED <<db, scars, vertex, cloud, owner, issued>> /\ task[t].pc = "configure"
  BY DEF ConfigureFails, peervars, history
<1> QED BY <1>2, <1>4, <1>5

(* The next request of the rescheduler's round. *)
LEMMA TakeEffect ==
  ASSUME Typed, NEW t \in Task, Take(t)
  PROVE  /\ task[t].pc = "listed" /\ Others(t)
         /\ Becomes(task'[t], task[t], task[t].op, "lookup", task[t].status,
                    task[t].server, task[t].ip, task[t].entity, task[t].detach)
         /\ UNCHANGED <<db, scars, vertex, cloud, owner, issued>>
<1> DEFINE r == [task[t] EXCEPT !.pc = "lookup"]
<1>1. task[t] \in TaskRec /\ task[t].id \in Asset
  BY AtWork DEF Worker
<1>2. Becomes(r, task[t], task[t].op, "lookup", task[t].status,
                    task[t].server, task[t].ip, task[t].entity, task[t].detach)
  BY <1>1 DEF Becomes, TaskRec, Pc, WorkerPc, KillerPc, Op, Status
<1>3. Put(t, r)
  BY DEF Take
<1> HIDE DEF r
<1>4. task'[t] = r /\ Others(t)
  BY <1>3, PutEffect
<1>5. UNCHANGED <<db, scars, vertex, cloud, owner, issued>> /\ task[t].pc = "listed"
  BY DEF Take, peervars, history
<1> QED BY <1>2, <1>4, <1>5

(* No provider: the request is dropped. *)
LEMMA StartFailsEffect ==
  ASSUME Typed, NEW t \in Task, StartFails(t)
  PROVE  /\ task[t].pc = "start" /\ Others(t) /\ task'[t] = FreeTask
         /\ Blamed(task[t].id, "provider") /\ Untouched(task[t].id)
         /\ UNCHANGED <<db, vertex, cloud, owner, issued>>
<1>1. task[t].id \in Asset
  BY AtWork DEF Worker
<1>2. task'[t] = FreeTask /\ Others(t)
  BY PutEffect DEF StartFails
<1>3. Blamed(task[t].id, "provider") /\ Untouched(task[t].id)
  BY <1>1, ScarredEffect DEF StartFails
<1> QED BY <1>2, <1>3 DEF StartFails, peervars

(* A server is created: the attempt goes on, or it is not told. *)
LEMMA RunServerEffect ==
  ASSUME Typed, NEW t \in Task, NEW s \in Server, RunServer(t, s)
  PROVE  /\ task[t].pc = "run" /\ Others(t) /\ owner[s] = Null
         /\ owner' = [owner EXCEPT ![s] = task[t].id] /\ cloud' = cloud \cup {s}
         /\ \/ /\ Becomes(task'[t], task[t], task[t].op, "configure", task[t].status,
                           task[t].server, task[t].ip, s, task[t].detach)
               /\ UNCHANGED scars
            \/ /\ Retried(task'[t], task[t], task[t].server)
               /\ Blamed(task[t].id, "reply") /\ Untouched(task[t].id)
         /\ UNCHANGED <<db, vertex, issued>>
<1> DEFINE r == [task[t] EXCEPT !.pc = "configure", !.entity = s]
<1>1. task[t] \in TaskRec /\ task[t].id \in Asset
  BY AtWork DEF Worker
<1>2. Becomes(r, task[t], task[t].op, "configure", task[t].status,
              task[t].server, task[t].ip, s, task[t].detach)
  BY <1>1 DEF Becomes, TaskRec, Pc, WorkerPc
<1>3. \/ Put(t, r) /\ UNCHANGED scars
      \/ Put(t, NextAttempt(task[t])) /\ Scarred(task[t].id, {"reply"})
  BY DEF RunServer
<1> HIDE DEF r
<1>4. /\ task[t].pc = "run" /\ owner[s] = Null /\ cloud' = cloud \cup {s}
      /\ owner' = [owner EXCEPT ![s] = task[t].id]
      /\ UNCHANGED <<db, vertex, issued>>
  BY DEF RunServer, Fresh
<1>5. CASE Put(t, r) /\ UNCHANGED scars
  <2>1. task'[t] = r /\ Others(t)
    BY <1>5, PutEffect
  <2> QED BY <1>2, <1>4, <1>5, <2>1
<1>6. CASE Put(t, NextAttempt(task[t])) /\ Scarred(task[t].id, {"reply"})
  <2>1. task'[t] = NextAttempt(task[t]) /\ Others(t)
    BY <1>6, PutEffect
  <2>2. Blamed(task[t].id, "reply") /\ Untouched(task[t].id)
    BY <1>1, <1>4, <1>6, ScarredEffect
  <2> QED BY <1>1, <1>4, <2>1, <2>2, RetriedEffect
<1> QED BY <1>3, <1>5, <1>6

(* No server is created. *)
LEMMA RunServerFailsEffect ==
  ASSUME Typed, NEW t \in Task, RunServerFails(t)
  PROVE  /\ task[t].pc = "run" /\ Others(t)
         /\ Retried(task'[t], task[t], task[t].server)
         /\ UNCHANGED <<db, scars, vertex, cloud, owner, issued>>
<1>1. task[t] \in TaskRec
  BY AtWork DEF Worker
<1>2. task'[t] = NextAttempt(task[t]) /\ Others(t)
  BY PutEffect DEF RunServerFails
<1> QED BY <1>1, <1>2, RetriedEffect DEF RunServerFails, peervars, history

(* The attempt fails and its server is left running. *)
LEMMA DetailFailsEffect ==
  ASSUME Typed, NEW t \in Task, DetailFails(t)
  PROVE  /\ task[t].pc = "configure" /\ Others(t)
         /\ Retried(task'[t], task[t], task[t].entity)
         /\ Blamed(task[t].id, "detail") /\ Untouched(task[t].id)
         /\ UNCHANGED <<db, vertex, cloud, owner, issued>>
<1> DEFINE r == [task[t] EXCEPT !.server = task[t].entity]
<1>1. task[t] \in TaskRec /\ task[t].id \in Asset
  BY AtWork DEF Worker
<1>2. /\ r \in TaskRec /\ r.id = task[t].id /\ r.op = task[t].op
      /\ r.status = task[t].status /\ r.server = task[t].entity /\ r.ip = task[t].ip
      /\ r.detach = task[t].detach
  BY <1>1 DEF TaskRec
<1>3. Put(t, NextAttempt(r))
  BY DEF DetailFails
<1> HIDE DEF r
<1>4. task'[t] = NextAttempt(r) /\ Others(t)
  BY <1>3, PutEffect
<1>5. Retried(NextAttempt(r), task[t], task[t].entity)
  BY <1>2, RetriedEffect DEF Retried, Becomes
<1>6. Blamed(task[t].id, "detail") /\ Untouched(task[t].id)
  BY <1>1, ScarredEffect DEF DetailFails
<1> QED BY <1>4, <1>5, <1>6 DEF DetailFails, peervars

(* The attempt's server is deleted, or left. *)
LEMMA CleanupEffect ==
  ASSUME Typed, NEW t \in Task, Cleanup(t)
  PROVE  /\ task[t].pc = "cleanup" /\ Others(t)
         /\ Retried(task'[t], task[t], task[t].server)
         /\ \/ cloud' = cloud \ {task[t].server} /\ UNCHANGED scars
            \/ UNCHANGED cloud /\ Blamed(task[t].id, "delete") /\ Untouched(task[t].id)
         /\ UNCHANGED <<db, vertex, owner, issued>>
<1>1. task[t] \in TaskRec /\ task[t].id \in Asset
  BY AtWork DEF Worker
<1>2. task'[t] = NextAttempt(task[t]) /\ Others(t)
  BY PutEffect DEF Cleanup
<1>3. Scarred(task[t].id, {"delete"}) =>
        Blamed(task[t].id, "delete") /\ Untouched(task[t].id)
  BY <1>1, ScarredEffect DEF Cleanup
<1> QED BY <1>1, <1>2, <1>3, RetriedEffect DEF Cleanup

(* The end of createServer. *)
LEMMA FinishEffect ==
  ASSUME Typed, NEW t \in Task, Finish(t)
  PROVE  /\ task[t].pc = "finish" /\ Others(t)
         /\ \/ task[t].ip = Null /\ task'[t] = FreeTask
            \/ /\ task[t].ip # Null
               /\ Becomes(task'[t], task[t], task[t].op, "notify", task[t].status,
                          task[t].server, task[t].ip, task[t].entity, task[t].detach)
         /\ Wrote(task[t].id, Stored(task[t])) /\ Untouched(task[t].id)
         /\ UNCHANGED <<vertex, cloud, owner, issued>>
<1> DEFINE r == [task[t] EXCEPT !.pc = "notify"]
<1>1. task[t] \in TaskRec /\ task[t].id \in Asset
  BY AtWork DEF Worker
<1>2. Becomes(r, task[t], task[t].op, "notify", task[t].status,
              task[t].server, task[t].ip, task[t].entity, task[t].detach)
  BY <1>1 DEF Becomes, TaskRec, Pc, WorkerPc
<1>3. Put(t, IF task[t].ip = Null THEN FreeTask ELSE r) /\ Update(task[t])
  BY DEF Finish
<1> HIDE DEF r
<1>4. task'[t] = (IF task[t].ip = Null THEN FreeTask ELSE r) /\ Others(t)
  BY <1>3, PutEffect
<1>5. Wrote(task[t].id, Stored(task[t])) /\ Untouched(task[t].id)
  BY <1>1, <1>3, UpdateEffect
<1>6. UNCHANGED <<vertex, cloud, owner, issued>> /\ task[t].pc = "finish"
  BY DEF Finish, peervars
<1> QED BY <1>2, <1>4, <1>5, <1>6

(* What the caller may have after asset a's call to it. *)
Told(a, v) == vertex' = [vertex EXCEPT ![a] = v]

(* The notification: what the caller has and what the request says of it. *)
LEMMA NotifyEffect ==
  ASSUME Typed, NEW t \in Task, Notify(t)
  PROVE  /\ task[t].pc = "notify" /\ Others(t)
         /\ \E status \in {task[t].status, "MARKED_FOR_DELETION", "NOTIFICATION_FAILED"} :
              /\ Becomes(task'[t], task[t], task[t].op, "record", status,
                         task[t].server, task[t].ip, task[t].entity, task[t].detach)
              /\ \/ vertex' = vertex /\ status \in {"MARKED_FOR_DELETION", "NOTIFICATION_FAILED"}
                 \/ Told(task[t].id, task[t].server)
                    /\ status \in {task[t].status, "NOTIFICATION_FAILED"}
         /\ UNCHANGED <<db, scars, cloud, owner, issued>>
<1>1. task[t] \in TaskRec
  BY AtWork DEF Worker
<1>2. PICK status \in {task[t].status, "MARKED_FOR_DELETION", "NOTIFICATION_FAILED"} :
        /\ Put(t, [task[t] EXCEPT !.pc = "record", !.status = status])
        /\ \/ vertex' = vertex /\ status \in {"MARKED_FOR_DELETION", "NOTIFICATION_FAILED"}
           \/ Told(task[t].id, task[t].server)
              /\ status \in {task[t].status, "NOTIFICATION_FAILED"}
  BY DEF Notify, Told
<1> DEFINE r == [task[t] EXCEPT !.pc = "record", !.status = status]
<1>3. Becomes(r, task[t], task[t].op, "record", status,
              task[t].server, task[t].ip, task[t].entity, task[t].detach)
  BY <1>1 DEF Becomes, TaskRec, Pc, WorkerPc, Status
<1>4. Put(t, r)
  BY <1>2
<1> HIDE DEF r
<1>5. task'[t] = r /\ Others(t)
  BY <1>4, PutEffect
<1> QED BY <1>2, <1>3, <1>5 DEF Notify, history

(* The end of updateAndNotify. *)
LEMMA RecordEffect ==
  ASSUME Typed, NEW t \in Task, Record(t)
  PROVE  /\ task[t].pc = "record" /\ Others(t) /\ task'[t] = FreeTask
         /\ Wrote(task[t].id, Stored(task[t])) /\ Untouched(task[t].id)
         /\ UNCHANGED <<vertex, cloud, owner, issued>>
<1>1. task[t].id \in Asset
  BY AtWork DEF Worker
<1>2. task'[t] = FreeTask /\ Others(t)
  BY PutEffect DEF Record
<1>3. Wrote(task[t].id, Stored(task[t])) /\ Untouched(task[t].id)
  BY <1>1, UpdateEffect DEF Record
<1> QED BY <1>2, <1>3 DEF Record, peervars

(* The server of a termination is found, or it is not. *)
LEMMA LookUpEffect ==
  ASSUME Typed, NEW t \in Task, LookUp(t)
  PROVE  /\ task[t].pc = "lookup" /\ Others(t)
         /\ \/ /\ task[t].server \in cloud
               /\ Becomes(task'[t], task[t], task[t].op, "kill", task[t].status,
                          task[t].server, task[t].ip, task[t].entity, task[t].detach)
            \/ task[t].server \notin cloud /\ Done(task'[t], task[t])
         /\ task[t].op = "retry" => ~task[t].detach
         /\ UNCHANGED <<db, scars, vertex, cloud, owner, issued>>
<1> DEFINE r == [task[t] EXCEPT !.pc = "kill", !.tries = 0]
<1>1. task[t] \in TaskRec
  BY AtWork DEF Killer
<1>2. Becomes(r, task[t], task[t].op, "kill", task[t].status,
              task[t].server, task[t].ip, task[t].entity, task[t].detach)
  BY <1>1 DEF Becomes, TaskRec, Pc, KillerPc
<1>3. Put(t, IF task[t].server \in cloud THEN r ELSE Terminated(task[t]))
  BY DEF LookUp
<1> HIDE DEF r
<1>4. task'[t] = (IF task[t].server \in cloud THEN r ELSE Terminated(task[t])) /\ Others(t)
  BY <1>3, PutEffect
<1>5. /\ task[t].pc = "lookup"
      /\ task[t].op = "retry" => ~task[t].detach
      /\ UNCHANGED <<db, scars, vertex, cloud, owner, issued>>
  BY DEF LookUp, LookingUp, peervars, history
<1> QED BY <1>1, <1>2, <1>4, <1>5, DoneEffect

(* It is not looked for. *)
LEMMA ListFailsEffect ==
  ASSUME Typed, NEW t \in Task, ListFails(t)
  PROVE  /\ task[t].pc = "lookup" /\ Others(t) /\ Done(task'[t], task[t])
         /\ Blamed(task[t].id, "list") /\ Untouched(task[t].id)
         /\ task[t].op = "retry" => ~task[t].detach
         /\ UNCHANGED <<db, vertex, cloud, owner, issued>>
<1>1. task[t] \in TaskRec /\ task[t].id \in Asset
  BY AtWork DEF Killer
<1>2. task'[t] = Terminated(task[t]) /\ Others(t)
  BY PutEffect DEF ListFails
<1>3. Blamed(task[t].id, "list") /\ Untouched(task[t].id)
  BY <1>1, ScarredEffect DEF ListFails
<1> QED BY <1>1, <1>2, <1>3, DoneEffect DEF ListFails, LookingUp, peervars

(* There is no provider to ask. *)
LEMMA LookUpFailsEffect ==
  ASSUME Typed, NEW t \in Task, LookUpFails(t)
  PROVE  /\ task[t].pc = "lookup" /\ Others(t)
         /\ \/ task[t].op = "retry" /\ Done(task'[t], task[t])
            \/ task[t].op # "retry" /\ Finished(task'[t], task[t])
         /\ Blamed(task[t].id, "provider") /\ Untouched(task[t].id)
         /\ task[t].op = "retry" => ~task[t].detach
         /\ UNCHANGED <<db, vertex, cloud, owner, issued>>
<1>1. task[t] \in TaskRec /\ task[t].id \in Asset
  BY AtWork DEF Killer
<1>2. /\ task'[t] = IF task[t].op = "retry" THEN Terminated(task[t]) ELSE Ended(task[t])
      /\ Others(t)
  BY PutEffect DEF LookUpFails
<1>3. Blamed(task[t].id, "provider") /\ Untouched(task[t].id)
  BY <1>1, ScarredEffect DEF LookUpFails
<1> QED
  BY <1>1, <1>2, <1>3, DoneEffect, FinishedEffect DEF LookUpFails, LookingUp, peervars

(* It is deleted. *)
LEMMA KillEffect ==
  ASSUME Typed, NEW t \in Task, Kill(t)
  PROVE  /\ task[t].pc = "kill" /\ Others(t) /\ Done(task'[t], task[t])
         /\ cloud' = cloud \ {task[t].server}
         /\ UNCHANGED <<db, scars, vertex, owner, issued>>
<1>1. task[t] \in TaskRec
  BY AtWork DEF Killer
<1>2. task'[t] = Terminated(task[t]) /\ Others(t)
  BY PutEffect DEF Kill
<1> QED BY <1>1, <1>2, DoneEffect DEF Kill, history

(* It is not, or so it seems. *)
LEMMA KillFailsEffect ==
  ASSUME Typed, NEW t \in Task, KillFails(t)
  PROVE  /\ task[t].pc = "kill" /\ Others(t)
         /\ cloud' \in {cloud, cloud \ {task[t].server}}
         /\ \/ /\ Done(task'[t], task[t])
               /\ \/ task[t].server \notin cloud' /\ UNCHANGED scars
                  \/ Blamed(task[t].id, "delete") /\ Untouched(task[t].id)
            \/ /\ Becomes(task'[t], task[t], task[t].op, "kill", task[t].status,
                          task[t].server, task[t].ip, task[t].entity, task[t].detach)
               /\ UNCHANGED scars
         /\ UNCHANGED <<db, vertex, owner, issued>>
<1> DEFINE r == [task[t] EXCEPT !.tries = task[t].tries + 1]
<1>1. task[t] \in TaskRec /\ task[t].id \in Asset
  BY AtWork DEF Killer
<1>2. task[t].pc = "kill" /\ UNCHANGED <<db, vertex, owner, issued>>
      /\ cloud' \in {cloud, cloud \ {task[t].server}}
  BY DEF KillFails
<1>3. Becomes(r, task[t], task[t].op, "kill", task[t].status,
              task[t].server, task[t].ip, task[t].entity, task[t].detach)
  BY <1>1, <1>2 DEF Becomes, TaskRec
<1>4. \/ /\ Put(t, Terminated(task[t]))
         /\ \/ task[t].server \notin cloud' /\ UNCHANGED scars
            \/ Scarred(task[t].id, {"delete"})
      \/ Put(t, r) /\ UNCHANGED scars
  BY DEF KillFails
<1> HIDE DEF r
<1>5. Scarred(task[t].id, {"delete"}) =>
        Blamed(task[t].id, "delete") /\ Untouched(task[t].id)
  BY <1>1, <1>2, ScarredEffect
<1>6. Put(t, r) => task'[t] = r /\ Others(t)
  BY PutEffect
<1>7. Put(t, Terminated(task[t])) => Done(task'[t], task[t]) /\ Others(t)
  BY <1>1, PutEffect, DoneEffect
<1> QED BY <1>2, <1>3, <1>4, <1>5, <1>6, <1>7

(* The record is removed, or the write fails. *)
LEMMA RemoveEffect ==
  ASSUME Typed, NEW t \in Task, Remove(t)
  PROVE  /\ task[t].pc = "remove" /\ Others(t) /\ Finished(task'[t], task[t])
         /\ Wrote(task[t].id, NoDoc) /\ Untouched(task[t].id)
         /\ UNCHANGED <<vertex, cloud, owner, issued>>
<1>1. task[t] \in TaskRec /\ task[t].id \in Asset
  BY AtWork DEF Killer
<1>2. task'[t] = Ended(task[t]) /\ Others(t)
  BY PutEffect DEF Remove
<1>3. Wrote(task[t].id, NoDoc) /\ Untouched(task[t].id)
  BY <1>1 DEF Remove, Typed, TypeOK, Scarred, Wrote, Untouched
<1> QED BY <1>1, <1>2, <1>3, FinishedEffect DEF Remove, peervars

(* The caller is told that it has no server. *)
LEMMA DetachEffect ==
  ASSUME Typed, NEW t \in Task, Detach(t)
  PROVE  /\ task[t].detach /\ task[t].pc \in KillerPc /\ Others(t)
         /\ \/ task[t].pc = "gone" /\ task'[t] = FreeTask
            \/ /\ task[t].pc # "gone"
               /\ Becomes(task'[t], task[t], task[t].op, task[t].pc, task[t].status,
                          task[t].server, task[t].ip, task[t].entity, FALSE)
         /\ \/ Told(task[t].id, Null) /\ UNCHANGED scars
            \/ /\ vertex' = vertex \/ Told(task[t].id, Null)
               /\ Blamed(task[t].id, "notify") /\ Untouched(task[t].id)
         /\ UNCHANGED <<db, cloud, owner, issued>>
<1> DEFINE r == [task[t] EXCEPT !.detach = FALSE]
<1>1. task[t] \in TaskRec /\ task[t].id \in Asset
  BY AtWork
<1>2. Becomes(r, task[t], task[t].op, task[t].pc, task[t].status,
              task[t].server, task[t].ip, task[t].entity, FALSE)
  BY <1>1 DEF Becomes, TaskRec
<1>3. /\ task[t].detach /\ task[t].pc \in KillerPc
      /\ UNCHANGED <<db, cloud, owner, issued>>
  BY DEF Detach
<1>4. Put(t, IF task[t].pc = "gone" THEN FreeTask ELSE r)
  BY DEF Detach
<1>5. \/ Told(task[t].id, Null) /\ UNCHANGED scars
      \/ /\ vertex' = vertex \/ Told(task[t].id, Null)
         /\ Scarred(task[t].id, {"notify"})
  BY DEF Detach, Told
<1> HIDE DEF r
<1>6. Scarred(task[t].id, {"notify"}) =>
        Blamed(task[t].id, "notify") /\ Untouched(task[t].id)
  BY <1>1, <1>3, ScarredEffect
<1>7. task'[t] = (IF task[t].pc = "gone" THEN FreeTask ELSE r) /\ Others(t)
  BY <1>4, PutEffect
<1> QED BY <1>2, <1>3, <1>5, <1>6, <1>7

(* The request at the head of the channel starts. *)
LEMMA DispatchEffect ==
  ASSUME Typed, Dispatch
  PROVE  \E t \in Task :
           /\ task[t] \in TaskRec /\ task[t].pc = "queued" /\ Others(t)
           /\ Becomes(task'[t], task[t], task[t].op, "start", task[t].status,
                      task[t].server, task[t].ip, task[t].entity, task[t].detach)
           /\ UNCHANGED <<db, scars, vertex, cloud, owner, issued>>
<1> DEFINE h == Head(cReq)
           r == [task[h] EXCEPT !.pc = "start", !.tries = 0]
<1>1. cReq \in Seq(Task) /\ cReq # <<>>
  BY DEF Typed, TypeOK, Dispatch
<1>2. h \in Task /\ h = cReq[1] /\ 1 \in 1..Len(cReq)
  BY <1>1
<1>3. task[h].pc = "queued"
  BY <1>2 DEF Typed, ChannelOK
<1>4. task[h] \in TaskRec
  BY <1>2, <1>3, ActiveTask DEF Typed
<1>5. Becomes(r, task[h], task[h].op, "start", task[h].status,
              task[h].server, task[h].ip, task[h].entity, task[h].detach)
  BY <1>4 DEF Becomes, TaskRec, Pc, WorkerPc
<1>6. Put(h, r)
  BY DEF Dispatch
<1> HIDE DEF r, h
<1>7. task'[h] = r /\ Others(h)
  BY <1>2, <1>6, PutEffect
<1> QED BY <1>2, <1>3, <1>4, <1>5, <1>7 DEF Dispatch, peervars, history

-----------------------------------------------------------------------------
(* Single records: the shape of requests, and of records *)

(* The stored fields of a record say of it what the record says. *)
LEMMA StoredShape ==
  ASSUME NEW r
  PROVE  ShapedDoc(Stored(r)) <=> ShapedDoc(r)
BY DEF ShapedDoc, Stored

(* A task that r may become. *)
Good(q) == q = FreeTask \/ ShapedTask(q)

(* The shape of a request after a failed attempt, *)
LEMMA RetriedShape ==
  ASSUME NEW r \in TaskRec, ShapedTask(r), r.pc \in {"run", "configure", "cleanup"},
         NEW q, NEW s, Retried(q, r, s)
  PROVE  ShapedTask(q)
<1>1. /\ r.status = "BUILD" /\ r.ip = Null /\ r.op = "create"
  BY DEF ShapedTask, ShapedDoc, Unready, TaskRec, Op, KillerPc
<1> QED
  BY <1>1 DEF Retried, Becomes, ShapedTask, ShapedDoc, Unready, WorkerPc

(* after a termination, *)
LEMMA DoneShape ==
  ASSUME NEW r \in TaskRec, ShapedTask(r), r.pc \in {"lookup", "kill"},
         NEW q, Done(q, r)
  PROVE  ShapedTask(q)
BY DEF Done, Becomes, ShapedTask, ShapedDoc, TaskRec, Op, KillerPc, WorkerPc

(* and when it has ended. *)
LEMMA FinishedShape ==
  ASSUME NEW r \in TaskRec, ShapedTask(r), r.pc \in {"lookup", "remove"},
         r.op # "retry", NEW q, Finished(q, r)
  PROVE  Good(q)
BY DEF Finished, Becomes, ShapedTask, ShapedDoc, TaskRec, Op, KillerPc, WorkerPc, Good

(* A step of one task, whose shape it keeps, that stores shaped records only. *)
LEMMA ShapedFrame ==
  ASSUME Typed, Shaped, NEW t \in Task, Others(t), Good(task'[t]),
         \A a \in Asset : ShapedDoc(db'[a])
  PROVE  Shaped'
BY DEF Shaped, Others, Good, FreeTask, Free

(* Writing a shaped record. *)
LEMMA WroteShape ==
  ASSUME Shaped, NEW a \in Asset, NEW x, ShapedDoc(x), Wrote(a, x), Untouched(a)
  PROVE  \A b \in Asset : ShapedDoc(db'[b])
BY DEF Shaped, Wrote, Untouched

(* A worker's steps, action by action. *)
LEMMA WorkerShaped ==
  ASSUME Typed, Shaped, NEW t \in Task, Worker(t)
  PROVE  Shaped'
<1> DEFINE r == task[t]
           q == task'[t]
<1>1. r \in TaskRec /\ r.id \in Asset /\ ShapedTask(r)
  BY AtWork, ActiveTask DEF Shaped, Free, Typed, TaskRec, Pc, WorkerPc, KillerPc
<1>2. db' = db => \A a \in Asset : ShapedDoc(db'[a])
  BY DEF Shaped
<1>3. \A x : Wrote(r.id, x) /\ Untouched(r.id) /\ ShapedDoc(x)
             => \A a \in Asset : ShapedDoc(db'[a])
  BY <1>1, WroteShape
<1>4. Others(t) /\ Good(q) /\ (\A a \in Asset : ShapedDoc(db'[a])) => Shaped'
  BY ShapedFrame
<1>5. ShapedDoc(r) /\ r.op \in Op /\ r.pc \in Pc
  BY <1>1 DEF ShapedTask, TaskRec
<1> HIDE DEF r, q
<1>6. CASE SendRequest(t)
  <2>1. r.pc = "send" /\ Others(t) /\ db' = db
        /\ Becomes(q, r, "create", "queued", r.status, r.server, r.ip, r.entity, r.detach)
    BY <1>6, SendRequestEffect DEF r, q
  <2>2. ShapedTask(q)
    BY <1>1, <2>1 DEF Becomes, ShapedTask, ShapedDoc, WorkerPc, KillerPc
  <2> QED BY <1>2, <1>4, <2>1, <2>2 DEF Good
<1>7. CASE Start(t)
  <2>1. r.pc = "start" /\ Others(t) /\ Wrote(r.id, Stored(q)) /\ Untouched(r.id)
        /\ Becomes(q, r, r.op, "run", "BUILD", r.server, r.ip, r.entity, r.detach)
    BY <1>7, StartEffect DEF r, q
  <2>2. ShapedTask(q)
    BY <1>1, <1>5, <2>1 DEF Becomes, ShapedTask, ShapedDoc, WorkerPc, KillerPc, Unready, Op
  <2>3. ShapedDoc(Stored(q))
    BY <2>2, StoredShape DEF ShapedTask
  <2> QED BY <1>3, <1>4, <2>1, <2>2, <2>3 DEF Good
<1>8. CASE StartFails(t)
  BY <1>2, <1>4, <1>8, StartFailsEffect DEF Good, q
<1>9. ASSUME NEW s \in Server, RunServer(t, s) PROVE Shaped'
  <2>1. /\ r.pc = "run" /\ Others(t) /\ db' = db
        /\ \/ Becomes(q, r, r.op, "configure", r.status, r.server, r.ip, s, r.detach)
           \/ Retried(q, r, r.server)
    BY <1>9, RunServerEffect DEF r, q
  <2>2. Becomes(q, r, r.op, "configure", r.status, r.server, r.ip, s, r.detach)
        => ShapedTask(q)
    BY <1>1, <1>5, <2>1, NullAssumption
       DEF Becomes, ShapedTask, ShapedDoc, WorkerPc, KillerPc, Unready, Op
  <2>3. Retried(q, r, r.server) => ShapedTask(q)
    BY <1>1, <2>1, RetriedShape
  <2> QED BY <1>2, <1>4, <2>1, <2>2, <2>3 DEF Good
<1>10. CASE RunServerFails(t)
  <2>1. r.pc = "run" /\ Others(t) /\ db' = db /\ Retried(q, r, r.server)
    BY <1>10, RunServerFailsEffect DEF r, q
  <2> QED BY <1>1, <1>2, <1>4, <2>1, RetriedShape DEF Good
<1>11. CASE Configure(t)
  <2>1. r.pc = "configure" /\ Others(t) /\ db' = db
        /\ Becomes(q, r, r.op, "finish", "SERVER_CREATED", r.entity, r.entity, Null, r.detach)
    BY <1>11, ConfigureEffect DEF r, q
  <2>2. ShapedTask(q)
    BY <1>1, <1>5, <2>1 DEF Becomes, ShapedTask, ShapedDoc, WorkerPc, KillerPc, Unready, Op
  <2> QED BY <1>2, <1>4, <2>1, <2>2 DEF Good
<1>12. CASE ConfigureFails(t)
  <2>1. r.pc = "configure" /\ Others(t) /\ db' = db
        /\ Becomes(q, r, r.op, "cleanup", r.status, r.entity, r.ip, r.entity, r.detach)
    BY <1>12, ConfigureFailsEffect DEF r, q
  <2>2. ShapedTask(q)
    BY <1>1, <1>5, <2>1 DEF Becomes, ShapedTask, ShapedDoc, WorkerPc, KillerPc, Unready, Op
  <2> QED BY <1>2, <1>4, <2>1, <2>2 DEF Good
<1>13. CASE DetailFails(t)
  <2>1. r.pc = "configure" /\ Others(t) /\ db' = db /\ Retried(q, r, r.entity)
    BY <1>13, DetailFailsEffect DEF r, q
  <2> QED BY <1>1, <1>2, <1>4, <2>1, RetriedShape DEF Good
<1>14. CASE Cleanup(t)
  <2>1. r.pc = "cleanup" /\ Others(t) /\ db' = db /\ Retried(q, r, r.server)
    BY <1>14, CleanupEffect DEF r, q
  <2> QED BY <1>1, <1>2, <1>4, <2>1, RetriedShape DEF Good
<1>15. CASE Finish(t)
  <2>1. /\ r.pc = "finish" /\ Others(t) /\ Wrote(r.id, Stored(r)) /\ Untouched(r.id)
        /\ \/ q = FreeTask
           \/ /\ r.ip # Null
              /\ Becomes(q, r, r.op, "notify", r.status, r.server, r.ip, r.entity, r.detach)
    BY <1>15, FinishEffect DEF r, q
  <2>2. Good(q)
    BY <1>1, <1>5, <2>1
       DEF Good, Becomes, ShapedTask, ShapedDoc, WorkerPc, KillerPc, Unready, Op
  <2> QED BY <1>3, <1>4, <1>5, <2>1, <2>2, StoredShape
<1>16. CASE Notify(t)
  <2>1. PICK status \in {r.status, "MARKED_FOR_DELETION", "NOTIFICATION_FAILED"} :
          /\ r.pc = "notify" /\ Others(t) /\ db' = db
          /\ Becomes(q, r, r.op, "record", status, r.server, r.ip, r.entity, r.detach)
    BY <1>16, NotifyEffect DEF r, q
  <2>2. ShapedTask(q)
    BY <1>1, <1>5, <2>1 DEF Becomes, ShapedTask, ShapedDoc, WorkerPc, KillerPc, Unready, Op
  <2> QED BY <1>2, <1>4, <2>1, <2>2 DEF Good
<1>17. CASE Record(t)
  <2>1. Others(t) /\ q = FreeTask /\ Wrote(r.id, Stored(r)) /\ Untouched(r.id)
    BY <1>17, RecordEffect DEF r, q
  <2> QED BY <1>3, <1>4, <1>5, <2>1, StoredShape DEF Good
<1> QED
  BY <1>6, <1>7, <1>8, <1>9, <1>10, <1>11, <1>12, <1>13, <1>14, <1>15, <1>16, <1>17
     DEF Worker

(* The steps of terminations, detach calls and the rescheduler's round. *)
LEMMA KillerShaped ==
  ASSUME Typed, Shaped, NEW t \in Task, Killer(t) \/ Detach(t) \/ Take(t)
  PROVE  Shaped'
<1> DEFINE r == task[t]
           q == task'[t]
<1>1. r \in TaskRec /\ r.id \in Asset /\ ShapedTask(r)
  BY AtWork, ActiveTask DEF Shaped, Free, Typed, TaskRec, Pc, WorkerPc, KillerPc
<1>2. db' = db => \A a \in Asset : ShapedDoc(db'[a])
  BY DEF Shaped
<1>3. \A x : Wrote(r.id, x) /\ Untouched(r.id) /\ ShapedDoc(x)
             => \A a \in Asset : ShapedDoc(db'[a])
  BY <1>1, WroteShape
<1>4. Others(t) /\ Good(q) /\ (\A a \in Asset : ShapedDoc(db'[a])) => Shaped'
  BY ShapedFrame
<1>5. ShapedDoc(r) /\ r.op \in Op /\ r.pc \in Pc
  BY <1>1 DEF ShapedTask, TaskRec
<1> HIDE DEF r, q
<1>6. CASE LookUp(t)
  <2>1. /\ r.pc = "lookup" /\ Others(t) /\ db' = db
        /\ \/ Becomes(q, r, r.op, "kill", r.status, r.server, r.ip, r.entity, r.detach)
           \/ Done(q, r)
    BY <1>6, LookUpEffect DEF r, q
  <2>2. Becomes(q, r, r.op, "kill", r.status, r.server, r.ip, r.entity, r.detach)
        => ShapedTask(q)
    BY <1>1, <1>5, <2>1 DEF Becomes, ShapedTask, ShapedDoc, WorkerPc, KillerPc, Op
  <2> QED BY <1>1, <1>2, <1>4, <2>1, <2>2, DoneShape DEF Good
<1>7. CASE ListFails(t)
  <2>1. r.pc = "lookup" /\ Others(t) /\ db' = db /\ Done(q, r)
    BY <1>7, ListFailsEffect DEF r, q
  <2> QED BY <1>1, <1>2, <1>4, <2>1, DoneShape DEF Good
<1>8. CASE LookUpFails(t)
  <2>1. /\ r.pc = "lookup" /\ Others(t) /\ db' = db
        /\ Done(q, r) \/ (r.op # "retry" /\ Finished(q, r))
    BY <1>8, LookUpFailsEffect DEF r, q
  <2> QED BY <1>1, <1>2, <1>4, <2>1, DoneShape, FinishedShape DEF Good
<1>9. CASE Kill(t)
  <2>1. r.pc = "kill" /\ Others(t) /\ db' = db /\ Done(q, r)
    BY <1>9, KillEffect DEF r, q
  <2> QED BY <1>1, <1>2, <1>4, <2>1, DoneShape DEF Good
<1>10. CASE KillFails(t)
  <2>1. /\ r.pc = "kill" /\ Others(t) /\ db' = db
        /\ \/ Becomes(q, r, r.op, "kill", r.status, r.server, r.ip, r.entity, r.detach)
           \/ Done(q, r)
    BY <1>10, KillFailsEffect DEF r, q
  <2>2. Becomes(q, r, r.op, "kill", r.status, r.server, r.ip, r.entity, r.detach)
        => ShapedTask(q)
    BY <1>1, <1>5, <2>1 DEF Becomes, ShapedTask, ShapedDoc, WorkerPc, KillerPc, Op
  <2> QED BY <1>1, <1>2, <1>4, <2>1, <2>2, DoneShape DEF Good
<1>11. CASE Remove(t)
  <2>1. r.pc = "remove" /\ Others(t) /\ Finished(q, r) /\ Wrote(r.id, NoDoc) /\ Untouched(r.id)
    BY <1>11, RemoveEffect DEF r, q
  <2>2. r.op # "retry"
    BY <1>1, <2>1 DEF ShapedTask
  <2>3. ShapedDoc(NoDoc)
    BY DEF ShapedDoc, NoDoc, Unready
  <2> QED BY <1>1, <1>3, <1>4, <2>1, <2>2, <2>3, FinishedShape
<1>12. CASE Detach(t)
  <2>1. /\ r.pc \in KillerPc /\ Others(t) /\ db' = db
        /\ \/ q = FreeTask
           \/ Becomes(q, r, r.op, r.pc, r.status, r.server, r.ip, r.entity, FALSE)
    BY <1>12, DetachEffect DEF r, q
  <2>2. Good(q)
    BY <1>1, <1>5, <2>1 DEF Good, Becomes, ShapedTask, ShapedDoc, WorkerPc, KillerPc, Op
  <2> QED BY <1>2, <1>4, <2>1, <2>2
<1>13. CASE Take(t)
  <2>1. r.pc = "listed" /\ Others(t) /\ db' = db
        /\ Becomes(q, r, r.op, "lookup", r.status, r.server, r.ip, r.entity, r.detach)
    BY <1>13, TakeEffect DEF r, q
  <2>2. ShapedTask(q)
    BY <1>1, <1>5, <2>1 DEF Becomes, ShapedTask, ShapedDoc, WorkerPc, KillerPc, Op
  <2> QED BY <1>2, <1>4, <2>1, <2>2 DEF Good
<1> QED
  BY <1>6, <1>7, <1>8, <1>9, <1>10, <1>11, <1>12, <1>13 DEF Killer

-----------------------------------------------------------------------------
(* Reading and inserting records *)

(* A record as createAsset inserts it. *)
Inserted(d) == d.status = "NEW" /\ d.server = Null /\ d.ip = Null /\ d # NoDoc

(* A new request is stored and held by its handler. *)
LEMMA CreateEffect ==
  ASSUME Typed, NEW a \in Asset, NEW t \in Task, CreateAsset(a, t)
  PROVE  /\ a \notin issued /\ issued' = issued \cup {a}
         /\ task[t].pc = "free" /\ Others(t)
         /\ task'[t] \in TaskRec /\ task'[t].id = a /\ task'[t].op = "create"
         /\ task'[t].pc = "send" /\ Stored(task'[t]) = db'[a]
         /\ task'[t].status = "NEW" /\ task'[t].server = Null /\ task'[t].ip = Null
         /\ task'[t].entity = Null /\ ~task'[t].detach
         /\ Inserted(db'[a]) /\ Untouched(a) /\ scars' = scars
         /\ UNCHANGED <<vertex, cloud, owner>>
<1> DEFINE q == [FreeTask EXCEPT !.pc = "send", !.id = a, !.status = "NEW"]
           d == [NoDoc EXCEPT !.status = "NEW"]
<1>1. /\ q \in TaskRec /\ q.id = a /\ q.op = "create" /\ q.pc = "send"
      /\ q.status = "NEW" /\ q.server = Null /\ q.ip = Null
      /\ q.entity = Null /\ ~q.detach
  BY DEF FreeTask, TaskRec, Op, Pc, Status
<1>2. Stored(q) = d
  BY DEF Stored, FreeTask, NoDoc
<1>3. d.status = "NEW" /\ d.server = Null /\ d.ip = Null
  BY DEF NoDoc
<1>4. Inserted(d)
  BY <1>3 DEF Inserted, NoDoc
<1>5. Put(t, q) /\ db' = [db EXCEPT ![a] = d]
  BY DEF CreateAsset
<1> HIDE DEF q, d
<1>6. task'[t] = q /\ Others(t)
  BY <1>5, PutEffect
<1>7. db'[a] = d /\ Untouched(a)
  BY <1>5 DEF CreateAsset, Typed, TypeOK, Untouched
<1> QED BY <1>1, <1>2, <1>4, <1>6, <1>7 DEF CreateAsset, Free

(* It is stored, and nobody holds it. *)
LEMMA CreateFailsEffect ==
  ASSUME Typed, NEW a \in Asset, CreateAssetFails(a)
  PROVE  /\ a \notin issued /\ issued' = issued \cup {a}
         /\ Inserted(db'[a]) /\ Blamed(a, "write") /\ Untouched(a)
         /\ UNCHANGED <<task, vertex, cloud, owner>>
<1> DEFINE d == [NoDoc EXCEPT !.status = "NEW"]
<1>1. d.status = "NEW" /\ d.server = Null /\ d.ip = Null
  BY DEF NoDoc
<1>2. Inserted(d)
  BY <1>1 DEF Inserted, NoDoc
<1>3. db' = [db EXCEPT ![a] = d] /\ Scarred(a, {"write"})
  BY DEF CreateAssetFails
<1> HIDE DEF d
<1>4. db'[a] = d /\ Blamed(a, "write") /\ Untouched(a)
  BY <1>3 DEF Typed, TypeOK, Untouched, Scarred, Blamed
<1> QED BY <1>2, <1>4 DEF CreateAssetFails

(* What a request object read from record d of asset a is. *)
Reads(q, a, d, op, pc, detach) ==
  /\ q \in TaskRec /\ q.id = a /\ q.op = op /\ q.pc = pc /\ Stored(q) = d
  /\ q.status = d.status /\ q.server = d.server /\ q.ip = d.ip
  /\ q.entity = Null /\ q.detach = detach

(* A snapshot is what was read. *)
LEMMA SnapshotReads ==
  ASSUME Typed, NEW a \in Asset, db[a] \in Doc, NEW op \in Op, NEW pc \in Pc,
         NEW detach \in BOOLEAN
  PROVE  Reads(Snapshot(a, op, pc, detach), a, db[a], op, pc, detach)
<1>1. Stored(Snapshot(a, op, pc, detach)) = db[a]
  BY DEF Stored, Snapshot, Doc
<1> QED BY <1>1 DEF Reads, Snapshot, TaskRec, Doc

(* A deletion holds a copy of the record. *)
LEMMA DestroyEffect ==
  ASSUME Typed, NEW a \in Asset, NEW t \in Task, DestroyAsset(a, t)
  PROVE  /\ db[a] # NoDoc /\ task[t].pc = "free" /\ Others(t)
         /\ Reads(task'[t], a, db[a], "delete", "lookup", TRUE)
         /\ scars' = Overlap({a})
         /\ UNCHANGED <<db, vertex, cloud, owner, issued>>
<1>1. db[a] \in Doc /\ "delete" \in Op /\ "lookup" \in Pc
  BY DEF DestroyAsset, Typed, TypeOK, Op, Pc, KillerPc
<1>2. task'[t] = Snapshot(a, "delete", "lookup", TRUE) /\ Others(t)
  BY PutEffect DEF DestroyAsset
<1> QED BY <1>1, <1>2, SnapshotReads DEF DestroyAsset, Free

(* What a round of the rescheduler makes of task t, whose slot is a's. *)
Rescheduled(t, a) ==
  /\ a \in Asset /\ db[a] # NoDoc /\ task[t].pc = "free"
  /\ \/ /\ db[a].status = "RETRY"
        /\ Reads(task'[t], a, db[a], "retry", "listed", TRUE)
     \/ /\ db[a].status = "MARKED_FOR_DELETION"
        /\ Reads(task'[t], a, db[a], "marked", "listed", FALSE)

(* A round of the rescheduler fills free slots, one for each due record. *)
LEMMA ScanTasks ==
  ASSUME Typed, Scan
  PROVE  \E slot : \A t \in Task :
           \/ task'[t] = task[t]
           \/ \E a \in Due : slot[a] = t /\ Rescheduled(t, a)
<1>1. PICK slot \in [Due -> {u \in Task : Free(u)}] :
        task' = [u \in Task |->
            IF \E a \in Due : slot[a] = u
            THEN LET a == CHOOSE x \in Due : slot[x] = u
                     retry == db[a].status = "RETRY"
                 IN Snapshot(a, IF retry THEN "retry" ELSE "marked", "listed", retry)
            ELSE task[u]]
  BY DEF Scan
<1>2. ASSUME NEW t \in Task
      PROVE  \/ task'[t] = task[t]
             \/ \E a \in Due : slot[a] = t /\ Rescheduled(t, a)
  <2>1. CASE ~\E a \in Due : slot[a] = t
    BY <1>1, <2>1
  <2>2. CASE \E a \in Due : slot[a] = t
    <3> DEFINE a == CHOOSE x \in Due : slot[x] = t
               retry == db[a].status = "RETRY"
    <3>1. a \in Due /\ slot[a] = t
      BY <2>2
    <3>2. task'[t] = Snapshot(a, IF retry THEN "retry" ELSE "marked", "listed", retry)
      BY <1>1, <2>2
    <3> HIDE DEF a
    <3>3. task[t].pc = "free"
      BY <3>1 DEF Free
    <3>4. /\ a \in Asset /\ db[a] \in Doc /\ db[a] # NoDoc
          /\ db[a].status \in {"RETRY", "MARKED_FOR_DELETION"}
      BY <3>1 DEF Due, Typed, TypeOK, NoDoc
    <3>5. {"retry", "marked"} \subseteq Op /\ "listed" \in Pc
      BY DEF Op, Pc
    <3>6. CASE retry = TRUE
      <4>1. Reads(Snapshot(a, "retry", "listed", TRUE), a, db[a], "retry", "listed", TRUE)
        BY <3>4, <3>5, SnapshotReads
      <4>2. task'[t] = Snapshot(a, "retry", "listed", TRUE)
        BY <3>2, <3>6
      <4> QED BY <3>1, <3>3, <3>4, <3>6, <4>1, <4>2 DEF Rescheduled
    <3>7. CASE retry = FALSE
      <4>1. Reads(Snapshot(a, "marked", "listed", FALSE), a, db[a], "marked", "listed", FALSE)
        BY <3>4, <3>5, SnapshotReads
      <4>2. task'[t] = Snapshot(a, "marked", "listed", FALSE)
        BY <3>2, <3>7
      <4> QED BY <3>1, <3>3, <3>4, <3>7, <4>1, <4>2 DEF Rescheduled
    <3> QED BY <3>6, <3>7
  <2> QED BY <2>1, <2>2
<1> QED BY <1>2

(* The handlers keep the shape of records and requests. *)
LEMMA HandlerShaped == Typed /\ Shaped /\ Handler => Shaped'
<1> SUFFICES ASSUME Typed, Shaped, Handler PROVE Shaped'
  OBVIOUS
<1>1. ASSUME NEW a \in Asset, NEW t \in Task, CreateAsset(a, t) PROVE Shaped'
  <2>1. ShapedDoc(db'[a]) /\ Untouched(a)
    BY <1>1, CreateEffect DEF Inserted, ShapedDoc
  <2>2. \A b \in Asset : ShapedDoc(db'[b])
    BY <2>1 DEF Shaped, Untouched
  <2> DEFINE q == task'[t]
  <2>3. /\ q.status = "NEW" /\ q.ip = Null /\ q.pc = "send" /\ q.op = "create"
        /\ Others(t)
    BY <1>1, CreateEffect
  <2> HIDE DEF q
  <2>4. ShapedTask(q)
    BY <2>3 DEF ShapedTask, ShapedDoc
  <2> QED BY <2>2, <2>3, <2>4, ShapedFrame DEF Good, q
<1>2. ASSUME NEW a \in Asset, NEW t \in Task, DestroyAsset(a, t) PROVE Shaped'
  <2> DEFINE q == task'[t]
  <2>1. /\ Reads(q, a, db[a], "delete", "lookup", TRUE) /\ Others(t)
        /\ db' = db /\ ShapedDoc(db[a])
    BY <1>2, DestroyEffect DEF Shaped
  <2> HIDE DEF q
  <2>2. ShapedTask(q)
    BY <2>1 DEF Reads, ShapedTask, ShapedDoc, KillerPc
  <2>3. \A b \in Asset : ShapedDoc(db'[b])
    BY <2>1 DEF Shaped
  <2> QED BY <2>1, <2>2, <2>3, ShapedFrame DEF Good, q
<1>3. ASSUME NEW a \in Asset, CreateAssetFails(a) PROVE Shaped'
  <2>1. ShapedDoc(db'[a]) /\ Untouched(a) /\ task' = task
    BY <1>3, CreateFailsEffect DEF Inserted, ShapedDoc
  <2> QED BY <2>1 DEF Shaped, Untouched, Free
<1> QED BY <1>1, <1>2, <1>3 DEF Handler

(* So does every step. *)
LEMMA StepShaped == Typed /\ Shaped /\ [Next]_vars => Shaped'
<1> SUFFICES ASSUME Typed, Shaped, [Next]_vars PROVE Shaped'
  OBVIOUS
<1>1. CASE Handler
  BY <1>1, HandlerShaped
<1>2. CASE Dispatch
  <2>1. PICK t \in Task :
           /\ task[t] \in TaskRec /\ task[t].pc = "queued" /\ Others(t)
           /\ Becomes(task'[t], task[t], task[t].op, "start", task[t].status,
                      task[t].server, task[t].ip, task[t].entity, task[t].detach)
           /\ UNCHANGED <<db, scars, vertex, cloud, owner, issued>>
    BY <1>2, DispatchEffect
  <2> DEFINE r == task[t]
             q == task'[t]
  <2>2. ShapedTask(r) /\ r.pc = "queued" /\ r \in TaskRec
        /\ Becomes(q, r, r.op, "start", r.status, r.server, r.ip, r.entity, r.detach)
    BY <2>1 DEF Shaped, Free
  <2> HIDE DEF r, q
  <2>3. ShapedTask(q)
    BY <2>2 DEF Becomes, ShapedTask, ShapedDoc, WorkerPc, KillerPc, TaskRec, Op
  <2>4. \A b \in Asset : ShapedDoc(db'[b])
    BY <2>1 DEF Shaped
  <2> QED BY <2>1, <2>3, <2>4, ShapedFrame DEF Good, q
<1>3. CASE Scan
  <2>1. ASSUME NEW t \in Task, NEW a, Rescheduled(t, a) PROVE ShapedTask(task'[t])
    <3> DEFINE q == task'[t]
               d == db[a]
    <3>1. /\ ShapedDoc(d)
          /\ \/ d.status = "RETRY" /\ Reads(q, a, d, "retry", "listed", TRUE)
             \/ d.status = "MARKED_FOR_DELETION" /\ Reads(q, a, d, "marked", "listed", FALSE)
      BY <2>1 DEF Rescheduled, Shaped
    <3> HIDE DEF q, d
    <3>2. ShapedTask(q)
      BY <3>1 DEF Reads, ShapedTask, ShapedDoc, Unready
    <3> QED BY <3>2 DEF q
  <2>2. \A t \in Task : task'[t] = task[t] \/ ShapedTask(task'[t])
    BY <1>3, <2>1, ScanTasks
  <2> QED BY <1>3, <2>2 DEF Scan, Shaped, Free
<1>4. CASE RescheduleDies
  BY <1>4 DEF RescheduleDies, Shaped, Free
<1>5. CASE Crash
  BY <1>5 DEF Crash, Shaped, Free, FreeTask
<1>6. CASE \E t \in Task : Worker(t) \/ Killer(t) \/ Detach(t) \/ Take(t)
  BY <1>6, WorkerShaped, KillerShaped
<1>7. CASE UNCHANGED vars
  BY <1>7 DEF vars, sysvars, Shaped, Free
<1> QED BY <1>1, <1>2, <1>3, <1>4, <1>5, <1>6, <1>7 DEF Next

(* The shape of records and requests is invariant. *)
LEMMA AlwaysShaped == Spec => []Shaped
<1>1. Init => Shaped
  BY DEF Init, Shaped, ShapedDoc, NoDoc, Free, FreeTask, Unready
<1> QED BY <1>1, StepShaped, AlwaysTyped, PTL DEF Spec

-----------------------------------------------------------------------------
(* Single servers: who tells whom of what *)

(* No record, task or caller has heard of server s. *)
Unknown(s) ==
  /\ Untold(s) /\ \A a \in Asset : db[a].server # s
  /\ \A t \in Task : task[t].pc # "free" => task[t].server # s /\ task[t].entity # s

(* A server about to be created is unknown, by the ownership of servers. *)
LEMMA FreshIsUnknown ==
  ASSUME Typed, OwnServer, NEW s \in Server, owner[s] = Null
  PROVE  Unknown(s)
<1>1. \A a \in Asset : a # Null /\ s # Null
  BY NullAssumption
<1>2. \A a \in Asset : vertex[a] # s /\ db[a].server # s
  BY <1>1 DEF OwnServer, OwnedRecord, Owned
<1>3. ASSUME NEW t \in Task, task[t].pc # "free"
      PROVE  task[t].server # s /\ task[t].entity # s
  <2>1. task[t] \in TaskRec /\ OwnedTask(task[t])
    BY <1>3, ActiveTask DEF Typed, OwnServer, Free
  <2>2. task[t].id \in Asset
    BY <2>1 DEF TaskRec
  <2> QED BY <1>1, <2>1, <2>2 DEF OwnedTask, Owned
<1> QED BY <1>2, <1>3 DEF Unknown, Untold

(* The task r or some record has it that server s is not to be served. *)
Inherited(r, s) ==
  \/ r.status \in Unserved /\ r.server = s
  \/ \E a \in Asset : db[a].status \in Unserved /\ db[a].server = s

(* A step of one task keeps the promises about servers if the task only tells of
   servers it could tell of or that are new, stops telling when it tells, and gives up,
   or stores, no server but its own. *)
LEMMA TellingFrame ==
  ASSUME Typed, Typed', Promised, Condemned, NEW t \in Task, Others(t),
         \A s \in Server : Teller(task'[t], s) => Teller(task[t], s) \/ Unknown(s),
         \A s \in Server : Untold(s) /\ ~Untold(s)'
                           => Teller(task[t], s) /\ ~Teller(task'[t], s),
         \A s \in Server : task'[t].status \in Unserved /\ task'[t].server = s =>
           \/ Inherited(task[t], s)
           \/ Teller(task[t], s) /\ ~Teller(task'[t], s) /\ Untold(s)',
         \A a \in Asset :
           \/ db'[a] = db[a] \/ db'[a].server = Null
           \/ db'[a].status = task[t].status /\ db'[a].server = task[t].server
           \/ db'[a].status = task'[t].status /\ db'[a].server = task'[t].server
  PROVE  Promised' /\ Condemned'
<1>1. ASSUME NEW u \in Task, NEW s \in Server, Teller(task'[u], s)
      PROVE  Untold(s)' /\ \A x \in Task : Teller(task'[x], s) => x = u
  <2>1. Untold(s) /\ \A x \in Task : Teller(task[x], s) => x = u
    <3>1. CASE Teller(task[u], s)
      BY <3>1 DEF Promised
    <3>2. CASE ~Teller(task[u], s)
      <4>1. u = t /\ Unknown(s)
        BY <1>1, <3>2 DEF Others
      <4>2. \A x \in Task : ~Teller(task[x], s)
        BY <4>1 DEF Unknown, Teller
      <4> QED BY <4>1, <4>2 DEF Unknown
    <3> QED BY <3>1, <3>2
  <2>2. Untold(s)'
    BY <1>1, <2>1 DEF Others
  <2>3. ASSUME NEW x \in Task, Teller(task'[x], s) PROVE x = u
    <3>1. CASE Teller(task[x], s)
      BY <2>1, <3>1
    <3>2. CASE ~Teller(task[x], s)
      <4>1. x = t /\ Unknown(s)
        BY <2>3, <3>2 DEF Others
      <4>2. \A y \in Task : ~Teller(task[y], s)
        BY <4>1 DEF Unknown, Teller
      <4> QED BY <1>1, <4>1, <4>2 DEF Others
    <3> QED BY <3>1, <3>2
  <2> QED BY <2>2, <2>3
<1>2. ASSUME NEW s \in Server, Doomed(s), ~Unknown(s) PROVE Doomed(s)'
  BY <1>2 DEF Doomed, Others
<1>3. ASSUME NEW a \in Asset, NEW s \in Server, db[a].status \in Unserved, db[a].server = s
      PROVE  Doomed(s)'
  BY <1>2, <1>3 DEF Condemned, CondemnedBy, Unknown
<1>4. ASSUME NEW u \in Task, NEW s \in Server,
             task[u].status \in Unserved, task[u].server = s
      PROVE  Doomed(s)'
  <2>1. task[u].pc # "free"
    BY <1>4, NullAssumption, ActiveTask DEF FreeTask, Typed
  <2> QED BY <1>2, <1>4, <2>1 DEF Condemned, CondemnedBy, Unknown
<1>5. ASSUME NEW s \in Server, task'[t].status \in Unserved, task'[t].server = s
      PROVE  Doomed(s)'
  <2>1. CASE Inherited(task[t], s)
    BY <1>3, <1>4, <2>1 DEF Inherited
  <2>2. CASE Teller(task[t], s) /\ ~Teller(task'[t], s) /\ Untold(s)'
    <3>1. \A u \in Task : Teller(task[u], s) => u = t
      BY <2>2 DEF Promised
    <3> QED BY <2>2, <3>1 DEF Doomed, Others
  <2> QED BY <1>5, <2>1, <2>2
<1>6. ASSUME NEW u \in Task, NEW s \in Server,
             task'[u].status \in Unserved, task'[u].server = s
      PROVE  Doomed(s)'
  BY <1>4, <1>5, <1>6 DEF Others
<1>7. ASSUME NEW a \in Asset, NEW s \in Server,
             db'[a].status \in Unserved, db'[a].server = s
      PROVE  Doomed(s)'
  BY <1>3, <1>4, <1>5, <1>7, NullAssumption
<1>8. Promised'
  BY <1>1 DEF Promised
<1>9. Condemned'
  BY <1>6, <1>7 DEF Condemned, CondemnedBy
<1> QED BY <1>8, <1>9

(* What task r, which becomes q, may tell, tells, and has on record. *)
KeepsTelling(r, q) == \A s \in Server : Teller(q, s) => Teller(r, s) \/ Unknown(s)
TellsOf(r, q) == \A s \in Server : Untold(s) /\ ~Untold(s)' => Teller(r, s) /\ ~Teller(q, s)
Condemns(r, q) ==
  \A s \in Server : q.status \in Unserved /\ q.server = s =>
    Inherited(r, s) \/ (Teller(r, s) /\ ~Teller(q, s) /\ Untold(s)')
Records(r, q) ==
  \A a \in Asset : \/ db'[a] = db[a] \/ db'[a].server = Null
                   \/ db'[a].status = r.status /\ db'[a].server = r.server
                   \/ db'[a].status = q.status /\ db'[a].server = q.server

(* Writing the snapshot is recording it. *)
LEMMA WroteRecords ==
  ASSUME NEW r, NEW q, NEW x \in {r, q}, NEW a \in Asset, Wrote(a, Stored(x)), Untouched(a)
  PROVE  Records(r, q)
BY DEF Wrote, Untouched, Stored, Records

(* A request that is dropped tells nobody anything. *)
LEMMA FreeTells ==
  ASSUME NEW r PROVE KeepsTelling(r, FreeTask) /\ Condemns(r, FreeTask)
BY NullAssumption DEF KeepsTelling, Condemns, FreeTask, Teller

(* Nor does one whose attempt failed. *)
LEMMA RetriedTells ==
  ASSUME NEW r, NEW q, NEW s, Retried(q, r, s)
  PROVE  /\ \A x : ~Teller(q, x)
         /\ q.server = s
BY DEF Retried, Becomes, Teller

(* A termination tells and gives up no more than it did. *)
LEMMA DoneTells ==
  ASSUME NEW r, NEW q, Done(q, r)
  PROVE  KeepsTelling(r, q) /\ Condemns(r, q)
BY DEF Done, Becomes, Teller, KeepsTelling, Condemns, Inherited

(* Nor does its end. *)
LEMMA FinishedTells ==
  ASSUME NEW r, NEW q, Finished(q, r)
  PROVE  KeepsTelling(r, q) /\ Condemns(r, q)
<1>1. CASE q = FreeTask
  BY <1>1, FreeTells
<1>2. CASE Becomes(q, r, r.op, "gone", r.status, r.server, r.ip, r.entity, r.detach)
  BY <1>2 DEF Becomes, Teller, KeepsTelling, Condemns, Inherited
<1> QED BY <1>1, <1>2 DEF Finished

(* The server a failed attempt leaves is condemned. *)
LEMMA FailedTells ==
  ASSUME Promised, NEW t \in Task, vertex' = vertex, NEW q, q.server = task[t].entity,
         task[t].pc = "configure", \A x : ~Teller(q, x)
  PROVE  KeepsTelling(task[t], q) /\ Condemns(task[t], q)
BY DEF Promised, Teller, Untold, KeepsTelling, Condemns

(* A worker's steps, action by action. *)
LEMMA WorkerTelling ==
  ASSUME Typed, Typed', OwnServer, Shaped, Promised, Condemned,
         NEW t \in Task, Worker(t)
  PROVE  Promised' /\ Condemned'
<1> DEFINE r == task[t]
           q == task'[t]
<1>1. r \in TaskRec /\ r.id \in Asset /\ ShapedTask(r)
  BY AtWork, ActiveTask DEF Shaped, Free, Typed, TaskRec, Pc, WorkerPc, KillerPc
<1>2. /\ Others(t) /\ KeepsTelling(r, q) /\ TellsOf(r, q) /\ Condemns(r, q) /\ Records(r, q)
      => Promised' /\ Condemned'
  BY TellingFrame DEF KeepsTelling, TellsOf, Condemns, Records
<1>3. vertex' = vertex => TellsOf(r, q)
  BY DEF TellsOf, Untold
<1>4. db' = db => Records(r, q)
  BY DEF Records
<1>5. \A x \in {r, q} : Wrote(r.id, Stored(x)) /\ Untouched(r.id) => Records(r, q)
  BY <1>1, WroteRecords
<1>6. \A x : vertex' = vertex /\ r.pc = "configure" /\ x.server = r.entity /\ (\A y : ~Teller(x, y))
              => KeepsTelling(r, x) /\ Condemns(r, x)
  BY FailedTells
<1> HIDE DEF r, q
<1>7. ASSUME Retried(q, r, r.server), r.pc \in {"run", "cleanup"}
      PROVE  KeepsTelling(r, q) /\ Condemns(r, q)
  <2>1. r.status = "BUILD"
    BY <1>1, <1>7 DEF ShapedTask
  <2> QED
    BY <1>7, <2>1, RetriedTells DEF KeepsTelling, Condemns, Inherited, Unserved, Unready
<1>8. CASE SendRequest(t)
  <2>1. Others(t) /\ vertex' = vertex /\ db' = db
        /\ Becomes(q, r, "create", "queued", r.status, r.server, r.ip, r.entity, r.detach)
    BY <1>8, SendRequestEffect DEF r, q
  <2>2. KeepsTelling(r, q) /\ Condemns(r, q)
    BY <2>1 DEF Becomes, Teller, KeepsTelling, Condemns, Inherited
  <2> QED BY <1>2, <1>3, <1>4, <2>1, <2>2
<1>9. CASE Start(t)
  <2>1. r.pc = "start" /\ Others(t) /\ vertex' = vertex
        /\ Wrote(r.id, Stored(q)) /\ Untouched(r.id)
        /\ Becomes(q, r, r.op, "run", "BUILD", r.server, r.ip, r.entity, r.detach)
    BY <1>9, StartEffect DEF r, q
  <2>2. r.status \in Unserved
    BY <1>1, <2>1 DEF ShapedTask, Unserved, Unready
  <2>3. KeepsTelling(r, q) /\ Condemns(r, q)
    BY <2>1, <2>2 DEF Becomes, Teller, KeepsTelling, Condemns, Inherited
  <2> QED BY <1>2, <1>3, <1>5, <2>1, <2>3
<1>10. CASE StartFails(t)
  BY <1>2, <1>3, <1>4, <1>10, StartFailsEffect, FreeTells DEF q
<1>11. ASSUME NEW s \in Server, RunServer(t, s) PROVE Promised' /\ Condemned'
  <2>1. /\ r.pc = "run" /\ Others(t) /\ db' = db /\ vertex' = vertex /\ owner[s] = Null
        /\ \/ Becomes(q, r, r.op, "configure", r.status, r.server, r.ip, s, r.detach)
           \/ Retried(q, r, r.server)
    BY <1>11, RunServerEffect DEF r, q
  <2>2. Unknown(s)
    BY <2>1, FreshIsUnknown
  <2>3. Becomes(q, r, r.op, "configure", r.status, r.server, r.ip, s, r.detach)
        => KeepsTelling(r, q) /\ Condemns(r, q)
    BY <2>2 DEF Becomes, Teller, KeepsTelling, Condemns, Inherited
  <2> QED BY <1>2, <1>3, <1>4, <1>7, <2>1, <2>3
<1>12. CASE RunServerFails(t)
  BY <1>2, <1>3, <1>4, <1>7, <1>12, RunServerFailsEffect DEF r, q
<1>13. CASE Configure(t)
  <2>1. r.pc = "configure" /\ Others(t) /\ db' = db /\ vertex' = vertex
        /\ Becomes(q, r, r.op, "finish", "SERVER_CREATED", r.entity, r.entity, Null, r.detach)
    BY <1>13, ConfigureEffect DEF r, q
  <2>2. KeepsTelling(r, q) /\ Condemns(r, q)
    BY <2>1 DEF Becomes, Teller, KeepsTelling, Condemns, Unserved, Unready
  <2> QED BY <1>2, <1>3, <1>4, <2>1, <2>2
<1>14. CASE ConfigureFails(t)
  <2>1. r.pc = "configure" /\ Others(t) /\ db' = db /\ vertex' = vertex
        /\ Becomes(q, r, r.op, "cleanup", r.status, r.entity, r.ip, r.entity, r.detach)
    BY <1>14, ConfigureFailsEffect DEF r, q
  <2>2. q.server = r.entity /\ \A y : ~Teller(q, y)
    BY <2>1 DEF Becomes, Teller
  <2> QED BY <1>2, <1>3, <1>4, <1>6, <2>1, <2>2
<1>15. CASE DetailFails(t)
  <2>1. r.pc = "configure" /\ Others(t) /\ db' = db /\ vertex' = vertex
        /\ Retried(q, r, r.entity)
    BY <1>15, DetailFailsEffect DEF r, q
  <2> QED BY <1>2, <1>3, <1>4, <1>6, <2>1, RetriedTells
<1>16. CASE Cleanup(t)
  BY <1>2, <1>3, <1>4, <1>7, <1>16, CleanupEffect DEF r, q
<1>17. CASE Finish(t)
  <2>1. /\ r.pc = "finish" /\ Others(t) /\ vertex' = vertex
        /\ Wrote(r.id, Stored(r)) /\ Untouched(r.id)
        /\ \/ q = FreeTask
           \/ Becomes(q, r, r.op, "notify", r.status, r.server, r.ip, r.entity, r.detach)
    BY <1>17, FinishEffect DEF r, q
  <2>2. KeepsTelling(r, q) /\ Condemns(r, q)
    BY <2>1, FreeTells DEF Becomes, Teller, KeepsTelling, Condemns, Inherited
  <2> QED BY <1>2, <1>3, <1>5, <2>1, <2>2
<1>18. CASE Notify(t)
  <2>1. /\ r.pc = "notify" /\ Others(t) /\ db' = db
        /\ \E status \in {r.status, "MARKED_FOR_DELETION", "NOTIFICATION_FAILED"} :
             /\ Becomes(q, r, r.op, "record", status, r.server, r.ip, r.entity, r.detach)
             /\ \/ vertex' = vertex /\ status \in {"MARKED_FOR_DELETION", "NOTIFICATION_FAILED"}
                \/ Told(r.id, r.server) /\ status \in {r.status, "NOTIFICATION_FAILED"}
    BY <1>18, NotifyEffect DEF r, q
  <2>2. r.status = "SERVER_CREATED" /\ \A y : ~Teller(q, y)
    BY <1>1, <2>1 DEF ShapedTask, Becomes, Teller
  <2>3. Teller(r, r.server)
    BY <2>1, <2>2 DEF Teller
  <2>4. KeepsTelling(r, q)
    BY <2>2 DEF KeepsTelling
  <2>5. TellsOf(r, q)
    BY <1>1, <1>3, <2>1, <2>2, <2>3 DEF TellsOf, Untold, Told, Typed, TypeOK
  <2>6. Condemns(r, q)
    <3>1. SUFFICES ASSUME NEW s \in Server, q.status \in Unserved, q.server = s
                   PROVE  Teller(r, s) /\ Untold(s)'
      BY <2>2 DEF Condemns
    <3>2. r.server = s /\ vertex' = vertex
      BY <2>1, <2>2, <3>1 DEF Becomes, Unserved, Unready
    <3> QED BY <2>3, <3>2 DEF Promised, Untold, r
  <2> QED BY <1>2, <1>4, <2>1, <2>4, <2>5, <2>6
<1>19. CASE Record(t)
  BY <1>2, <1>3, <1>5, <1>19, RecordEffect, FreeTells DEF r, q
<1> QED
  BY <1>8, <1>9, <1>10, <1>11, <1>12, <1>13, <1>14, <1>15, <1>16, <1>17, <1>18, <1>19
     DEF Worker

(* The steps of terminations, detach calls and the rescheduler's round. *)
LEMMA KillerTelling ==
  ASSUME Typed, Typed', Shaped, Promised, Condemned,
         NEW t \in Task, Killer(t) \/ Detach(t) \/ Take(t)
  PROVE  Promised' /\ Condemned'
<1> DEFINE r == task[t]
           q == task'[t]
<1>1. r \in TaskRec /\ r.id \in Asset
  BY AtWork
<1>2. /\ Others(t) /\ KeepsTelling(r, q) /\ TellsOf(r, q) /\ Condemns(r, q) /\ Records(r, q)
      => Promised' /\ Condemned'
  BY TellingFrame DEF KeepsTelling, TellsOf, Condemns, Records
<1>3. vertex' = vertex => TellsOf(r, q)
  BY DEF TellsOf, Untold
<1>4. db' = db => Records(r, q)
  BY DEF Records
<1> HIDE DEF r, q
<1>5. ASSUME NEW pc \in KillerPc, NEW detach,
             Becomes(q, r, r.op, pc, r.status, r.server, r.ip, r.entity, detach)
      PROVE  KeepsTelling(r, q) /\ Condemns(r, q)
  BY <1>5 DEF Becomes, Teller, KeepsTelling, Condemns, Inherited, KillerPc
<1>6. CASE LookUp(t)
  <2>1. /\ Others(t) /\ db' = db /\ vertex' = vertex
        /\ \/ Becomes(q, r, r.op, "kill", r.status, r.server, r.ip, r.entity, r.detach)
           \/ Done(q, r)
    BY <1>6, LookUpEffect DEF r, q
  <2> QED BY <1>2, <1>3, <1>4, <1>5, <2>1, DoneTells DEF KillerPc
<1>7. CASE ListFails(t)
  BY <1>2, <1>3, <1>4, <1>7, ListFailsEffect, DoneTells DEF r, q
<1>8. CASE LookUpFails(t)
  <2>1. /\ Others(t) /\ db' = db /\ vertex' = vertex
        /\ Done(q, r) \/ Finished(q, r)
    BY <1>8, LookUpFailsEffect DEF r, q
  <2> QED BY <1>2, <1>3, <1>4, <2>1, DoneTells, FinishedTells
<1>9. CASE Kill(t)
  BY <1>2, <1>3, <1>4, <1>9, KillEffect, DoneTells DEF r, q
<1>10. CASE KillFails(t)
  <2>1. /\ Others(t) /\ db' = db /\ vertex' = vertex
        /\ \/ Becomes(q, r, r.op, "kill", r.status, r.server, r.ip, r.entity, r.detach)
           \/ Done(q, r)
    BY <1>10, KillFailsEffect DEF r, q
  <2> QED BY <1>2, <1>3, <1>4, <1>5, <2>1, DoneTells DEF KillerPc
<1>11. CASE Remove(t)
  <2>1. /\ Others(t) /\ vertex' = vertex /\ Finished(q, r)
        /\ Wrote(r.id, NoDoc) /\ Untouched(r.id)
    BY <1>11, RemoveEffect DEF r, q
  <2>2. Records(r, q)
    BY <2>1 DEF Records, Wrote, Untouched, NoDoc
  <2> QED BY <1>2, <1>3, <2>1, <2>2, FinishedTells
<1>12. CASE Detach(t)
  <2>1. /\ Others(t) /\ db' = db /\ r.pc \in KillerPc
        /\ \/ q = FreeTask
           \/ Becomes(q, r, r.op, r.pc, r.status, r.server, r.ip, r.entity, FALSE)
        /\ vertex' = vertex \/ Told(r.id, Null)
    BY <1>12, DetachEffect DEF r, q
  <2>2. TellsOf(r, q)
    BY <1>1, <2>1, NullAssumption DEF TellsOf, Untold, Told, Typed, TypeOK
  <2> QED BY <1>2, <1>4, <1>5, <2>1, <2>2, FreeTells
<1>13. CASE Take(t)
  <2>1. Others(t) /\ db' = db /\ vertex' = vertex
        /\ Becomes(q, r, r.op, "lookup", r.status, r.server, r.ip, r.entity, r.detach)
    BY <1>13, TakeEffect DEF r, q
  <2> QED BY <1>2, <1>3, <1>4, <1>5, <2>1 DEF KillerPc
<1> QED
  BY <1>6, <1>7, <1>8, <1>9, <1>10, <1>11, <1>12, <1>13 DEF Killer

(* The handlers copy a record at most. *)
LEMMA HandlerTelling ==
  ASSUME Typed, Typed', Shaped, Promised, Condemned, Handler
  PROVE  Promised' /\ Condemned'
<1>1. ASSUME NEW a \in Asset, NEW t \in Task, CreateAsset(a, t)
      PROVE  Promised' /\ Condemned'
  <2>1. /\ Others(t) /\ vertex' = vertex /\ task'[t].pc = "send"
        /\ task'[t].server = Null /\ db'[a].server = Null /\ Untouched(a)
    BY <1>1, CreateEffect DEF Inserted
  <2>2. \A s \in Server : ~Teller(task'[t], s) /\ task'[t].server # s
    BY <2>1, NullAssumption DEF Teller
  <2>3. \A b \in Asset : db'[b] = db[b] \/ db'[b].server = Null
    BY <2>1 DEF Untouched
  <2>4. \A s \in Server : ~(Untold(s) /\ ~Untold(s)')
    BY <2>1 DEF Untold
  <2> QED BY <2>1, <2>2, <2>3, <2>4, TellingFrame
<1>2. ASSUME NEW a \in Asset, NEW t \in Task, DestroyAsset(a, t)
      PROVE  Promised' /\ Condemned'
  <2>1. /\ Others(t) /\ vertex' = vertex /\ db' = db
        /\ Reads(task'[t], a, db[a], "delete", "lookup", TRUE)
    BY <1>2, DestroyEffect
  <2>2. \A s \in Server : ~Teller(task'[t], s)
    BY <2>1 DEF Teller, Reads
  <2>3. \A s \in Server : task'[t].status \in Unserved /\ task'[t].server = s
                          => Inherited(task[t], s)
    BY <2>1 DEF Reads, Inherited
  <2>4. \A s \in Server : ~(Untold(s) /\ ~Untold(s)')
    BY <2>1 DEF Untold
  <2> QED BY <2>1, <2>2, <2>3, <2>4, TellingFrame
<1>3. ASSUME NEW a \in Asset, CreateAssetFails(a) PROVE Promised' /\ Condemned'
  <2>1. /\ task' = task /\ vertex' = vertex
        /\ \A b \in Asset : db'[b] = db[b] \/ db'[b].server = Null
    BY <1>3, CreateFailsEffect DEF Inserted, Untouched
  <2>2. \A s \in Server : Doomed(s) => Doomed(s)'
    BY <2>1 DEF Doomed, Untold
  <2>3. Promised'
    BY <2>1 DEF Promised, Untold
  <2>4. Condemned'
    BY <2>1, <2>2, NullAssumption DEF Condemned, CondemnedBy
  <2> QED BY <2>3, <2>4
<1> QED BY <1>1, <1>2, <1>3 DEF Handler

(* Every step keeps them. *)
LEMMA StepTelling ==
  Typed /\ Typed' /\ OwnServer /\ Shaped /\ Promised /\ Condemned /\ [Next]_vars
  => Promised' /\ Condemned'
<1> SUFFICES ASSUME Typed, Typed', OwnServer, Shaped, Promised, Condemned, [Next]_vars
             PROVE  Promised' /\ Condemned'
  OBVIOUS
<1>1. CASE Handler
  BY <1>1, HandlerTelling
<1>2. CASE Dispatch
  <2>1. PICK t \in Task :
           /\ Others(t)
           /\ Becomes(task'[t], task[t], task[t].op, "start", task[t].status,
                      task[t].server, task[t].ip, task[t].entity, task[t].detach)
           /\ UNCHANGED <<db, scars, vertex, cloud, owner, issued>>
    BY <1>2, DispatchEffect
  <2>2. \A s \in Server : ~Teller(task'[t], s)
    BY <2>1 DEF Teller, Becomes
  <2>3. \A s \in Server : task'[t].status \in Unserved /\ task'[t].server = s
                          => Inherited(task[t], s)
    BY <2>1 DEF Becomes, Inherited
  <2>4. \A s \in Server : ~(Untold(s) /\ ~Untold(s)')
    BY <2>1 DEF Untold
  <2> QED BY <2>1, <2>2, <2>3, <2>4, TellingFrame
<1>3. CASE Scan
  <2>1. db' = db /\ vertex' = vertex
    BY <1>3 DEF Scan
  <2>2. \A t \in Task : \/ task'[t] = task[t]
                        \/ \E a \in Asset : /\ task'[t].pc = "listed"
                                            /\ task'[t].status = db[a].status
                                            /\ task'[t].server = db[a].server
    <3>1. PICK slot : \A t \in Task : \/ task'[t] = task[t]
                                    \/ \E a \in Due : slot[a] = t /\ Rescheduled(t, a)
      BY <1>3, ScanTasks
    <3>2. ASSUME NEW t \in Task, NEW a, Rescheduled(t, a)
          PROVE  /\ a \in Asset /\ task'[t].pc = "listed"
                 /\ task'[t].status = db[a].status /\ task'[t].server = db[a].server
      BY <3>2 DEF Rescheduled, Reads
    <3> QED BY <3>1, <3>2
  <2>3. \A t \in Task, s \in Server : Teller(task'[t], s) => Teller(task[t], s)
    BY <2>2 DEF Teller
  <2>4. \A s \in Server : Doomed(s) => Doomed(s)'
    BY <2>1, <2>3 DEF Doomed, Untold
  <2>5. Promised'
    BY <2>1, <2>3 DEF Promised, Untold
  <2>6. ASSUME NEW s \in Server PROVE
          /\ \A t \in Task : task'[t].status \in Unserved /\ task'[t].server = s => Doomed(s)
          /\ \A a \in Asset : db'[a].status \in Unserved /\ db'[a].server = s => Doomed(s)
    BY <2>1, <2>2 DEF Condemned, CondemnedBy
  <2>7. Condemned'
    BY <2>4, <2>6 DEF Condemned, CondemnedBy
  <2> QED BY <2>5, <2>7
<1>4. CASE Crash
  <2>1. db' = db /\ vertex' = vertex /\ \A t \in Task : task'[t] = FreeTask
    BY <1>4 DEF Crash, peervars
  <2>2. \A t \in Task : task'[t].status \notin Unserved /\ \A s : ~Teller(task'[t], s)
    BY <2>1 DEF FreeTask, Teller, Unserved, Unready
  <2>3. \A s \in Server : Doomed(s) => Doomed(s)'
    BY <2>1, <2>2 DEF Doomed, Untold
  <2>4. Promised'
    BY <2>2 DEF Promised
  <2>5. Condemned'
    BY <2>1, <2>2, <2>3 DEF Condemned, CondemnedBy
  <2> QED BY <2>4, <2>5
<1>5. CASE \E t \in Task : Worker(t) \/ Killer(t) \/ Detach(t) \/ Take(t)
  BY <1>5, WorkerTelling, KillerTelling
<1>6. CASE RescheduleDies \/ UNCHANGED vars
  <2>1. db' = db /\ vertex' = vertex /\ task' = task
    BY <1>6 DEF RescheduleDies, peervars, vars, sysvars
  <2>2. Promised'
    BY <2>1 DEF Promised, Untold
  <2>3. Condemned'
    BY <2>1 DEF Condemned, CondemnedBy, Doomed, Untold
  <2> QED BY <2>2, <2>3
<1> QED BY <1>1, <1>2, <1>3, <1>4, <1>5, <1>6 DEF Next

(* The promises about single servers are invariant. *)
LEMMA AlwaysTelling == Spec => [](Promised /\ Condemned)
<1>1. Init => Promised /\ Condemned
  BY DEF Init, Promised, Condemned, CondemnedBy, Teller, FreeTask, NoDoc, Unserved, Unready
<1> QED
  BY <1>1, StepTelling, AlwaysTyped, AlwaysShaped, ServersStayWithTheirAsset, PTL DEF Spec

-----------------------------------------------------------------------------
(* Deletions of servers *)

(* The steps that delete a server: a worker's cleanup, and a termination. *)
LEMMA Deletions ==
  ASSUME Typed, [Next]_vars, NEW s \in cloud, s \notin cloud'
  PROVE  \E t \in Task : task[t].server = s /\ (Cleanup(t) \/ Kill(t) \/ KillFails(t))
<1>1. CASE Handler
  BY <1>1, CreateEffect, CreateFailsEffect, DestroyEffect DEF Handler
<1>2. CASE Dispatch \/ Scan \/ RescheduleDies \/ Crash \/ UNCHANGED vars
  BY <1>2 DEF Dispatch, Scan, RescheduleDies, Crash, vars, peervars
<1>3. ASSUME NEW t \in Task, Worker(t) PROVE Cleanup(t) /\ task[t].server = s
  <2>1. ~(cloud' = cloud) /\ ~(\E x : cloud' = cloud \cup {x})
    OBVIOUS
  <2>2. ~SendRequest(t) /\ ~Start(t) /\ ~StartFails(t) /\ ~RunServerFails(t)
        /\ ~Configure(t) /\ ~ConfigureFails(t) /\ ~DetailFails(t)
    BY <2>1 DEF SendRequest, Start, StartFails, RunServerFails, Configure, ConfigureFails,
                DetailFails, peervars
  <2>3. ~Finish(t) /\ ~Notify(t) /\ ~Record(t) /\ \A x \in Server : ~RunServer(t, x)
    BY <2>1 DEF Finish, Notify, Record, RunServer, peervars
  <2> QED BY <1>3, <2>2, <2>3 DEF Worker, Cleanup
<1>4. ASSUME NEW t \in Task, Killer(t) \/ Detach(t) \/ Take(t)
      PROVE  (Kill(t) \/ KillFails(t)) /\ task[t].server = s
  <2>1. ~(cloud' = cloud)
    OBVIOUS
  <2>2. ~LookUp(t) /\ ~ListFails(t) /\ ~LookUpFails(t) /\ ~Remove(t) /\ ~Detach(t) /\ ~Take(t)
    BY <2>1 DEF LookUp, ListFails, LookUpFails, Remove, Detach, Take, peervars
  <2> QED BY <1>4, <2>2 DEF Killer, Kill, KillFails
<1> QED BY <1>1, <1>2, <1>3, <1>4 DEF Next

(* A step that deletes a server the caller of a has attached is a termination
   on behalf of a deletion of a. *)
LEMMA StepKillsUnserved ==
  ASSUME Typed, OwnServer, Shaped, Condemned, [Next]_vars,
         NEW a \in Asset, vertex[a] \in cloud \ cloud'
  PROVE  \E t \in Task : /\ task[t].pc = "kill" /\ task[t].op = "delete"
                         /\ task[t].id = a
<1> DEFINE s == vertex[a]
<1>1. PICK t \in Task : task[t].server = s /\ (Cleanup(t) \/ Kill(t) \/ KillFails(t))
  BY Deletions
<1>2. task[t].pc \in {"cleanup", "kill"} /\ (task[t].pc = "cleanup" <=> Cleanup(t))
  BY <1>1 DEF Cleanup, Kill, KillFails
<1>3. task[t] \in TaskRec /\ ShapedTask(task[t]) /\ OwnedTask(task[t])
  BY <1>2, ActiveTask DEF Typed, Shaped, OwnServer, Free
<1>4. s \in Server /\ s # Null
  BY NullAssumption DEF Typed, TypeOK
<1>5. task[t].status \notin Unserved
  BY <1>1, <1>4 DEF Condemned, CondemnedBy, Doomed, Untold
<1>6. task[t].pc = "kill" /\ task[t].op = "delete"
  BY <1>2, <1>3, <1>5 DEF ShapedTask, TaskRec, Op, WorkerPc, Unserved, Unready
<1>7. task[t].id = a
  BY <1>1, <1>3, <1>4 DEF OwnedTask, Owned, OwnServer, OwnedRecord
<1> QED BY <1>6, <1>7

(* The engine deletes a server the caller has attached only on behalf of a deletion of
   that asset: not by a cleanup, not by the rescheduler, however tasks overlap
   (createServer's cleanup and terminateInstance). *)
THEOREM OnlyDeletionsKillServed == Spec => KillsOnlyUnserved
<1>1. Typed /\ OwnServer /\ Shaped /\ (Promised /\ Condemned) /\ [Next]_vars
      => [\A a \in Asset :
            vertex[a] \in cloud \ cloud'
            => \E t \in Task : /\ task[t].pc = "kill" /\ task[t].op = "delete"
                              /\ task[t].id = a]_vars
  BY StepKillsUnserved
<1> QED
  BY <1>1, AlwaysTyped, AlwaysShaped, AlwaysTelling, ServersStayWithTheirAsset, PTL
     DEF Spec, KillsOnlyUnserved
=============================================================================
