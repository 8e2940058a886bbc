-------------------------- MODULE ProvisioningProofs --------------------------
(***************************************************************************)
(* Provisioning implements Scheduler, for every value of the constants:    *)
(* each step of it is a step of the engine or changes nothing the engine   *)
(* knows.  So what is proved of the engine holds of it, too, and from that *)
(* and AgentsInv follows that an asset's agent goes along with the asset.  *)
(***************************************************************************)
EXTENDS ProvisioningInvariant, SchedulerSafetyProofs

USE DEF peervars, Engine!peervars, history, Engine!history

(* What the engine's environment may do wrong, the refined one may. *)
LEMMA MayMore == \A f : May(f) => Engine!May(f)
BY DEF May, Engine!May

LEMMA MayFail == Engine!May("associate") /\ Engine!May("detail")
BY DEF Engine!May

(* The operators in which no fault occurs are the engine's own. *)
LEMMA SameData ==
  /\ FreeTask = Engine!FreeTask /\ NoDoc = Engine!NoDoc
  /\ KillerPc = Engine!KillerPc /\ Due = Engine!Due /\ Fresh = Engine!Fresh
  /\ \A t : Free(t) = Engine!Free(t) /\ LookingUp(t) = Engine!LookingUp(t)
  /\ \A r : /\ Terminated(r) = Engine!Terminated(r)
            /\ Ended(r) = Engine!Ended(r)
            /\ Stored(r) = Engine!Stored(r)
            /\ NextAttempt(r) = Engine!NextAttempt(r)
  /\ \A as : Overlap(as) = Engine!Overlap(as)
  /\ \A a, op, pc, d : Snapshot(a, op, pc, d) = Engine!Snapshot(a, op, pc, d)
BY DEF FreeTask, Engine!FreeTask, NoDoc, Engine!NoDoc, KillerPc, Engine!KillerPc,
       Due, Engine!Due, Fresh, Engine!Fresh, Free, Engine!Free, LookingUp,
       Engine!LookingUp, Terminated, Engine!Terminated, Ended, Engine!Ended,
       Stored, Engine!Stored, NextAttempt, Engine!NextAttempt, Overlap,
       Engine!Overlap, Busy, Engine!Busy, Snapshot, Engine!Snapshot

LEMMA SameUpdate == \A r : Update(r) => Engine!Update(r)
BY MayMore DEF Update, Engine!Update, Stored, Engine!Stored, Scarred, Engine!Scarred

LEMMA SamePut ==
  /\ \A t, r : Put(t, r) = Engine!Put(t, r)
  /\ \A a, k : Scarred(a, k) = Engine!Scarred(a, k)
BY DEF Put, Engine!Put, Scarred, Engine!Scarred

(* The steps a handler, the consumer of CRequest or the rescheduler takes. *)
LEMMA HandlerSteps ==
  ASSUME NEW a \in Asset, NEW t \in Task
  PROVE  /\ CreateAsset(a, t) => Engine!CreateAsset(a, t)
         /\ DestroyAsset(a, t) => Engine!DestroyAsset(a, t)
<1>1. CreateAsset(a, t) => Engine!CreateAsset(a, t)
  BY SameData, SamePut DEF CreateAsset, Engine!CreateAsset
<1>2. DestroyAsset(a, t) => Engine!DestroyAsset(a, t)
  BY SameData, SamePut DEF DestroyAsset, Engine!DestroyAsset
<1>. QED  BY <1>1, <1>2

LEMMA InsertStep ==
  ASSUME NEW a \in Asset
  PROVE  CreateAssetFails(a) => Engine!CreateAssetFails(a)
BY MayMore, SameData, SamePut DEF CreateAssetFails, Engine!CreateAssetFails

LEMMA QueueSteps ==
  /\ Dispatch => Engine!Dispatch
  /\ Scan => Engine!Scan
  /\ RescheduleDies => Engine!RescheduleDies
  /\ Crash => Engine!Crash
<1>1. Dispatch => Engine!Dispatch
  BY SamePut DEF Dispatch, Engine!Dispatch
<1>2. Scan => Engine!Scan
  BY DEF Scan, Engine!Scan, OfRescheduler, Engine!OfRescheduler, Due, Engine!Due,
         Free, Engine!Free, Snapshot, Engine!Snapshot, Overlap, Engine!Overlap,
         Busy, Engine!Busy
<1>3. RescheduleDies => Engine!RescheduleDies
  BY MayMore DEF RescheduleDies, Engine!RescheduleDies, OfRescheduler,
     Engine!OfRescheduler, Free, Engine!Free
<1>4. Crash => Engine!Crash
  BY MayMore DEF Crash, Engine!Crash, FreeTask, Engine!FreeTask, Busy, Engine!Busy,
     Free, Engine!Free
<1>. QED  BY <1>1, <1>2, <1>3, <1>4

(* The steps of a worker up to its attempts, and after them. *)
LEMMA WorkerSteps ==
  ASSUME NEW t \in Task
  PROVE  /\ SendRequest(t) => Engine!SendRequest(t)
         /\ Start(t) => Engine!Start(t)
         /\ StartFails(t) => Engine!StartFails(t)
         /\ Cleanup(t) => Engine!Cleanup(t)
         /\ Finish(t) => Engine!Finish(t)
         /\ Notify(t) => Engine!Notify(t)
         /\ Record(t) => Engine!Record(t)
<1>1. SendRequest(t) => Engine!SendRequest(t)
  BY SamePut DEF SendRequest, Engine!SendRequest
<1>2. Start(t) => Engine!Start(t)
  BY SameUpdate, SamePut DEF Start, Engine!Start
<1>3. StartFails(t) => Engine!StartFails(t)
  BY MayMore, SameData, SamePut DEF StartFails, Engine!StartFails
<1>4. Cleanup(t) => Engine!Cleanup(t)
  BY MayMore, SameData, SamePut DEF Cleanup, Engine!Cleanup
<1>5. Finish(t) => Engine!Finish(t)
  BY SameUpdate, SameData, SamePut DEF Finish, Engine!Finish
<1>6. Notify(t) => Engine!Notify(t)
  BY MayMore, SamePut DEF Notify, Engine!Notify
<1>7. Record(t) => Engine!Record(t)
  BY SameUpdate, SameData, SamePut DEF Record, Engine!Record
<1>. QED  BY <1>1, <1>2, <1>3, <1>4, <1>5, <1>6, <1>7

(* The steps of one attempt. *)
LEMMA AttemptSteps ==
  ASSUME NEW t \in Task
  PROVE  /\ \A s \in Server : RunServer(t, s) => Engine!RunServer(t, s)
         /\ RunServerFails(t) => Engine!RunServerFails(t)
         /\ Configure(t) => Engine!Configure(t)
<1>1. ASSUME NEW s \in Server, RunServer(t, s)  PROVE Engine!RunServer(t, s)
  BY <1>1, MayMore, SameData, SamePut DEF RunServer, Engine!RunServer
<1>2. RunServerFails(t) => Engine!RunServerFails(t)
  BY MayMore, SameData, SamePut DEF RunServerFails, Engine!RunServerFails
<1>3. Configure(t) => Engine!Configure(t)
  BY SamePut DEF Configure, Engine!Configure
<1>. QED  BY <1>1, <1>2, <1>3

(* The steps of a termination. *)
LEMMA KillerSteps ==
  ASSUME NEW t \in Task
  PROVE  /\ LookUp(t) => Engine!LookUp(t)
         /\ ListFails(t) => Engine!ListFails(t)
         /\ LookUpFails(t) => Engine!LookUpFails(t)
         /\ Kill(t) => Engine!Kill(t)
         /\ KillFails(t) => Engine!KillFails(t)
         /\ Remove(t) => Engine!Remove(t)
         /\ Detach(t) => Engine!Detach(t)
         /\ Take(t) => Engine!Take(t)
<1>1. LookUp(t) => Engine!LookUp(t)
  BY SameData, SamePut DEF LookUp, Engine!LookUp
<1>2. ListFails(t) => Engine!ListFails(t)
  BY MayMore, SameData, SamePut DEF ListFails, Engine!ListFails
<1>3. LookUpFails(t) => Engine!LookUpFails(t)
  BY MayMore, SameData, SamePut DEF LookUpFails, Engine!LookUpFails
<1>4. Kill(t) => Engine!Kill(t)
  BY SameData, SamePut DEF Kill, Engine!Kill
<1>5. KillFails(t) => Engine!KillFails(t)
  BY MayMore, SameData, SamePut DEF KillFails, Engine!KillFails
<1>6. Remove(t) => Engine!Remove(t)
  BY MayMore, SameData, SamePut DEF Remove, Engine!Remove
<1>7. Detach(t) => Engine!Detach(t)
  BY MayMore, SameData, SamePut DEF Detach, Engine!Detach
<1>8. Take(t) => Engine!Take(t)
  BY SamePut DEF Take, Engine!Take, OfRescheduler, Engine!OfRescheduler, Free,
     Engine!Free
<1>. QED  BY <1>1, <1>2, <1>3, <1>4, <1>5, <1>6, <1>7, <1>8

(* The calls of one attempt: a sequence of them is one step of the engine. *)
LEMMA CallSteps ==
  ASSUME NEW t \in Task, Provision(t)
  PROVE  Engine!Next \/ UNCHANGED vars
<1>1. ASSUME GiveUp(t), task[t].pc = "configure"  PROVE Engine!Worker(t)
  <2>1. Engine!ConfigureFails(t)
    BY <1>1, MayFail, SamePut DEF GiveUp, Engine!ConfigureFails
  <2>. QED  BY <2>1 DEF Engine!Worker
<1>2. ASSUME Configure(t)  PROVE Engine!Worker(t)
  BY <1>2, AttemptSteps DEF Engine!Worker
<1>3. CASE \E s \in Server : CreateInstance(t, s)
  BY <1>3, AttemptSteps DEF CreateInstance, Engine!Worker, Engine!Next
<1>4. CASE Started(t) \/ Attached(t) \/ NotAllocated(t) \/ Register(t)
  BY <1>4 DEF Started, Attached, NotAllocated, Register
<1>5. CASE AttachFails(t) \/ RegisterFails(t) \/ JoinFails(t)
  BY <1>1, <1>5 DEF AttachFails, RegisterFails, JoinFails, At, Engine!Next
<1>6. CASE Shown(t) \/ Join(t)
  BY <1>2, <1>6 DEF Shown, Join, Engine!Next
<1>7. CASE ShowFails(t)
  <2>1. Engine!DetailFails(t)
    BY <1>7, MayFail, SameData, SamePut DEF ShowFails, At, Engine!DetailFails
  <2>. QED  BY <2>1 DEF Engine!Worker, Engine!Next
<1>. QED  BY <1>3, <1>4, <1>5, <1>6, <1>7 DEF Provision

LEMMA StepRefines ==
  ASSUME [ProvisioningNext]_pvars
  PROVE  [Engine!Next]_(Engine!vars)
<1>0. vars = Engine!vars /\ (UNCHANGED vars => UNCHANGED Engine!vars)
  BY DEF vars, Engine!vars, sysvars, Engine!sysvars
<1>1. CASE Elsewhere
  <2>1. CASE \E a \in Asset : CreateAssetFails(a) \/ \E t \in Task : CreateAsset(a, t)
    BY <2>1, HandlerSteps, InsertStep DEF Engine!Handler, Engine!Next
  <2>2. CASE Dispatch \/ Scan \/ RescheduleDies
    BY <2>2, QueueSteps DEF Engine!Next
  <2>3. ASSUME NEW t \in Task,
               \/ SendRequest(t) \/ Start(t) \/ StartFails(t) \/ RunServerFails(t)
               \/ Cleanup(t) \/ Finish(t) \/ Notify(t) \/ Record(t)
        PROVE  Engine!Next
    BY <2>3, WorkerSteps, AttemptSteps DEF Engine!Worker, Engine!Next
  <2>4. ASSUME NEW t \in Task,
               \/ LookUp(t) \/ ListFails(t) \/ LookUpFails(t) \/ Kill(t)
               \/ KillFails(t) \/ Detach(t) \/ Take(t)
        PROVE  Engine!Next
    BY <2>4, KillerSteps DEF Engine!Killer, Engine!Next
  <2>. QED  BY <1>1, <2>1, <2>2, <2>3, <2>4 DEF Elsewhere
<1>2. CASE Restart
  BY <1>2, QueueSteps DEF Restart, Engine!Next
<1>3. CASE \E t \in Task : Provision(t)
  BY <1>0, <1>3, CallSteps
<1>4. CASE \E t \in Task : Unrecord(t)
  BY <1>4, KillerSteps DEF Unrecord, Engine!Killer, Engine!Next
<1>5. CASE \E t \in Task, a \in Asset : Delete(a, t)
  BY <1>5, HandlerSteps DEF Delete, Engine!Handler, Engine!Next
<1>6. CASE \E a \in Asset : Beside(a)
  BY <1>0, <1>6 DEF Beside, Deregister, DeregisterFails, Leave, LeaveFails
<1>7. CASE UNCHANGED pvars
  BY <1>0, <1>7 DEF pvars
<1>. QED  BY <1>1, <1>2, <1>3, <1>4, <1>5, <1>6, <1>7 DEF ProvisioningNext

(* Provisioning implements the engine that Scheduler specifies. *)
THEOREM ProvisioningRefinesEngine == ProvisioningSpec => RefinesEngine
<1>1. ProvisioningInit => Engine!Init
  BY SameData DEF ProvisioningInit, Init, Engine!Init
<1>. QED
  BY <1>1, StepRefines, PTL DEF ProvisioningSpec, RefinesEngine, Engine!Spec

(* What is proved of the engine holds of its refinement. *)
Proved == INSTANCE SchedulerSafetyProofs WITH Faults <- Faults \cup {"associate", "detail"}

LEMMA MoreFaults == Faults \cup {"associate", "detail"} \subseteq Proved!FaultKind
BY FaultsAssumption DEF FaultKind, Proved!FaultKind

(* The two instances of the engine are the same. *)
LEMMA ImplementsEngine == ProvisioningSpec => Proved!Spec
<1>1. Engine!Spec => Proved!Spec
  <2>1. Engine!Init => Proved!Init
    BY DEF Engine!Init, Proved!Init, Engine!NoDoc, Proved!NoDoc, Engine!FreeTask, Proved!FreeTask
  <2>2. [Engine!Next]_(Engine!vars) => [Proved!Next]_(Proved!vars)
    BY DEF Engine!NoDoc, Proved!NoDoc, Engine!KillerPc, Proved!KillerPc,
       Engine!FreeTask, Proved!FreeTask, Engine!sysvars, Proved!sysvars,
       Engine!peervars, Proved!peervars, Engine!history, Proved!history,
       Engine!vars, Proved!vars, Engine!Init, Proved!Init, Engine!Free,
       Proved!Free, Engine!Busy, Proved!Busy, Engine!May, Proved!May,
       Engine!Scarred, Proved!Scarred, Engine!Put, Proved!Put, Engine!Stored,
       Proved!Stored, Engine!Update, Proved!Update, Engine!Snapshot,
       Proved!Snapshot, Engine!Overlap, Proved!Overlap, Engine!CreateAsset,
       Proved!CreateAsset, Engine!CreateAssetFails, Proved!CreateAssetFails,
       Engine!DestroyAsset, Proved!DestroyAsset, Engine!SendRequest,
       Proved!SendRequest, Engine!Dispatch, Proved!Dispatch, Engine!Start,
       Proved!Start, Engine!StartFails, Proved!StartFails, Engine!NextAttempt,
       Proved!NextAttempt, Engine!Fresh, Proved!Fresh, Engine!RunServer,
       Proved!RunServer, Engine!RunServerFails, Proved!RunServerFails,
       Engine!Configure, Proved!Configure, Engine!ConfigureFails,
       Proved!ConfigureFails, Engine!DetailFails, Proved!DetailFails,
       Engine!Cleanup, Proved!Cleanup, Engine!Finish, Proved!Finish,
       Engine!Notify, Proved!Notify, Engine!Record, Proved!Record,
       Engine!Terminated, Proved!Terminated, Engine!Ended, Proved!Ended,
       Engine!LookingUp, Proved!LookingUp, Engine!LookUp, Proved!LookUp,
       Engine!ListFails, Proved!ListFails, Engine!LookUpFails,
       Proved!LookUpFails, Engine!Kill, Proved!Kill, Engine!KillFails,
       Proved!KillFails, Engine!Remove, Proved!Remove, Engine!Detach,
       Proved!Detach, Engine!OfRescheduler, Proved!OfRescheduler, Engine!Due,
       Proved!Due, Engine!Scan, Proved!Scan, Engine!Take, Proved!Take,
       Engine!RescheduleDies, Proved!RescheduleDies, Engine!Crash,
       Proved!Crash, Engine!Handler, Proved!Handler, Engine!Worker,
       Proved!Worker, Engine!Killer, Proved!Killer, Engine!Next, Proved!Next
  <2>. QED  BY <2>1, <2>2, PTL DEF Engine!Spec, Proved!Spec
<1>. QED  BY <1>1, ProvisioningRefinesEngine, PTL DEF RefinesEngine

(* Its words mean here what they mean there. *)
LEMMA SameSets ==
  /\ Proved!TaskRec = TaskRec /\ Proved!FreeTask = FreeTask /\ Proved!NoDoc = NoDoc
  /\ Proved!Doc = Doc /\ Proved!Scar = Scar
  /\ Proved!WorkerPc = WorkerPc /\ Proved!KillerPc = KillerPc
  /\ Proved!LeakScars = LeakScars /\ Proved!Unready = Unready /\ Proved!Unserved = Unserved
BY DEF Proved!TaskRec, TaskRec, Proved!FreeTask, FreeTask, Proved!NoDoc, NoDoc,
       Proved!Doc, Doc, Proved!Scar, Scar, Proved!Op, Op, Proved!Pc, Pc,
       Proved!WorkerPc, WorkerPc, Proved!KillerPc, KillerPc, Proved!Status, Status,
       Proved!LeakScars, LeakScars, Proved!Unready, Unready, Proved!Unserved, Unserved

LEMMA SameWords ==
  /\ \A t : Proved!Free(t) = Free(t)
  /\ \A a : /\ Proved!Busy(a) = Busy(a) /\ Proved!Live(a) = Live(a)
            /\ Proved!Alone(a) <=> Alone(a)
  /\ \A t, a : Proved!Holds(t, a) <=> Holds(t, a)
  /\ \A a, k : Proved!Excused(a, k) <=> Excused(a, k)
BY DEF Proved!Free, Free, Proved!Busy, Busy, Proved!Alone, Alone, Proved!Live, Live,
       Proved!Holds, Holds, Proved!Excused, Excused

(* What is proved of the engine holds at every moment of Provisioning, *)
EngineInv == Typed /\ OwnServer /\ Shaped /\ Exclusive /\ Unborn /\ Kept /\ Tended

LEMMA AlwaysEngineInv == ProvisioningSpec => []EngineInv
<1>1. Proved!Spec => [](Proved!Typed /\ Proved!OwnServer /\ Proved!Shaped
                        /\ Proved!Orderly /\ Proved!Tended)
  BY MoreFaults, BoundsAssumption, NullAssumption, Proved!AlwaysTyped,
     Proved!ServersStayWithTheirAsset, Proved!AlwaysShaped, Proved!AlwaysOrderly,
     Proved!AlwaysTended, PTL
<1>2. Proved!Typed => Typed
  BY SameSets, SameWords DEF Proved!Typed, Typed, Proved!TypeOK, TypeOK,
     Proved!ChannelOK, ChannelOK
<1>3. Proved!OwnServer => OwnServer
  BY SameWords DEF Proved!OwnServer, OwnServer, Proved!OwnedRecord, OwnedRecord,
     Proved!OwnedTask, OwnedTask, Proved!Owned, Owned
<1>4. \A x : Proved!ShapedDoc(x) <=> ShapedDoc(x)
  BY SameSets DEF Proved!ShapedDoc, ShapedDoc
<1>5. \A r : Proved!ShapedTask(r) => ShapedTask(r)
  BY <1>4, SameSets DEF Proved!ShapedTask, ShapedTask
<1>6. Proved!Shaped => Shaped
  BY <1>4, <1>5, SameWords DEF Proved!Shaped, Shaped
<1>7. Proved!Exclusive => Exclusive
  BY SameWords DEF Proved!Exclusive, Exclusive
<1>8. Proved!Unborn => Unborn
  BY SameSets, SameWords DEF Proved!Unborn, Unborn
<1>9. Proved!Kept => Kept
  <2>1. \A sc, k : Proved!Met(sc, k) <=> Met(sc, k)
    BY DEF Proved!Met, Met
  <2>2. \A s, live, sc : Proved!Cleared(s, live, sc) <=> Cleared(s, live, sc)
    BY <2>1 DEF Proved!Cleared, Cleared
  <2>3. \A r : Proved!Stored(r) = Stored(r)
    BY DEF Proved!Stored, Stored
  <2>4. \A d, v, live, sc : Proved!Consistent(d, v, live, sc) => Consistent(d, v, live, sc)
    BY <2>1, <2>2, SameSets DEF Proved!Consistent, Consistent
  <2>5. \A d, v, live, sc : Proved!Rest(d, v, live, sc) => Rest(d, v, live, sc)
    BY <2>1, SameSets DEF Proved!Rest, Rest
  <2>6. \A r, d, live, sc : Proved!FitsRecord(r, d, live, sc) => FitsRecord(r, d, live, sc)
    BY <2>1, <2>2, <2>3, SameSets DEF Proved!FitsRecord, FitsRecord, Proved!Attempting, Attempting
  <2>7. \A r, d, live, sc : Proved!FitsCloud(r, d, live, sc) => FitsCloud(r, d, live, sc)
    BY <2>1, <2>2, SameSets DEF Proved!FitsCloud, FitsCloud, Proved!Beginning, Beginning
  <2>8. \A r, v, live, sc : Proved!FitsCaller(r, v, live, sc) => FitsCaller(r, v, live, sc)
    BY <2>1 DEF Proved!FitsCaller, FitsCaller
  <2>9. \A r, d, v, live, sc : Proved!Fits(r, d, v, live, sc) => Fits(r, d, v, live, sc)
    BY <2>6, <2>7, <2>8 DEF Proved!Fits, Fits
  <2>. QED  BY <2>4, <2>5, <2>9, SameWords DEF Proved!Kept, Kept
<1>10. Proved!Tended => Tended
  BY SameSets, SameWords DEF Proved!Tended, Tended, Proved!Working, Working
<1>11. Proved!Orderly => Exclusive /\ Unborn /\ Kept
  BY <1>7, <1>8, <1>9 DEF Proved!Orderly
<1>. QED  BY <1>1, <1>2, <1>3, <1>6, <1>10, <1>11, ImplementsEngine, PTL DEF EngineInv

(* No call of ProvisionInstance lets a request refer to, or hand out, the
   server of another. *)
THEOREM ProvisionedServersStay == ProvisioningSpec => []OwnServer
<1>1. EngineInv => OwnServer
  BY DEF EngineInv
<1>. QED  BY <1>1, AlwaysEngineInv, PTL

(* What the engine promises of servers, records and callers, it keeps when
   ProvisionInstance is taken call by call: no server is leaked, retries
   start clean, a created record describes a server in service, no caller
   is misled and no request is stranded. *)
THEOREM ProvisioningKeepsPromises ==
  ProvisioningSpec =>
    [](NoOrphan /\ RetryIsClean /\ ReadyIsReal /\ CallerNotMisled /\ NothingStranded)
<1>1. EngineInv => Typed /\ OwnServer /\ Shaped /\ Orderly
  BY DEF EngineInv, Orderly
<1>2. EngineInv => NothingStranded
  BY DEF EngineInv, Tended, NothingStranded, Busy, Free, Working, WorkerPc
<1>. QED
  BY <1>1, <1>2, NoOrphanFollows, RetryIsCleanFollows, RestFollows, AlwaysEngineInv, PTL

(* Nor does a call of ProvisionInstance bring a deleted record back, or hit a
   server in service. *)
THEOREM ProvisioningHarmsNone == ProvisioningSpec => StaysDeleted /\ KillsOnlyUnserved
<1>1. Proved!Spec => Proved!StaysDeleted /\ Proved!KillsOnlyUnserved
  BY MoreFaults, BoundsAssumption, NullAssumption, Proved!DeletedStaysDeleted,
     Proved!OnlyDeletionsKillServed
<1>2. UNCHANGED Proved!vars => UNCHANGED vars
  BY DEF vars, Proved!vars, sysvars, Proved!sysvars, Proved!peervars, Proved!history
<1>3. [\A a \in Asset : a \in issued /\ db[a] = Proved!NoDoc /\ db'[a] # Proved!NoDoc
                        => Proved!Excused(a, {"overlap"})]_(Proved!vars)
      => [\A a \in Asset : a \in issued /\ db[a] = NoDoc /\ db'[a] # NoDoc
                           => Excused(a, {"overlap"})]_vars
  BY <1>2, SameSets, SameWords
<1>4. [\A a \in Asset :
         vertex[a] \in cloud \ cloud'
         => \E t \in Task : /\ task[t].pc = "kill" /\ task[t].op = "delete"
                           /\ task[t].id = a]_(Proved!vars)
      => [\A a \in Asset :
            vertex[a] \in cloud \ cloud'
            => \E t \in Task : /\ task[t].pc = "kill" /\ task[t].op = "delete"
                              /\ task[t].id = a]_vars
  BY <1>2
<1>. QED
  BY <1>1, <1>3, <1>4, ImplementsEngine, PTL
     DEF StaysDeleted, KillsOnlyUnserved, Proved!StaysDeleted, Proved!KillsOnlyUnserved

(* The two instances of the contract are the same. *)
LEMMA SameContract ==
  /\ Proved!Contract!ContractInit => Contract!ContractInit
  /\ [Proved!Contract!ContractNext]_(Proved!Contract!cvars)
       => [Contract!ContractNext]_(Contract!cvars)
<1>1. Proved!Contract!ContractInit => Contract!ContractInit
  BY DEF Proved!Contract!ContractInit, Contract!ContractInit, PhaseOf, Proved!PhaseOf,
         Leaving, Proved!Leaving, NoDoc, Proved!NoDoc
<1>2. [Proved!Contract!ContractNext]_(Proved!Contract!cvars)
       => [Contract!ContractNext]_(Contract!cvars)
  BY DEF PhaseOf, Proved!PhaseOf, Leaving, Proved!Leaving, NoDoc, Proved!NoDoc,
         Contract!ContractNext, Proved!Contract!ContractNext,
         Contract!cvars, Proved!Contract!cvars, Contract!Own, Proved!Contract!Own,
         Contract!Move, Proved!Contract!Move, Contract!Accept, Proved!Contract!Accept,
         Contract!Build, Proved!Contract!Build, Contract!Scrap, Proved!Contract!Scrap,
         Contract!Serve, Proved!Contract!Serve, Contract!Close, Proved!Contract!Close,
         Contract!Release, Proved!Contract!Release, Contract!Forget, Proved!Contract!Forget,
         Contract!Suffer, Proved!Contract!Suffer
<1>. QED
  BY <1>1, <1>2

(* Call by call, too, ProvisionInstance keeps the contract with the owner of an asset. *)
THEOREM ProvisioningKeepsContract == ProvisioningSpec => KeepsContract
<1>1. Proved!Spec => Proved!KeepsContract
  BY MoreFaults, BoundsAssumption, NullAssumption, Proved!EngineKeepsContract
<1>. QED
  BY <1>1, SameContract, ImplementsEngine, PTL
     DEF KeepsContract, Proved!KeepsContract, Contract!ContractSpec, Proved!Contract!ContractSpec

-----------------------------------------------------------------------------
(* The agents: what a task does to its asset's affairs *)

(* The request r of task t becomes q. *)
Goes(t, r, q, a) ==
  /\ r = task[t] /\ q = task'[t] /\ Others(t)
  /\ r \in TaskRec /\ r.id = a /\ a \in Asset
  /\ q = FreeTask \/ (q \in TaskRec /\ q.id = a)
  /\ Untouched(a) /\ scars[a] \subseteq scars'[a] /\ issued' = issued

(* A deletion ends with the record removed, unless a mishap keeps it; *)
Lasts(r, q, a) ==
  r.op = "delete" \/ db[a] = NoDoc =>
    db'[a] = NoDoc \/ q.op = "delete" \/ Met(scars'[a], {"provider", "write"})

(* only a deletion or the rescheduler removes a record, *)
Removes(r, q, a) ==
  db'[a] = NoDoc \/ q.op = "delete" =>
    r.op = "delete" \/ db[a] = NoDoc \/ (r.op = "marked" /\ r.pc = "remove")

(* only the end of a successful attempt says that a server is in service, *)
Creates(r, a) ==
  db'[a].status = "SERVER_CREATED" =>
    \/ db[a].status = "SERVER_CREATED" /\ db'[a].server = db[a].server
    \/ r.pc = "finish" /\ r.status = "SERVER_CREATED" /\ db'[a].server = r.server
    \/ Met(scars'[a], {"write"})

(* and an attempt goes from run over configure to finish. *)
Attempts(r, q) ==
  /\ q.pc = "configure" => r.pc = "run" \/ q = r
  /\ q.pc = "finish" /\ q.status = "SERVER_CREATED" => r.pc = "configure"

Moves(t, r, q, a) ==
  /\ Goes(t, r, q, a) /\ Attempts(r, q)
  /\ "overlap" \notin scars'[a] => Lasts(r, q, a) /\ Removes(r, q, a) /\ Creates(r, a)

(* What the task of an asset that is alone knows of its record. *)
LEMMA HolderKnows ==
  ASSUME EngineInv, NEW t \in Task, task[t] \in TaskRec, Alone(task[t].id)
  PROVE  /\ FitsRecord(task[t], db[task[t].id], Live(task[t].id), scars[task[t].id])
         /\ Holds(t, task[t].id)
<1>1. Holds(t, task[t].id) /\ task[t].id \in Asset
  BY DEF Holds, Free, TaskRec, Pc, WorkerPc, KillerPc
<1>2. Fits(task[t], db[task[t].id], vertex[task[t].id], Live(task[t].id), scars[task[t].id])
  BY <1>1 DEF EngineInv, Kept
<1> QED BY <1>1, <1>2 DEF Fits

(* A step that leaves the record. *)
LEMMA RecordKept ==
  ASSUME NEW t, NEW r, NEW q, NEW a, Goes(t, r, q, a), Attempts(r, q), db' = db,
         \/ q \in TaskRec /\ (q.op = r.op \/ (r.op # "delete" /\ q.op # "delete"))
         \/ q = FreeTask /\ r.op # "delete"
         \/ q = FreeTask /\ (Alone(a) => db[a] = NoDoc \/ Met(scars'[a], {"provider", "write"}))
  PROVE  Moves(t, r, q, a)
BY DEF Moves, Lasts, Removes, Creates, FreeTask, Alone, Goes

LEMMA TaskGoes ==
  ASSUME EngineInv, NEW t \in Task, Worker(t) \/ Killer(t) \/ Detach(t) \/ Take(t)
  PROVE  Goes(t, task[t], task'[t], task[t].id) /\ ShapedTask(task[t])
<1>1. Typed /\ OwnServer /\ Unborn /\ Shaped
  BY DEF EngineInv
<1>2. AtHome(t, task[t].id) /\ task[t].id \in Asset
  BY <1>1, AtWork, WorkerAtHome, KillerAtHome
<1>3. ShapedTask(task[t])
  BY <1>1, <1>2 DEF Shaped, AtHome, Free, TaskRec, Pc, WorkerPc, KillerPc
<1> QED BY <1>2, <1>3 DEF AtHome, Away, Goes, Untouched

(* A task that writes its record. *)
LEMMA RecordWritten ==
  ASSUME NEW t, NEW r, NEW q, NEW a, Goes(t, r, q, a), Attempts(r, q),
         Wrote(a, Stored(r)) \/ (Wrote(a, Stored(q)) /\ q.status = "BUILD"),
         r.op # "delete", q.op # "delete", Stored(r) # NoDoc,
         q.status = "BUILD" => Stored(q) # NoDoc,
         Alone(a) => db[a] # NoDoc,
         r.status = "SERVER_CREATED" => r.pc = "finish" \/ (Alone(a) =>
           \/ db[a].status = "SERVER_CREATED" /\ db[a].server = r.server
           \/ Met(scars[a], {"write"}))
  PROVE  Moves(t, r, q, a)
<1>1. /\ Stored(r).status = r.status /\ Stored(r).server = r.server
      /\ Stored(q).status = q.status
  BY DEF Stored
<1>2. "overlap" \notin scars'[a] => Alone(a)
  BY DEF Goes, Alone
<1>3. Alone(a) => Lasts(r, q, a)
  BY DEF Lasts
<1>4. Alone(a) => Removes(r, q, a)
  BY DEF Removes, Wrote
<1>5. Alone(a) => Creates(r, a)
  BY <1>1 DEF Creates, Wrote, Goes, Met
<1> QED BY <1>2, <1>3, <1>4, <1>5 DEF Moves

LEMMA WorkerMoves ==
  ASSUME EngineInv, NEW t \in Task, Worker(t)
  PROVE  Moves(t, task[t], task'[t], task[t].id)
<1> DEFINE r == task[t]
           q == task'[t]
           a == r.id
<1>1. Goes(t, r, q, a) /\ ShapedTask(r) /\ r \in TaskRec /\ a \in Asset /\ Typed
  BY TaskGoes DEF Goes, EngineInv
<1>2. r.pc \in {"send", "start", "run", "configure", "cleanup", "finish", "notify", "record"}
  BY DEF Worker, SendRequest, Start, StartFails, RunServer, RunServerFails, Configure,
           ConfigureFails, DetailFails, Cleanup, Finish, Notify, Record
<1>3. r.op # "delete" /\ FreeTask.op = "create" /\ FreeTask.pc = "free"
  BY <1>1, <1>2 DEF ShapedTask, KillerPc, FreeTask
<1>4. Alone(a) => FitsRecord(r, db[a], Live(a), scars[a])
  BY <1>1, HolderKnows
<1>5. Alone(a) => db[a] # NoDoc
  BY <1>2, <1>4 DEF FitsRecord
<1> HIDE DEF r, q, a
<1>10. CASE SendRequest(t)
  <2>1. r.pc = "send" /\ Becomes(q, r, "create", "queued", r.status, r.server, r.ip,
                                  r.entity, r.detach) /\ db' = db
    BY <1>1, <1>10, SendRequestEffect DEF r, q
  <2> QED BY <1>1, <1>3, <2>1, RecordKept DEF Becomes, Attempts, r, q, a
<1>11. CASE Start(t)
  <2>1. /\ r.pc = "start" /\ Wrote(a, Stored(q))
        /\ Becomes(q, r, r.op, "run", "BUILD", r.server, r.ip, r.entity, r.detach)
    BY <1>1, <1>11, StartEffect DEF r, q, a
  <2>2. Stored(q) # NoDoc /\ Stored(r) # NoDoc /\ r.status # "SERVER_CREATED"
    BY <1>1, <2>1 DEF Becomes, Stored, NoDoc, TaskRec, Status, ShapedTask
  <2> QED BY <1>1, <1>3, <1>5, <2>1, <2>2, RecordWritten DEF Becomes, Attempts, r, q, a
<1>12. CASE StartFails(t)
  <2>1. q = FreeTask /\ db' = db
    BY <1>1, <1>12, StartFailsEffect DEF q
  <2> QED BY <1>1, <1>3, <2>1, RecordKept DEF Attempts, r, q, a
<1>13. CASE (\E s \in Server : RunServer(t, s)) \/ RunServerFails(t) \/ DetailFails(t)
            \/ Cleanup(t)
  <2>1. /\ db' = db
        /\ \/ \E s : Retried(q, r, s)
           \/ r.pc = "run" /\ q \in TaskRec /\ q.pc = "configure" /\ q.op = r.op
    BY <1>1, <1>13, RunServerEffect, RunServerFailsEffect, DetailFailsEffect, CleanupEffect
       DEF r, q, Becomes
  <2>2. q \in TaskRec /\ q.op = r.op /\ Attempts(r, q)
    BY <2>1 DEF Retried, Becomes, Attempts
  <2> QED BY <1>1, <2>1, <2>2, RecordKept DEF r, q, a
<1>14. CASE Configure(t) \/ ConfigureFails(t)
  <2>1. /\ db' = db /\ r.pc = "configure" /\ q \in TaskRec /\ q.op = r.op
        /\ q.pc \in {"finish", "cleanup"}
    BY <1>1, <1>14, ConfigureEffect, ConfigureFailsEffect DEF r, q, Becomes
  <2> QED BY <1>1, <2>1, RecordKept DEF Attempts, r, q, a
<1>15. CASE Finish(t)
  <2>1. /\ r.pc = "finish" /\ Wrote(a, Stored(r))
        /\ q = FreeTask \/ (q \in TaskRec /\ q.pc = "notify" /\ q.op = r.op
                            /\ q.status = r.status)
    BY <1>1, <1>15, FinishEffect DEF r, q, a, Becomes
  <2>2. Stored(r) # NoDoc /\ r.status # "BUILD" /\ FreeTask.status # "BUILD"
    BY <1>1, <2>1 DEF Stored, NoDoc, TaskRec, Status, ShapedTask, FreeTask
  <2> QED BY <1>1, <1>3, <1>5, <2>1, <2>2, RecordWritten DEF Attempts, r, q, a
<1>16. CASE Notify(t)
  <2>1. /\ r.pc = "notify" /\ db' = db /\ q \in TaskRec /\ q.pc = "record" /\ q.op = r.op
    BY <1>1, <1>16, NotifyEffect DEF r, q, Becomes
  <2> QED BY <1>1, <2>1, RecordKept DEF Attempts, r, q, a
<1>17. CASE Record(t)
  <2>1. r.pc = "record" /\ Wrote(a, Stored(r)) /\ q = FreeTask
    BY <1>1, <1>17, RecordEffect DEF r, q, a
  <2>2. Stored(r) # NoDoc /\ FreeTask.status # "BUILD"
    BY <1>1, <2>1 DEF Stored, NoDoc, TaskRec, Status, ShapedTask, FreeTask
  <2>3. Alone(a) => \/ db[a].status = "SERVER_CREATED" /\ db[a].server = r.server
                    \/ Met(scars[a], {"write"})
    BY <1>4, <2>1 DEF FitsRecord
  <2> QED BY <1>1, <1>3, <1>5, <2>1, <2>2, <2>3, RecordWritten DEF Attempts, r, q, a
<1> QED
  BY <1>10, <1>11, <1>12, <1>13, <1>14, <1>15, <1>16, <1>17 DEF Worker, r, q, a

LEMMA KillerMoves ==
  ASSUME EngineInv, NEW t \in Task, Killer(t) \/ Detach(t) \/ Take(t)
  PROVE  Moves(t, task[t], task'[t], task[t].id)
<1> DEFINE r == task[t]
           q == task'[t]
           a == r.id
<1>1. Goes(t, r, q, a) /\ ShapedTask(r) /\ r \in TaskRec /\ a \in Asset /\ Typed
  BY TaskGoes DEF Goes, EngineInv
<1>2. r.pc \in KillerPc \cup {"listed"}
  BY DEF Killer, LookUp, LookingUp, ListFails, LookUpFails, Kill, KillFails, Remove,
         Detach, Take, KillerPc
<1>3. /\ Attempts(r, FreeTask)
      /\ \A pc \in KillerPc \cup {"listed", "send"} : pc # "configure" /\ pc # "finish"
  BY DEF FreeTask, KillerPc, Attempts
<1>4. Alone(a) => FitsRecord(r, db[a], Live(a), scars[a])
  BY <1>1, HolderKnows
<1> HIDE DEF r, q, a
<1>10. CASE LookUp(t) \/ ListFails(t) \/ Kill(t) \/ KillFails(t) \/ Take(t)
  <2>1. /\ db' = db
        /\ \/ q \in TaskRec /\ q.op = r.op /\ q.pc \in KillerPc
           \/ Done(q, r)
    BY <1>1, <1>10, LookUpEffect, ListFailsEffect, KillEffect, KillFailsEffect, TakeEffect
       DEF r, q, Becomes, KillerPc
  <2>2. q \in TaskRec /\ q.op = r.op /\ Attempts(r, q)
    BY <1>3, <2>1 DEF Done, Becomes, Attempts, KillerPc
  <2> QED BY <1>1, <2>1, <2>2, RecordKept DEF r, q, a
<1>11. CASE LookUpFails(t)
  <2>1. /\ db' = db /\ "provider" \in scars'[a]
        /\ Done(q, r) \/ Finished(q, r)
    BY <1>1, <1>11, LookUpFailsEffect DEF r, q, a, Blamed
  <2>2. q = FreeTask \/ (q \in TaskRec /\ q.op = r.op)
    BY <2>1 DEF Done, Finished, Becomes
  <2>3. Attempts(r, q)
    BY <1>3, <2>1 DEF Done, Finished, Becomes, Attempts
  <2> QED BY <1>1, <2>1, <2>2, <2>3, RecordKept DEF r, q, a, Met
<1>12. CASE Remove(t)
  <2>1. r.pc = "remove" /\ Wrote(a, NoDoc) /\ Finished(q, r)
    BY <1>1, <1>12, RemoveEffect DEF r, q, a
  <2>2. r.op \in {"delete", "marked"}
    BY <1>1, <2>1 DEF ShapedTask, WorkerPc, TaskRec, Op
  <2>3. Attempts(r, q)
    BY <1>3, <2>1 DEF Finished, Becomes, Attempts
  <2>4. Lasts(r, q, a) /\ Removes(r, q, a) /\ Creates(r, a)
    BY <2>1, <2>2 DEF Lasts, Removes, Creates, Wrote, Met, NoDoc
  <2> QED BY <1>1, <2>3, <2>4 DEF Moves, r, q, a
<1>13. CASE Detach(t)
  <2>1. /\ db' = db
        /\ \/ r.pc = "gone" /\ q = FreeTask
           \/ q \in TaskRec /\ q.op = r.op /\ q.pc \in KillerPc
    BY <1>1, <1>13, DetachEffect DEF r, q, Becomes
  <2>2. r.pc = "gone" => (Alone(a) => db[a] = NoDoc \/ Met(scars[a], {"provider", "write"}))
    BY <1>4 DEF FitsRecord
  <2>3. Met(scars[a], {"provider", "write"}) => Met(scars'[a], {"provider", "write"})
    BY <1>1 DEF Goes, Met
  <2>4. Attempts(r, q)
    BY <1>3, <2>1 DEF Attempts, KillerPc
  <2> QED BY <1>1, <2>1, <2>2, <2>3, <2>4, RecordKept DEF r, q, a
<1> QED BY <1>10, <1>11, <1>12, <1>13 DEF Killer, r, q, a

(* The consumer of CRequest starts a worker. *)
LEMMA DispatchMoves ==
  ASSUME EngineInv, Dispatch
  PROVE  \E t \in Task : task[t].pc = "queued" /\ Moves(t, task[t], task'[t], task[t].id)
<1>1. PICK t \in Task :
           /\ task[t] \in TaskRec /\ task[t].pc = "queued" /\ Others(t)
           /\ Becomes(task'[t], task[t], task[t].op, "start", task[t].status,
                      task[t].server, task[t].ip, task[t].entity, task[t].detach)
           /\ UNCHANGED <<db, scars, vertex, cloud, owner, issued>>
  BY DispatchEffect DEF EngineInv
<1>2. Goes(t, task[t], task'[t], task[t].id)
  BY <1>1 DEF Goes, Becomes, Untouched, TaskRec
<1>3. Attempts(task[t], task'[t])
  BY <1>1 DEF Attempts, Becomes
<1>4. task'[t] \in TaskRec /\ task'[t].op = task[t].op /\ db' = db
  BY <1>1 DEF Becomes
<1> QED BY <1>1, <1>2, <1>3, <1>4, RecordKept

(* An attempt that ends as GiveUp and ShowFails have it. *)
LEMMA GiveUpMoves ==
  ASSUME EngineInv, NEW t \in Task, task[t].pc = "configure",
         GiveUp(t) \/ ShowFails(t)
  PROVE  /\ Moves(t, task[t], task'[t], task[t].id)
         /\ task'[t].pc # "configure"
         /\ task'[t].pc = "finish" => task'[t].status # "SERVER_CREATED"
<1> DEFINE r == task[t]
           q == task'[t]
           a == r.id
<1>1. Typed /\ r \in TaskRec /\ a \in Asset
  <2>1. Typed /\ TypeOK
    BY DEF EngineInv, Typed
  <2> QED BY <2>1, ActiveTask DEF TaskRec
<1>2. CASE GiveUp(t)
  <2>1. /\ q = [r EXCEPT !.pc = "cleanup", !.server = r.entity] /\ Others(t)
        /\ db' = db /\ scars' = scars /\ issued' = issued
    BY <1>1, <1>2, PutEffect DEF GiveUp, history
  <2> HIDE DEF r, q, a
  <2>2. q \in TaskRec /\ q.id = r.id /\ q.pc = "cleanup" /\ q.op = r.op
    BY <1>1, <2>1 DEF TaskRec, Pc, WorkerPc
  <2>3. Goes(t, r, q, a) /\ db' = db
    BY <1>1, <2>1, <2>2 DEF Goes, Untouched, r, q, a
  <2>4. Moves(t, r, q, a)
    BY <2>2, <2>3, RecordKept DEF Attempts
  <2> QED BY <2>2, <2>4 DEF r, q, a
<1>3. CASE ShowFails(t)
  <2> DEFINE e == [r EXCEPT !.server = r.entity]
  <2>1. q = NextAttempt(e) /\ Others(t) /\ Scarred(a, {"detail"}) /\ db' = db /\ issued' = issued
    BY <1>1, <1>3, PutEffect DEF ShowFails
  <2>2. e \in TaskRec /\ e.id = a /\ e.op = r.op
    BY <1>1 DEF TaskRec
  <2>3. Blamed(a, "detail") /\ Untouched(a)
    BY <1>1, <2>1, ScarredEffect
  <2> HIDE DEF r, q, a, e
  <2>4. Retried(q, e, e.server)
    BY <2>1, <2>2, RetriedEffect
  <2>5. /\ q \in TaskRec /\ q.id = a /\ q.op = r.op /\ Attempts(r, q)
        /\ q.pc # "configure" /\ (q.pc = "finish" => q.status # "SERVER_CREATED")
    BY <2>2, <2>4 DEF Retried, Becomes, Attempts
  <2>6. Goes(t, r, q, a)
    BY <1>1, <2>1, <2>3, <2>5 DEF Goes, Blamed, r, q, a
  <2>7. Moves(t, r, q, a)
    BY <2>1, <2>5, <2>6, RecordKept
  <2> QED BY <2>5, <2>7 DEF r, q, a
<1> QED BY <1>2, <1>3

-----------------------------------------------------------------------------
(* The agents: an asset nobody touches, and one whose task takes a step *)

(* An asset whose record and tasks stay as they are. *)
LEMMA AgentFrame ==
  ASSUME NEW b \in Asset, db'[b] = db[b], scars[b] \subseteq scars'[b], tracked' = tracked,
         \A u \in Task : Holds(u, b) \/ Holds(u, b)' => task'[u] = task[u] /\ work'[u] = work[u],
         tracker'[b] = tracker[b], (b \in domain') <=> (b \in domain), calls'[b] = calls[b],
         mishap[b] \subseteq mishap'[b], InStepAt(b), TakenOutAt(b)
  PROVE  InStepAt(b)' /\ TakenOutAt(b)'
<1>1. \A kinds : Met(scars[b], kinds) => Met(scars'[b], kinds)
  BY MetGrows
<1>2. \A u \in Task : Holds(u, b)' <=> Holds(u, b)
  BY DEF Holds, Free
<1>3. Deleting(b)' <=> Deleting(b)
  BY <1>2 DEF Deleting
<1>4. \A u \in Task : Holds(u, b) /\ Following(u, b) => Following(u, b)'
  BY DEF Following, At, Registered, InService
<1>5. \A s : InService(b, s) => (tracker'[b] = s \/ "late" \in mishap'[b]) /\ b \in domain'
  BY DEF InService, Registered
<1>6. InStepAt(b)'
  BY <1>1, <1>2, <1>3, <1>4, <1>5 DEF InStepAt, InService, Registered
<1>7. TakenOutAt(b)'
  BY <1>1, <1>3 DEF TakenOutAt
<1> QED BY <1>6, <1>7

(* The task of an asset that stays alone is the only one. *)
LEMMA SoleHolder ==
  ASSUME EngineInv, NEW t \in Task, NEW r, NEW q, NEW a, Moves(t, r, q, a),
         "overlap" \notin scars'[a]
  PROVE  /\ Alone(a) /\ Holds(t, a)
         /\ \A u \in Task : Holds(u, a) \/ Holds(u, a)' => u = t
         /\ Deleting(a) <=> db[a] = NoDoc \/ r.op = "delete"
         /\ Deleting(a)' <=> db'[a] = NoDoc \/ q.op = "delete"
<1>1. Goes(t, r, q, a)
  BY DEF Moves
<1>2. Alone(a) /\ Holds(t, a)
  BY <1>1 DEF Goes, Alone, Holds, Free, TaskRec, Pc, WorkerPc, KillerPc
<1>3. \A u \in Task : Holds(u, a) => u = t
  BY <1>1, <1>2 DEF EngineInv, Exclusive, Goes
<1>4. \A u \in Task : Holds(u, a)' => u = t
  BY <1>1, <1>3 DEF Goes, Others, Holds, Free
<1>5. Deleting(a) <=> db[a] = NoDoc \/ r.op = "delete"
  BY <1>1, <1>2, <1>3 DEF Goes, Deleting
<1>6. q.op = "delete" => Holds(t, a)'
  BY <1>1 DEF Goes, FreeTask, Holds, Free, TaskRec, Pc, WorkerPc, KillerPc
<1>7. Deleting(a)' <=> db'[a] = NoDoc \/ q.op = "delete"
  BY <1>1, <1>4, <1>6 DEF Goes, Deleting
<1> QED BY <1>2, <1>3, <1>4, <1>5, <1>7

(* What may happen to the agent when the task of its asset takes a step. *)
Accompanies(t, r, q, a) ==
  /\ mishap[a] \subseteq mishap'[a]
  /\ calls'[a]["leave"] = calls[a]["leave"] /\ calls'[a]["deregister"] = calls[a]["deregister"]
  /\ r.pc # "configure" => tracker'[a] = tracker[a] /\ ((a \in domain') <=> (a \in domain))
  /\ q.pc = "configure" /\ work'[t] = "join" =>
       tracker'[a] = q.entity \/ "late" \in mishap'[a]
  /\ a \in tracked /\ q.pc = "finish" /\ q.status = "SERVER_CREATED"
     /\ ~Met(scars'[a], ServiceScars) =>
       (tracker'[a] = q.server \/ "late" \in mishap'[a]) /\ a \in domain'
  /\ r.op = "marked" /\ r.pc = "remove" => "left" \in mishap'[a]

(* It keeps the agent in step. *)
LEMMA HomeKept ==
  ASSUME EngineInv, NEW t \in Task, NEW r, NEW q, NEW a, Moves(t, r, q, a),
         Accompanies(t, r, q, a), tracked' = tracked, InStepAt(a), TakenOutAt(a)
  PROVE  InStepAt(a)' /\ TakenOutAt(a)'
<1>1. Goes(t, r, q, a)
  BY DEF Moves
<1>2. \A kinds : Met(scars[a], kinds) => Met(scars'[a], kinds)
  BY <1>1, MetGrows DEF Goes
<1>3. ShapedTask(r)
  BY <1>1 DEF Goes, EngineInv, Shaped, Free, TaskRec, Pc, WorkerPc, KillerPc
<1>4. CASE "overlap" \in scars'[a]
  BY <1>4 DEF InStepAt, TakenOutAt, ServiceScars, Met
<1>5. CASE "overlap" \notin scars'[a]
  <2>1. /\ Alone(a) /\ Holds(t, a)
        /\ \A u \in Task : Holds(u, a) \/ Holds(u, a)' => u = t
        /\ Deleting(a) <=> db[a] = NoDoc \/ r.op = "delete"
        /\ Deleting(a)' <=> db'[a] = NoDoc \/ q.op = "delete"
    BY <1>5, SoleHolder
  <2>2. Lasts(r, q, a) /\ Removes(r, q, a) /\ Creates(r, a)
    BY <1>5 DEF Moves
  <2>3. r.pc = "configure" => /\ db[a] # NoDoc /\ r.op # "delete"
                              /\ db[a].status # "SERVER_CREATED"
    <3>1. FitsRecord(r, db[a], Live(a), scars[a])
      BY <1>1, <2>1, HolderKnows DEF Goes
    <3> QED BY <3>1, <1>3 DEF FitsRecord, Attempting, Unready, ShapedTask, KillerPc
  <2>4. Deleting(a) => Deleting(a)' \/ Met(scars'[a], {"provider", "write"})
    BY <2>1, <2>2 DEF Lasts
  <2>5. InStepAt(a)'
    <3> SUFFICES ASSUME a \in tracked, ~Met(scars'[a], ServiceScars)
                 PROVE  /\ (\A u \in Task : Holds(u, a) => Following(u, a))'
                        /\ (db[a].status = "SERVER_CREATED" => Deleting(a) \/ InService(a, db[a].server))'
                        /\ (calls[a]["leave"] > 0 \/ calls[a]["deregister"] > 0 => Deleting(a))'
      BY DEF InStepAt
    <3>1. ~Met(scars[a], ServiceScars) /\ ~Met(scars'[a], {"provider", "write"})
          /\ ~Met(scars'[a], {"write"})
      BY <1>2 DEF Met, ServiceScars
    <3>2. /\ Following(t, a)
          /\ db[a].status = "SERVER_CREATED" => Deleting(a) \/ InService(a, db[a].server)
          /\ calls[a]["leave"] > 0 \/ calls[a]["deregister"] > 0 => Deleting(a)
      BY <2>1, <3>1 DEF InStepAt
    <3>3. Following(t, a)'
      BY <1>1 DEF Following, At, Registered, InService, Accompanies, Goes
    <3>4. (\A u \in Task : Holds(u, a) => Following(u, a))'
      BY <2>1, <3>3
    <3>5. (calls[a]["leave"] > 0 \/ calls[a]["deregister"] > 0 => Deleting(a))'
      BY <2>4, <3>1, <3>2 DEF Accompanies
    <3>6. ASSUME db'[a].status = "SERVER_CREATED", ~Deleting(a)'
          PROVE  (tracker'[a] = db'[a].server \/ "late" \in mishap'[a]) /\ a \in domain'
      <4>1. ~Deleting(a)
        BY <2>4, <3>1, <3>6
      <4>2. \/ db[a].status = "SERVER_CREATED" /\ db'[a].server = db[a].server
            \/ r.pc = "finish" /\ r.status = "SERVER_CREATED" /\ db'[a].server = r.server
        BY <2>2, <3>1, <3>6 DEF Creates
      <4>3. InService(a, db'[a].server)
        BY <1>1, <3>2, <4>1, <4>2 DEF Following, Goes
      <4>4. r.pc # "configure"
        BY <2>3, <4>2
      <4> QED BY <4>3, <4>4 DEF InService, Registered, Accompanies
    <3>7. (db[a].status = "SERVER_CREATED" => Deleting(a) \/ InService(a, db[a].server))'
      BY <3>6 DEF InService, Registered
    <3> QED BY <3>4, <3>5, <3>7
  <2>6. TakenOutAt(a)'
    <3> SUFFICES ASSUME ~Met(scars'[a], {"overlap", "crash"}), "left" \notin mishap'[a],
                        Deleting(a)'
                 PROVE  /\ tracker'[a] = Null \/ calls'[a]["deregister"] > 0
                        /\ a \notin domain' \/ calls'[a]["leave"] > 0
      BY DEF TakenOutAt
    <3>1. Deleting(a)
      BY <2>1, <2>2 DEF Removes, Accompanies
    <3>2. r.pc # "configure"
      BY <2>1, <2>3, <3>1
    <3> QED BY <1>2, <3>1, <3>2 DEF TakenOutAt, Accompanies
  <2> QED BY <2>5, <2>6
<1> QED BY <1>4, <1>5

-----------------------------------------------------------------------------
(* The agents: types *)

LEMMA AgentsStayTyped == Typed /\ AgentsTyped /\ [ProvisioningNext]_pvars => AgentsTyped'
<1> SUFFICES ASSUME Typed, AgentsTyped, [ProvisioningNext]_pvars PROVE AgentsTyped'
  OBVIOUS
<1>1. \A t \in Task : task[t].pc = "configure" =>
        task[t].id \in Asset /\ task[t].entity \in Server \cup {Null}
  BY ActiveTask DEF Typed, TaskRec
<1>2. CASE Elsewhere \/ UNCHANGED pvars
  BY <1>2 DEF Elsewhere, pvars, agents, aside, AgentsTyped
<1>3. CASE Restart
  BY <1>3 DEF Restart, agents, AgentsTyped, Call, Work, Mishap
<1>4. ASSUME NEW t \in Task, Provision(t) PROVE AgentsTyped'
  <2>1. \A w \in Work : Goto(t, w) => work' \in [Task -> Work]
    BY DEF Goto, AgentsTyped
  <2>2. {"none", "poll", "attach", "again", "show", "register", "join"} \subseteq Work
    BY DEF Work
  <2>3. GiveUp(t) => work' \in [Task -> Work]
    BY <2>1, <2>2 DEF GiveUp
  <2>4. CASE (\E s \in Server : CreateInstance(t, s)) \/ Started(t) \/ Attached(t) \/ NotAllocated(t)
             \/ AttachFails(t) \/ Shown(t) \/ ShowFails(t)
    BY <2>1, <2>2, <2>3, <2>4 DEF CreateInstance, Started, Attached, NotAllocated, AttachFails,
       Shown, ShowFails, agents, aside, AgentsTyped
  <2>5. CASE Register(t) \/ RegisterFails(t)
    <3>1. task[t].pc = "configure" /\ tracker' \in {tracker, Registration(task[t].id, task[t].entity)}
      BY <2>5 DEF Register, RegisterFails, At
    <3>2. tracker' \in [Asset -> Server \cup {Null}]
      BY <1>1, <3>1 DEF AgentsTyped, Registration
    <3>3. work' \in [Task -> Work]
      BY <2>1, <2>2, <2>3, <2>5 DEF Register, RegisterFails
    <3> QED BY <2>5, <3>2, <3>3 DEF Register, RegisterFails, aside, AgentsTyped
  <2>6. CASE Join(t) \/ JoinFails(t)
    <3>1. task[t].pc = "configure" /\ domain' \in {domain, domain \cup {task[t].id}}
      BY <2>6 DEF Join, JoinFails, At
    <3>2. domain' \subseteq Asset
      BY <1>1, <3>1 DEF AgentsTyped
    <3>3. work' \in [Task -> Work]
      BY <2>1, <2>2, <2>3, <2>6 DEF Join, JoinFails
    <3>4. calls' \in [Asset -> [Call -> Nat]]
      BY <2>6 DEF Join, JoinFails, aside, Spawn, AgentsTyped, Call
    <3> QED BY <2>6, <3>2, <3>3, <3>4 DEF Join, JoinFails, aside, AgentsTyped
  <2> QED BY <1>4, <2>4, <2>5, <2>6 DEF Provision
<1>5. ASSUME NEW t \in Task, Unrecord(t) PROVE AgentsTyped'
  BY <1>5 DEF Unrecord, Befalls, agents, AgentsTyped, Mishap
<1>6. ASSUME NEW t \in Task, NEW a \in Asset, Delete(a, t) PROVE AgentsTyped'
  <2>1. calls' \in [Asset -> [Call -> Nat]]
    BY <1>6 DEF Delete, AgentsTyped, Call
  <2> QED BY <1>6, <2>1 DEF Delete, agents, AgentsTyped
<1>7. ASSUME NEW a \in Asset, Beside(a) PROVE AgentsTyped'
  <2>1. ASSUME NEW c \in Call, Ends(a, c) PROVE calls' \in [Asset -> [Call -> Nat]]
    <3>1. calls[a][c] \in Nat /\ calls[a][c] - 1 \in Nat /\ calls[a] \in [Call -> Nat]
      BY <2>1 DEF Ends, AgentsTyped
    <3>2. calls' = [calls EXCEPT ![a] = [calls[a] EXCEPT ![c] = calls[a][c] - 1]]
      BY <2>1 DEF Ends
    <3> QED BY <3>1, <3>2 DEF AgentsTyped
  <2>2. \A m \in SUBSET Mishap : Befalls(a, m) => mishap' \in [Asset -> SUBSET Mishap]
    BY DEF Befalls, AgentsTyped
  <2>3. {"leave", "deregister", "late"} \subseteq Call /\ {"late", "left"} \subseteq Mishap
    BY DEF Call, Mishap
  <2>4. CASE Leave(a) \/ LeaveFails(a)
    BY <2>1, <2>2, <2>3, <2>4 DEF Leave, LeaveFails, AgentsTyped
  <2>5. ASSUME NEW c \in {"deregister", "late"}, Deregister(a, c) \/ DeregisterFails(a, c)
        PROVE AgentsTyped'
    <3>1. calls' \in [Asset -> [Call -> Nat]]
      BY <2>1, <2>3, <2>5 DEF Deregister, DeregisterFails
    <3>2. tracker' \in [Asset -> Server \cup {Null}]
      BY <2>5 DEF Deregister, DeregisterFails, AgentsTyped
    <3>3. mishap' \in [Asset -> SUBSET Mishap]
      BY <2>2, <2>3, <2>5 DEF Deregister, DeregisterFails
    <3> QED BY <2>5, <3>1, <3>2, <3>3 DEF Deregister, DeregisterFails, AgentsTyped
  <2> QED BY <1>7, <2>4, <2>5 DEF Beside
<1> QED BY <1>2, <1>3, <1>4, <1>5, <1>6, <1>7 DEF ProvisioningNext

-----------------------------------------------------------------------------
(* The agents: every step *)

Steady(b) == /\ tracker'[b] = tracker[b] /\ (b \in domain' <=> b \in domain)
             /\ calls'[b] = calls[b] /\ mishap[b] \subseteq mishap'[b]

KeptInStep == \A b \in Asset : InStepAt(b)' /\ TakenOutAt(b)'

(* A step of one task, and of the agent of its asset. *)
LEMMA MoveKeeps ==
  ASSUME EngineInv, AgentsInv, NEW t \in Task, NEW r, NEW q, NEW a, Moves(t, r, q, a),
         Accompanies(t, r, q, a), tracked' = tracked,
         \A u \in Task : u # t => work'[u] = work[u],
         \A b \in Asset : b # a => Steady(b)
  PROVE  KeptInStep /\ Unregistered'
<1>1. Goes(t, r, q, a)
  BY DEF Moves
<1>2. InStepAt(a)' /\ TakenOutAt(a)'
  BY <1>1, HomeKept DEF AgentsInv, Goes
<1>3. ASSUME NEW b \in Asset, b # a PROVE InStepAt(b)' /\ TakenOutAt(b)'
  <2>1. \A u \in Task : Holds(u, b) \/ Holds(u, b)' => task'[u] = task[u] /\ work'[u] = work[u]
    BY <1>1, <1>3 DEF Goes, Others, Holds, Free, FreeTask
  <2> QED BY <1>1, <1>3, <2>1, AgentFrame DEF Goes, Untouched, Steady, AgentsInv
<1>4. a \in issued
  BY <1>1 DEF Goes, EngineInv, Unborn, Busy, Free, TaskRec, Pc, WorkerPc, KillerPc
<1>5. Unregistered'
  BY <1>1, <1>4 DEF Goes, Unregistered, AgentsInv, Steady
<1> QED BY <1>2, <1>3, <1>5 DEF KeptInStep

(* Nothing is registered, no attempt succeeds: the agent stays as it is. *)
LEMMA PlainStep ==
  ASSUME EngineInv, AgentsInv, NEW t \in Task, Moves(t, task[t], task'[t], task[t].id),
         task[t].pc # "configure", task[t].pc # "run" \/ task'[t].pc # "configure",
         task[t].op = "marked" => task[t].pc # "remove",
         UNCHANGED <<work, agents, aside>>
  PROVE  KeptInStep /\ Unregistered'
<1> DEFINE r == task[t]
           q == task'[t]
           a == r.id
<1>1. Moves(t, r, q, a) /\ Attempts(r, q) /\ r.pc # "configure" /\ (r.op = "marked" => r.pc # "remove")
      /\ (r.pc # "run" \/ q.pc # "configure")
  BY DEF Moves
<1>2. /\ tracker' = tracker /\ domain' = domain /\ calls' = calls /\ mishap' = mishap
      /\ tracked' = tracked /\ work' = work
  BY DEF agents, aside
<1> HIDE DEF r, q, a
<1>3. Accompanies(t, r, q, a)
  BY <1>1, <1>2 DEF Accompanies, Attempts
<1> QED BY <1>1, <1>2, <1>3, MoveKeeps DEF Steady

(* No other task, and no asset's record but a's, moves. *)
LEMMA NewAsset ==
  ASSUME EngineInv, AgentsInv, NEW a \in Asset, a \notin issued, issued' = issued \cup {a},
         Untouched(a), scars[a] \subseteq scars'[a], db'[a].status = "NEW",
         \A u \in Task : \/ task'[u] = task[u]
                         \/ task[u].pc = "free" /\ task'[u].id = a /\ task'[u].pc = "send",
         UNCHANGED <<work, agents, aside>>
  PROVE  KeptInStep /\ Unregistered'
<1>1. /\ tracker' = tracker /\ domain' = domain /\ calls' = calls /\ mishap' = mishap
      /\ tracked' = tracked /\ work' = work
  BY DEF agents, aside
<1>2. tracker[a] = Null /\ a \notin domain /\ calls[a]["leave"] = 0 /\ calls[a]["deregister"] = 0
  BY DEF AgentsInv, Unregistered, Call
<1>3. \A u \in Task : ~Holds(u, a)
  BY DEF EngineInv, Unborn, Busy, Holds
<1>4. TakenOutAt(a)'
  BY <1>1, <1>2 DEF TakenOutAt
<1>5. \A u \in Task : Holds(u, a)' => Following(u, a)'
  BY <1>3 DEF Holds, Free, Following, At
<1>6. InStepAt(a)'
  BY <1>1, <1>2, <1>5 DEF InStepAt
<1>7. ASSUME NEW b \in Asset, b # a PROVE InStepAt(b)' /\ TakenOutAt(b)'
  <2>1. \A u \in Task : Holds(u, b) \/ Holds(u, b)' => task'[u] = task[u]
    BY <1>7 DEF Holds, Free
  <2> QED BY <1>1, <1>7, <2>1, AgentFrame DEF Untouched, AgentsInv
<1>8. Unregistered'
  BY <1>1 DEF Unregistered, AgentsInv
<1> QED BY <1>4, <1>6, <1>7, <1>8 DEF KeptInStep

(* A round of the rescheduler. *)
LEMMA ScanKeeps ==
  ASSUME EngineInv, AgentsInv, Scan, UNCHANGED <<work, agents, aside>>
  PROVE  KeptInStep /\ Unregistered'
<1>1. /\ tracker' = tracker /\ domain' = domain /\ calls' = calls /\ mishap' = mishap
      /\ tracked' = tracked /\ work' = work
  BY DEF agents, aside
<1>2. db' = db /\ issued' = issued /\ scars' = Overlap(Due)
  BY DEF Scan
<1>3. PICK slot : \A t \in Task : \/ task'[t] = task[t]
                                  \/ \E a \in Due : slot[a] = t /\ Rescheduled(t, a)
  BY ScanTasks DEF EngineInv
<1>4. \A t \in Task : \/ task'[t] = task[t]
                      \/ \E a \in Due : /\ task[t].pc = "free" /\ task'[t].id = a
                                        /\ task'[t].op # "delete" /\ task'[t].pc = "listed"
  BY <1>3 DEF Rescheduled, Reads
<1>5. \A a \in Asset : scars[a] \subseteq scars'[a]
  BY <1>2 DEF Overlap
<1>6. ASSUME NEW b \in Asset, b \notin Due PROVE InStepAt(b)' /\ TakenOutAt(b)'
  <2>1. \A u \in Task : Holds(u, b) \/ Holds(u, b)' => task'[u] = task[u]
    BY <1>4, <1>6 DEF Holds, Free
  <2> QED BY <1>1, <1>2, <1>5, <2>1, AgentFrame DEF AgentsInv
<1>7. ASSUME NEW b \in Asset, b \in Due PROVE InStepAt(b)' /\ TakenOutAt(b)'
  <2>1. CASE Busy(b)
    <3>1. "overlap" \in scars'[b]
      BY <1>2, <1>7, <2>1 DEF Overlap
    <3> QED BY <3>1 DEF InStepAt, TakenOutAt, Met, ServiceScars
  <2>2. CASE ~Busy(b)
    <3>1. db[b] # NoDoc /\ db[b].status # "SERVER_CREATED"
      BY <1>7 DEF Due, NoDoc
    <3>2. \A u \in Task : ~Holds(u, b)
      BY <2>2 DEF Busy, Holds
    <3>3. \A u \in Task : Holds(u, b)' => task'[u].op # "delete" /\ task'[u].pc = "listed"
      BY <1>4, <3>2 DEF Holds, Free
    <3>4. ~Deleting(b) /\ ~Deleting(b)'
      BY <1>2, <3>1, <3>2, <3>3 DEF Deleting
    <3>5. \A kinds : Met(scars[b], kinds) => Met(scars'[b], kinds)
      BY <1>5, MetGrows
    <3>6. \A u \in Task : Holds(u, b)' => Following(u, b)'
      BY <3>3 DEF Following, At
    <3> QED BY <1>1, <1>2, <3>1, <3>4, <3>5, <3>6 DEF InStepAt, TakenOutAt, AgentsInv
  <2> QED BY <2>1, <2>2
<1>8. Unregistered'
  BY <1>1, <1>2 DEF Unregistered, AgentsInv
<1> QED BY <1>6, <1>7, <1>8 DEF KeptInStep

(* The steps of the engine that call no agent service. *)
LEMMA ElsewhereKeeps ==
  ASSUME EngineInv, AgentsInv, Elsewhere PROVE KeptInStep /\ Unregistered'
<1>1. Typed /\ Shaped /\ UNCHANGED <<work, agents, aside>>
  BY DEF Elsewhere, EngineInv
<1>2. ASSUME NEW a \in Asset, CreateAssetFails(a) PROVE KeptInStep /\ Unregistered'
  BY <1>1, <1>2, CreateFailsEffect, NewAsset DEF Blamed, Inserted
<1>3. ASSUME NEW a \in Asset, NEW t \in Task, CreateAsset(a, t) PROVE KeptInStep /\ Unregistered'
  BY <1>1, <1>3, CreateEffect, NewAsset DEF Others, Inserted
<1>4. CASE Dispatch
  <2>1. PICK t \in Task : task[t].pc = "queued" /\ Moves(t, task[t], task'[t], task[t].id)
    BY <1>4, DispatchMoves
  <2> QED BY <1>1, <2>1, PlainStep
<1>5. CASE Scan
  BY <1>1, <1>5, ScanKeeps
<1>6. CASE RescheduleDies
  <2>1. UNCHANGED <<db, task, scars, issued, work, tracker, domain, calls, mishap, tracked>>
    BY <1>1, <1>6 DEF RescheduleDies, agents, aside, history
  <2>2. ASSUME NEW b \in Asset PROVE InStepAt(b)' /\ TakenOutAt(b)'
    BY <2>1, AgentFrame DEF AgentsInv
  <2> QED BY <2>1, <2>2 DEF KeptInStep, Unregistered, AgentsInv
<1>7. ASSUME NEW t \in Task,
             \/ SendRequest(t) \/ Start(t) \/ StartFails(t) \/ RunServerFails(t)
             \/ Cleanup(t) \/ Finish(t) \/ Notify(t) \/ Record(t)
      PROVE  KeptInStep /\ Unregistered'
  <2>1. Worker(t) /\ task[t].pc \notin {"configure", "remove"}
    BY <1>7 DEF Worker, SendRequest, Start, StartFails, RunServerFails, Cleanup, Finish,
                Notify, Record
  <2>2. task[t].pc # "run" \/ task'[t].pc # "configure"
    <3>1. RunServerFails(t) => task'[t].pc # "configure"
      BY <1>1, RunServerFailsEffect DEF Retried, Becomes
    <3> QED BY <1>7, <3>1 DEF SendRequest, Start, StartFails, Cleanup, Finish, Notify, Record
  <2> QED BY <1>1, <2>1, <2>2, WorkerMoves, PlainStep
<1>8. ASSUME NEW t \in Task,
             \/ LookUp(t) \/ ListFails(t) \/ LookUpFails(t) \/ Kill(t) \/ KillFails(t)
             \/ Detach(t) \/ Take(t)
      PROVE  KeptInStep /\ Unregistered'
  <2>1. /\ Killer(t) \/ Detach(t) \/ Take(t)
        /\ task[t].pc \in KillerPc \cup {"listed"}
        /\ task[t].pc = "remove" => task[t].detach
    BY <1>8 DEF Killer, LookUp, LookingUp, ListFails, LookUpFails, Kill, KillFails, Detach,
                Take, KillerPc
  <2>2. task[t].op = "marked" => task[t].pc # "remove"
    BY <2>1, TaskGoes DEF ShapedTask
  <2>3. task[t].pc # "configure" /\ task[t].pc # "run"
    BY <2>1 DEF KillerPc
  <2> QED BY <1>1, <2>1, <2>2, <2>3, KillerMoves, PlainStep
<1> QED BY <1>2, <1>3, <1>4, <1>5, <1>6, <1>7, <1>8 DEF Elsewhere

(* The process ends. *)
LEMMA RestartKeeps ==
  ASSUME EngineInv, AgentsInv, Restart PROVE KeptInStep /\ Unregistered'
<1>1. /\ tracker' = tracker /\ domain' = domain /\ tracked' = tracked /\ db' = db
      /\ issued' = issued /\ \A t \in Task : task'[t] = FreeTask
      /\ \A a \in Asset : /\ scars'[a] = IF Busy(a) THEN scars[a] \cup {"crash"} ELSE scars[a]
                          /\ \A c \in Call : calls'[a][c] = 0
                          /\ mishap'[a] = IF \E c \in Call : calls[a][c] > 0
                                          THEN mishap[a] \cup {"left"} ELSE mishap[a]
  BY DEF Restart, Crash, agents
<1>2. \A t \in Task, a \in Asset : ~Holds(t, a)'
  BY <1>1 DEF Holds, Free, FreeTask
<1>3. {"leave", "deregister"} \subseteq Call
  BY DEF Call
<1>4. ASSUME NEW b \in Asset PROVE InStepAt(b)' /\ TakenOutAt(b)'
  <2>1. CASE Busy(b)
    BY <1>1, <2>1 DEF InStepAt, TakenOutAt, Met, ServiceScars
  <2>2. CASE ~Busy(b)
    <3>1. scars'[b] = scars[b] /\ mishap[b] \subseteq mishap'[b]
      BY <1>1, <2>2
    <3>2. Deleting(b)' <=> Deleting(b)
      BY <1>1, <1>2, <2>2 DEF Deleting, Busy, Holds
    <3>3. \A s : InService(b, s) => (tracker'[b] = s \/ "late" \in mishap'[b]) /\ b \in domain'
      BY <1>1, <3>1 DEF InService, Registered
    <3>4. InStepAt(b)'
      <4>1. ~(calls'[b]["leave"] > 0) /\ ~(calls'[b]["deregister"] > 0)
        <5>1. calls'[b]["leave"] = 0 /\ calls'[b]["deregister"] = 0
          BY <1>1, <1>3
        <5> QED BY <5>1
      <4>2. b \in tracked' /\ ~Met(scars'[b], ServiceScars) =>
              (db'[b].status = "SERVER_CREATED" => Deleting(b)' \/ InService(b, db'[b].server))
        BY <1>1, <3>1, <3>2 DEF InStepAt, AgentsInv
      <4>3. b \in tracked' /\ ~Met(scars'[b], ServiceScars) =>
              (db[b].status = "SERVER_CREATED" => Deleting(b) \/ InService(b, db[b].server))'
        BY <3>3, <4>2 DEF InService, Registered
      <4>4. (\A t \in Task : Holds(t, b) => Following(t, b))'
        BY <1>2
      <4> QED BY <4>1, <4>3, <4>4 DEF InStepAt
    <3>5. "left" \notin mishap'[b] =>
            /\ "left" \notin mishap[b]
            /\ ~(calls[b]["leave"] > 0) /\ ~(calls[b]["deregister"] > 0)
      BY <1>1, <1>3
    <3>6. TakenOutAt(b)'
      BY <1>1, <3>1, <3>2, <3>5 DEF TakenOutAt, AgentsInv
    <3> QED BY <3>4, <3>6
  <2> QED BY <2>1, <2>2
<1>5. Unregistered'
  BY <1>1 DEF Unregistered, AgentsInv
<1> QED BY <1>4, <1>5 DEF KeptInStep


(* The calls of one attempt. *)
LEMMA StandsStill ==
  ASSUME EngineInv, NEW t \in Task, UNCHANGED vars, task[t].pc = "configure"
  PROVE  /\ Moves(t, task[t], task[t], task[t].id)
         /\ task[t] \in TaskRec /\ task' = task /\ task'[t] = task[t]
<1>1. UNCHANGED <<db, task, scars, issued>>
  BY DEF vars, sysvars, history
<1>2. task[t] \in TaskRec
  BY ActiveTask DEF EngineInv, Typed
<1>3. Goes(t, task[t], task[t], task[t].id) /\ Attempts(task[t], task[t])
  BY <1>1, <1>2 DEF Goes, Others, Untouched, TaskRec, Attempts
<1> QED BY <1>1, <1>2, <1>3, RecordKept

LEMMA WorkGoes ==
  ASSUME AgentsInv, NEW t \in Task, NEW w, Goto(t, w)
  PROVE  work'[t] = w /\ \A u \in Task : u # t => work'[u] = work[u]
BY DEF Goto, AgentsInv, AgentsTyped

LEMMA ProvisionKeeps ==
  ASSUME EngineInv, AgentsInv, NEW t \in Task, Provision(t)
  PROVE  KeptInStep /\ Unregistered'
<1> DEFINE r == task[t]
           q == task'[t]
           a == r.id
<1>1. Typed
  BY DEF EngineInv
<1>2. CASE \E s \in Server : CreateInstance(t, s)
  <2>1. PICK s \in Server : CreateInstance(t, s)
    BY <1>2
  <2>2. Moves(t, r, q, a) /\ r.pc = "run"
    BY <2>1, WorkerMoves, RunServerEffect, <1>1 DEF CreateInstance, Worker
  <2>3. work'[t] # "join" /\ \A u \in Task : u # t => work'[u] = work[u]
    BY <2>1, WorkGoes DEF CreateInstance
  <2>4. tracked' = tracked /\ tracker' = tracker /\ domain' = domain /\ calls' = calls /\ mishap' = mishap
    BY <2>1 DEF CreateInstance, agents, aside
  <2> HIDE DEF r, q, a
  <2>5. Accompanies(t, r, q, a)
    BY <2>2, <2>3, <2>4 DEF Accompanies, Moves, Attempts
  <2> QED BY <2>2, <2>3, <2>4, <2>5, MoveKeeps DEF Steady
<1>3. CASE Started(t) \/ Attached(t) \/ NotAllocated(t) \/ (Shown(t) /\ UNCHANGED vars)
  <2>1. r.pc = "configure" /\ UNCHANGED vars
    BY <1>3 DEF Started, Attached, NotAllocated, Shown, At
  <2>2. Moves(t, r, r, a) /\ task'[t] = r
    BY <2>1, StandsStill
  <2>3. work'[t] # "join" /\ \A u \in Task : u # t => work'[u] = work[u]
    <3>1. CASE Started(t) \/ Attached(t) \/ NotAllocated(t)
      BY <3>1, WorkGoes DEF Started, Attached, NotAllocated
    <3>2. CASE Shown(t) /\ UNCHANGED vars
      BY <3>2, WorkGoes DEF Shown
    <3> QED BY <1>3, <3>1, <3>2
  <2>4. tracked' = tracked /\ tracker' = tracker /\ domain' = domain /\ calls' = calls /\ mishap' = mishap
    BY <1>3 DEF Started, Attached, NotAllocated, Shown, agents, aside
  <2> HIDE DEF r, q, a
  <2>5. Accompanies(t, r, r, a)
    BY <2>1, <2>3, <2>4 DEF Accompanies
  <2> QED BY <2>2, <2>3, <2>4, <2>5, MoveKeeps DEF Steady
<1>4. CASE Shown(t) /\ ~UNCHANGED vars
  <2>1. r.pc = "configure" /\ a \notin tracked /\ Configure(t) /\ Goto(t, "none")
    BY <1>4 DEF Shown, At
  <2>2. Moves(t, r, q, a) /\ q.pc = "finish"
    BY <1>1, <2>1, WorkerMoves, ConfigureEffect DEF Worker, Becomes
  <2>3. \A u \in Task : u # t => work'[u] = work[u]
    BY <2>1, WorkGoes
  <2>4. tracked' = tracked /\ tracker' = tracker /\ domain' = domain /\ calls' = calls /\ mishap' = mishap
    BY <1>4 DEF Shown, agents, aside
  <2> HIDE DEF r, q, a
  <2>5. Accompanies(t, r, q, a)
    BY <2>1, <2>2, <2>4 DEF Accompanies
  <2> QED BY <2>2, <2>3, <2>4, <2>5, MoveKeeps DEF Steady
<1>5. CASE Register(t)
  <2>1. r.pc = "configure" /\ UNCHANGED vars
    BY <1>5 DEF Register, At
  <2>2. Moves(t, r, r, a) /\ r \in TaskRec
    BY <2>1, StandsStill
  <2>3. \A u \in Task : u # t => work'[u] = work[u]
    BY <1>5, WorkGoes DEF Register
  <2>4. /\ tracked' = tracked /\ domain' = domain /\ calls' = calls /\ mishap' = mishap
        /\ tracker' = [tracker EXCEPT ![a] = r.entity]
    BY <1>5 DEF Register, Registration, aside
  <2>5. tracker'[a] = r.entity /\ \A b \in Asset : b # a => tracker'[b] = tracker[b]
    BY <2>2, <2>4 DEF TaskRec, AgentsInv, AgentsTyped
  <2> HIDE DEF r, q, a
  <2>6. Accompanies(t, r, r, a)
    BY <2>1, <2>4, <2>5 DEF Accompanies
  <2> QED BY <2>2, <2>3, <2>4, <2>5, <2>6, MoveKeeps DEF Steady
<1>6. CASE Join(t)
  <2>1. r.pc = "configure" /\ At(t, {"join"}) /\ Configure(t) /\ Goto(t, "none")
    BY <1>6 DEF Join, At
  <2>2. /\ Moves(t, r, q, a) /\ q.pc = "finish" /\ q.server = r.entity
    BY <1>1, <2>1, WorkerMoves, ConfigureEffect DEF Worker, Becomes
  <2>3. \A u \in Task : u # t => work'[u] = work[u]
    BY <2>1, WorkGoes
  <2>4. /\ tracked' = tracked /\ tracker' = tracker /\ domain' = domain \cup {a}
        /\ calls' = calls /\ mishap' = mishap
    BY <1>6 DEF Join, aside
  <2>5. a \in tracked /\ ~Met(scars[a], ServiceScars) => tracker[a] = r.entity \/ "late" \in mishap[a]
    BY <2>1, <2>2 DEF AgentsInv, InStepAt, Following, Registered, Moves, Goes, Holds, Free
  <2> HIDE DEF r, q, a
  <2>6. Met(scars[a], ServiceScars) => Met(scars'[a], ServiceScars)
    BY <2>2, MetGrows DEF Moves, Goes
  <2>7. Accompanies(t, r, q, a)
    BY <2>1, <2>2, <2>4, <2>5, <2>6 DEF Accompanies
  <2> QED BY <2>2, <2>3, <2>4, <2>7, MoveKeeps DEF Steady
<1>7. CASE AttachFails(t) \/ RegisterFails(t) \/ JoinFails(t) \/ ShowFails(t)
  <2>1. r.pc = "configure" /\ (GiveUp(t) \/ ShowFails(t)) /\ Goto(t, "none")
    BY <1>7 DEF AttachFails, RegisterFails, JoinFails, ShowFails, At, GiveUp
  <2>2. /\ Moves(t, r, q, a) /\ q.pc # "configure"
        /\ q.pc = "finish" => q.status # "SERVER_CREATED"
    BY <2>1, GiveUpMoves
  <2>3. \A u \in Task : u # t => work'[u] = work[u]
    BY <2>1, WorkGoes
  <2>4. /\ tracked' = tracked /\ mishap' = mishap
        /\ tracker' \in {tracker, [tracker EXCEPT ![a] = r.entity]}
        /\ domain' \in {domain, domain \cup {a}}
        /\ calls' \in {calls, [calls EXCEPT ![a]["late"] = @ + 1]}
    BY <1>7 DEF AttachFails, RegisterFails, JoinFails, ShowFails, Registration, Spawn, agents, aside
  <2> HIDE DEF r, q, a
  <2>5. a \in Asset /\ \A b \in Asset : b # a => Steady(b)
    BY <2>2, <2>4 DEF Steady, Moves, Goes, AgentsInv, AgentsTyped
  <2>6. calls'[a]["leave"] = calls[a]["leave"] /\ calls'[a]["deregister"] = calls[a]["deregister"]
    BY <2>4, <2>5 DEF AgentsInv, AgentsTyped, Call
  <2>7. Accompanies(t, r, q, a)
    BY <2>1, <2>2, <2>4, <2>6 DEF Accompanies
  <2> QED BY <2>2, <2>3, <2>4, <2>5, <2>7, MoveKeeps
<1> QED BY <1>2, <1>3, <1>4, <1>5, <1>6, <1>7 DEF Provision

(* The rescheduler removes a record, and nothing of its agent. *)
LEMMA UnrecordKeeps ==
  ASSUME EngineInv, AgentsInv, NEW t \in Task, Unrecord(t) PROVE KeptInStep /\ Unregistered'
<1> DEFINE r == task[t]
           q == task'[t]
           a == r.id
<1>1. Remove(t) /\ r.pc = "remove"
  BY DEF Unrecord, Remove
<1>2. Moves(t, r, q, a) /\ a \in Asset
  BY <1>1, KillerMoves DEF Killer, Moves, Goes
<1>3. q.pc # "configure" /\ q.pc # "finish"
  BY <1>1, RemoveEffect DEF EngineInv, Finished, Becomes, FreeTask
<1>4. /\ tracked' = tracked /\ tracker' = tracker /\ domain' = domain /\ calls' = calls
      /\ work' = work
      /\ Befalls(a, IF r.op = "marked" THEN {"left"} ELSE {})
  BY DEF Unrecord, agents
<1> HIDE DEF r, q, a
<1>5. /\ \A b \in Asset : mishap[b] \subseteq mishap'[b]
      /\ r.op = "marked" => "left" \in mishap'[a]
  BY <1>2, <1>4 DEF Befalls, AgentsInv, AgentsTyped
<1>6. Accompanies(t, r, q, a)
  BY <1>1, <1>2, <1>3, <1>4, <1>5 DEF Accompanies, r
<1> QED BY <1>2, <1>4, <1>5, <1>6, MoveKeeps DEF Steady

(* An accepted deletion. *)
LEMMA DeleteKeeps ==
  ASSUME EngineInv, AgentsInv, NEW t \in Task, NEW a \in Asset, Delete(a, t)
  PROVE  KeptInStep /\ Unregistered'
<1>1. /\ db[a] # NoDoc /\ task[t].pc = "free" /\ Others(t)
      /\ Reads(task'[t], a, db[a], "delete", "lookup", TRUE)
      /\ scars' = Overlap({a})
      /\ UNCHANGED <<db, vertex, cloud, owner, issued>>
  BY DestroyEffect DEF Delete, EngineInv
<1>2. /\ tracked' = tracked /\ tracker' = tracker /\ domain' = domain /\ mishap' = mishap
      /\ work' = work
      /\ calls' = [calls EXCEPT ![a]["leave"] = 1, ![a]["deregister"] = 1]
  BY DEF Delete, agents
<1>3. /\ calls'[a]["leave"] = 1 /\ calls'[a]["deregister"] = 1
      /\ \A b \in Asset : b # a => calls'[b] = calls[b]
  BY <1>2 DEF AgentsInv, AgentsTyped, Call
<1>4. \A b \in Asset : scars[b] \subseteq scars'[b]
  BY <1>1 DEF Overlap
<1>5. ASSUME NEW b \in Asset, b # a PROVE InStepAt(b)' /\ TakenOutAt(b)'
  <2>1. \A u \in Task : Holds(u, b) \/ Holds(u, b)' => task'[u] = task[u]
    BY <1>1, <1>5 DEF Others, Holds, Free, Reads
  <2> QED BY <1>1, <1>2, <1>3, <1>4, <1>5, <2>1, AgentFrame DEF AgentsInv
<1>6. InStepAt(a)' /\ TakenOutAt(a)'
  <2>1. CASE Busy(a)
    <3>1. "overlap" \in scars'[a]
      BY <1>1, <2>1 DEF Overlap
    <3> QED BY <3>1 DEF InStepAt, TakenOutAt, Met, ServiceScars
  <2>2. CASE ~Busy(a)
    <3>1. \A u \in Task : Holds(u, a)' => u = t
      BY <1>1, <2>2 DEF Others, Holds, Busy, Free
    <3>2. Holds(t, a)' /\ task'[t].op = "delete" /\ task'[t].pc = "lookup"
      BY <1>1 DEF Reads, Holds, Free
    <3>3. Deleting(a)'
      BY <3>2 DEF Deleting
    <3>4. \A u \in Task : Holds(u, a)' => Following(u, a)'
      BY <3>1, <3>2 DEF Following, At
    <3>5. InStepAt(a)'
      BY <3>3, <3>4 DEF InStepAt
    <3>6. TakenOutAt(a)'
      BY <1>3 DEF TakenOutAt
    <3> QED BY <3>5, <3>6
  <2> QED BY <2>1, <2>2
<1>7. a \in issued
  BY <1>1 DEF EngineInv, Unborn
<1>8. Unregistered'
  BY <1>1, <1>2, <1>3, <1>7, ZenonT(40) DEF Unregistered, AgentsInv
<1> QED BY <1>5, <1>6, <1>8 DEF KeptInStep

(* No attempt is under way at an asset that is being deleted, if it is alone. *)
LEMMA NoAttempt ==
  ASSUME EngineInv, NEW a \in Asset, Alone(a), Deleting(a), NEW t \in Task, Holds(t, a)
  PROVE  task[t].pc # "configure" /\ task[t].pc # "finish"
<1>1. task[t] \in TaskRec /\ task[t].id = a /\ ShapedTask(task[t])
  BY ActiveTask DEF EngineInv, Typed, Holds, Free, Shaped
<1>2. FitsRecord(task[t], db[a], Live(a), scars[a])
  BY <1>1, HolderKnows
<1>3. CASE db[a] = NoDoc
  BY <1>2, <1>3 DEF FitsRecord
<1>4. CASE task[t].op = "delete"
  BY <1>1, <1>4 DEF ShapedTask, KillerPc
<1> QED BY <1>3, <1>4 DEF Deleting, EngineInv, Exclusive

(* The goroutines that run beside. *)
LEMMA BesideKeeps ==
  ASSUME EngineInv, AgentsInv, NEW a \in Asset, Beside(a)
  PROVE  KeptInStep /\ Unregistered'
<1>1. UNCHANGED <<db, task, scars, issued, work, tracked>>
  BY DEF Beside, Deregister, DeregisterFails, Leave, LeaveFails, vars, sysvars, history
<1>2. PICK c \in Call :
        /\ Ends(a, c)
        /\ c = "late" => "late" \in mishap'[a]
        /\ IF c = "leave"
             THEN tracker' = tracker /\ (a \notin domain' \/ "left" \in mishap'[a])
             ELSE domain' = domain /\ (tracker'[a] = Null \/ "left" \in mishap'[a])
  <2>1. "leave" \in Call /\ {"deregister", "late"} \subseteq Call
    BY DEF Call
  <2>2. \A m : Befalls(a, m) => mishap'[a] = mishap[a] \cup m
    BY DEF Befalls, AgentsInv, AgentsTyped
  <2>3. CASE Leave(a) \/ LeaveFails(a)
    BY <2>1, <2>2, <2>3 DEF Leave, LeaveFails
  <2>4. ASSUME NEW e \in {"deregister", "late"}, Deregister(a, e) \/ DeregisterFails(a, e)
        PROVE  /\ Ends(a, e) /\ (e = "late" => "late" \in mishap'[a]) /\ domain' = domain
               /\ tracker'[a] = Null \/ "left" \in mishap'[a]
    BY <2>2, <2>4 DEF Deregister, DeregisterFails, AgentsInv, AgentsTyped
  <2> QED BY <2>1, <2>3, <2>4 DEF Beside
<1>3. /\ \A b \in Asset : b # a => calls'[b] = calls[b]
      /\ \A e \in Call : calls'[a][e] > 0 => calls[a][e] > 0
      /\ \A e \in Call : e # c => calls'[a][e] = calls[a][e]
      /\ calls[a][c] > 0
  <2>1. calls[a] \in [Call -> Nat] /\ calls' = [calls EXCEPT ![a] = [calls[a] EXCEPT ![c] = calls[a][c] - 1]]
    BY <1>2 DEF Ends, AgentsInv, AgentsTyped
  <2>2. calls'[a] = [calls[a] EXCEPT ![c] = calls[a][c] - 1]
    BY <2>1 DEF AgentsInv, AgentsTyped
  <2>3. \A b \in Asset : b # a => calls'[b] = calls[b]
    BY <2>1 DEF AgentsInv, AgentsTyped
  <2>4. calls[a][c] > 0
    BY <1>2 DEF Ends
  <2> QED BY <2>1, <2>2, <2>3, <2>4
<1>4. /\ \A b \in Asset : b # a => /\ tracker'[b] = tracker[b]
                                   /\ (b \in domain') <=> (b \in domain)
      /\ \A b \in Asset : mishap[b] \subseteq mishap'[b]
  BY DEF Beside, Deregister, DeregisterFails, Leave, LeaveFails, Befalls, AgentsInv, AgentsTyped
<1>5. ASSUME NEW b \in Asset, b # a PROVE InStepAt(b)' /\ TakenOutAt(b)'
  BY <1>1, <1>3, <1>4, <1>5, AgentFrame DEF AgentsInv
<1>6. calls[a]["leave"] > 0 => c = "leave" \/ calls'[a]["leave"] > 0
  BY <1>3 DEF Call
<1>7. Deleting(a)' <=> Deleting(a)
  BY <1>1 DEF Deleting, Holds, Free
<1>8. \A u \in Task : Holds(u, a)' <=> Holds(u, a)
  BY <1>1 DEF Holds, Free
<1>9. InStepAt(a)'
  <2> SUFFICES ASSUME a \in tracked, ~Met(scars[a], ServiceScars)
               PROVE  /\ (\A t \in Task : Holds(t, a) => Following(t, a))'
                      /\ (db[a].status = "SERVER_CREATED" => Deleting(a) \/ InService(a, db[a].server))'
                      /\ (calls[a]["leave"] > 0 \/ calls[a]["deregister"] > 0 => Deleting(a))'
    BY <1>1 DEF InStepAt
  <2>1. /\ \A t \in Task : Holds(t, a) => Following(t, a)
        /\ db[a].status = "SERVER_CREATED" => Deleting(a) \/ InService(a, db[a].server)
        /\ calls[a]["leave"] > 0 \/ calls[a]["deregister"] > 0 => Deleting(a)
        /\ Alone(a)
    BY DEF AgentsInv, InStepAt, Met, ServiceScars, Alone
  <2>2. (calls[a]["leave"] > 0 \/ calls[a]["deregister"] > 0 => Deleting(a))'
    BY <1>3, <1>7, <2>1 DEF Call
  <2>3. CASE c = "late"
    <3>1. domain' = domain /\ "late" \in mishap'[a]
      BY <1>2, <2>3
    <3>2. \A t \in Task : Following(t, a) => Following(t, a)'
      BY <1>1, <3>1 DEF Following, At, Registered, InService
    <3>3. (db[a].status = "SERVER_CREATED" => Deleting(a) \/ InService(a, db[a].server))'
      BY <1>1, <1>7, <2>1, <3>1 DEF Registered, InService
    <3> QED BY <1>8, <2>1, <2>2, <3>2, <3>3
  <2>4. CASE c # "late"
    <3>1. Deleting(a)
      BY <1>3, <2>1, <2>4 DEF Call
    <3>2. \A t \in Task : Holds(t, a) => task[t].pc # "configure" /\ task[t].pc # "finish"
      BY <2>1, <3>1, NoAttempt
    <3>3. (\A t \in Task : Holds(t, a) => Following(t, a))'
      BY <1>1, <1>8, <3>2 DEF Following, At
    <3> QED BY <1>7, <2>2, <3>1, <3>3
  <2> QED BY <2>3, <2>4
<1>10. TakenOutAt(a)'
  <2>1. TakenOutAt(a)
    BY DEF AgentsInv
  <2>2. "left" \notin mishap'[a] => "left" \notin mishap[a]
    BY <1>4
  <2>3. CASE c = "leave"
    BY <1>1, <1>2, <1>3, <1>7, <2>1, <2>2, <2>3 DEF TakenOutAt, Call
  <2>4. CASE c # "leave"
    BY <1>1, <1>2, <1>3, <1>7, <2>1, <2>2, <2>4 DEF TakenOutAt, Call
  <2> QED BY <2>3, <2>4
<1>11. a \in issued
  BY <1>3 DEF AgentsInv, Unregistered, AgentsTyped
<1>12. Unregistered'
  BY <1>1, <1>3, <1>4, <1>11 DEF Unregistered, AgentsInv
<1> QED BY <1>5, <1>9, <1>10, <1>12 DEF KeptInStep

-----------------------------------------------------------------------------
(* The agents: the invariant holds, and what follows from it *)

LEMMA AgentsInductive == EngineInv /\ AgentsInv /\ [ProvisioningNext]_pvars => AgentsInv'
<1> SUFFICES ASSUME EngineInv, AgentsInv, [ProvisioningNext]_pvars PROVE AgentsInv'
  OBVIOUS
<1>1. AgentsTyped'
  BY AgentsStayTyped DEF EngineInv, AgentsInv
<1>2. KeptInStep /\ Unregistered'
  <2>1. CASE UNCHANGED pvars
    <3>1. UNCHANGED <<db, task, scars, issued, work, tracked, tracker, domain, calls, mishap>>
      BY <2>1 DEF pvars, vars, sysvars, history, agents, aside
    <3>2. \A b \in Asset : InStepAt(b)' /\ TakenOutAt(b)'
      BY <3>1, AgentFrame DEF AgentsInv
    <3> QED BY <3>1, <3>2 DEF KeptInStep, Unregistered, AgentsInv
  <2>2. CASE ProvisioningNext
    BY <2>2, ElsewhereKeeps, RestartKeeps, ProvisionKeeps, UnrecordKeeps, DeleteKeeps,
       BesideKeeps DEF ProvisioningNext
  <2> QED BY <2>1, <2>2
<1> QED BY <1>1, <1>2 DEF AgentsInv, KeptInStep

LEMMA AgentsInitially == ProvisioningInit => AgentsInv
<1> SUFFICES ASSUME ProvisioningInit PROVE AgentsInv
  OBVIOUS
<1>1. AgentsTyped
  BY DEF ProvisioningInit, AgentsTyped, Work, Call, Mishap
<1>2. Unregistered
  BY DEF ProvisioningInit, Unregistered
<1>3. \A t \in Task, a \in Asset : ~Holds(t, a)
  BY DEF ProvisioningInit, Init, FreeTask, Holds, Free
<1>4. \A a \in Asset : InStepAt(a) /\ TakenOutAt(a)
  <2> SUFFICES ASSUME NEW a \in Asset PROVE InStepAt(a) /\ TakenOutAt(a)
    OBVIOUS
  <2>1. /\ db[a].status = "NONE" /\ tracker[a] = Null /\ domain = {}
        /\ calls[a]["leave"] = 0 /\ calls[a]["deregister"] = 0
    BY DEF ProvisioningInit, Init, NoDoc, Call
  <2>2. InStepAt(a)
    BY <1>3, <2>1 DEF InStepAt
  <2>3. TakenOutAt(a)
    BY <2>1 DEF TakenOutAt
  <2> QED BY <2>2, <2>3
<1> QED BY <1>1, <1>2, <1>4 DEF AgentsInv

(* The agents' invariant holds, for all constants: the agent follows its asset. *)
THEOREM AgentsStayInOrder == ProvisioningSpec => []AgentsInv
BY AgentsInitially, AgentsInductive, AlwaysEngineInv, PTL DEF ProvisioningSpec

(* The agent of a server in service is registered for that very server and
   managed in the domain, mishaps aside (RegisterStormAgent, DomainAddAgent,
   the DelNotification consumer). *)
THEOREM AgentsServe == ProvisioningSpec => []AgentInService
<1>1. EngineInv /\ AgentsInv => AgentInService
  <2> SUFFICES ASSUME EngineInv, AgentsInv, NEW a \in tracked,
                      db[a].status = "SERVER_CREATED", Quiet(a), "late" \notin mishap[a],
                      scars[a] \cap {"overlap", "provider", "write", "crash"} = {}
               PROVE  tracker[a] = db[a].server /\ a \in domain
    BY DEF AgentInService
  <2>1. a \in Asset /\ InStepAt(a) /\ ~Met(scars[a], ServiceScars)
    BY DEF AgentsInv, AgentsTyped, Met, ServiceScars
  <2>2. ~Deleting(a)
    BY DEF Deleting, NoDoc, Quiet, Busy, Holds
  <2> QED BY <2>1, <2>2 DEF InStepAt, InService, Registered
<1> QED BY <1>1, AgentsStayInOrder, AlwaysEngineInv, PTL

(* An asset that is no more leaves no agent behind, unless the call that was
   to take it out failed, was lost or is never made (terminateFailedResource). *)
THEOREM AgentsLeave == ProvisioningSpec => []NoStrayAgent
<1>1. EngineInv /\ AgentsInv => NoStrayAgent
  <2> SUFFICES ASSUME EngineInv, AgentsInv, NEW a \in issued,
                      db[a] = NoDoc, Quiet(a), "left" \notin mishap[a],
                      scars[a] \cap {"overlap", "crash"} = {}
               PROVE  tracker[a] = Null /\ a \notin domain
    BY DEF NoStrayAgent
  <2>1. a \in Asset /\ TakenOutAt(a) /\ ~Met(scars[a], {"overlap", "crash"})
    BY DEF AgentsInv, EngineInv, Typed, TypeOK, Met
  <2>2. calls[a]["leave"] = 0 /\ calls[a]["deregister"] = 0
    BY DEF Quiet, Call
  <2> QED BY <2>1, <2>2 DEF TakenOutAt, Deleting
<1> QED BY <1>1, AgentsStayInOrder, AlwaysEngineInv, PTL
=============================================================================
