-------------------------- MODULE NovaFloatingIPProofs --------------------------
(***************************************************************************)
(* Who may lose an address to whom, for any number of workers, addresses   *)
(* and floating IPs, whatever calls of the cloud fail.                     *)
(***************************************************************************)
EXTENDS NovaFloatingIP, FiniteSetTheorems, TLAPS

Step(w) == Built(w) \/ Deprovision(w) \/ Working(w)

(* A floating IP that is gone is on no server. *)
GoneIsOff == \A i \in Id : addr[i] = Null => on[i] = Null

(* What a worker's phase says of the rest of its state. *)
Orderly(w) ==
  /\ worker[w].pc \notin {"find", "release"} => worker[w].todo = {}
  /\ worker[w].pc \in {"look", "readd", "forget", "drop", "track"} => w \in Remedial
  /\ worker[w].pc \in {"release", "drop", "add", "undo"} => worker[w].held \in Id
  /\ worker[w].pc = "add" => worker[w].ip \in Address
  /\ worker[w].pc = "drop" => addr[worker[w].held] \in {old[w], Null}

(* The floating IPs a worker has in mind to release. *)
Listed(w) == worker[w].todo \cup
             (IF worker[w].pc = "release" THEN {worker[w].held} ELSE {})

(* One of them is on a server only if it was attached since the worker looked. *)
Looked(w) == \A i \in Listed(w) : on[i] # Null => "late" \in met[w]

(* The one it releases is under remediation only if it has been since it looked. *)
Noted(w) ==
  worker[w].pc = "release" /\ addr[worker[w].held] \in tracked => "late" \in met[w]

IInv == /\ TypeOK /\ GoneIsOff
        /\ \A w \in Worker : Orderly(w) /\ Looked(w) /\ Noted(w)

-----------------------------------------------------------------------------
LEMMA IdleIsTyped == Idle \in WorkerRec
  BY DEF Idle, Afresh, WorkerRec, Phase

(* Records of the types a step makes of a worker's. *)
LEMMA RecTyped ==
  ASSUME TypeOK, NEW w \in Worker
  PROVE  /\ worker[w] \in WorkerRec
         /\ \A p \in Phase : [worker[w] EXCEPT !.pc = p] \in WorkerRec
  BY DEF TypeOK, WorkerRec

(* Types and phases of a worker after each of its steps; the other workers keep
   theirs. *)
LEMMA OthersWait ==
  ASSUME TypeOK, NEW w \in Worker, Step(w)
  PROVE  /\ \A v \in Worker \ {w} : worker'[v] = worker[v]
         /\ worker' = [v \in Worker |-> worker'[v]]
<1>1. worker \in [Worker -> WorkerRec]
  BY DEF TypeOK
<1>2. CASE Built(w)
  BY <1>1, <1>2 DEF Built, Goes
<1>3. CASE Deprovision(w)
  BY <1>1, <1>3 DEF Deprovision
<1>4. CASE AttachStep(w)
  BY <1>1, <1>4 DEF AttachStep, Allocate, ListFree, Find, Release, Add, Undo, Goes,
                    NextRound, AttachReturns
<1>5. CASE RetainStep(w)
  BY <1>1, <1>5 DEF RetainStep, Look, ReAdd, Forget, Goes
<1>6. CASE DeprovisionStep(w)
  BY <1>1, <1>6 DEF DeprovisionStep, Dettach, Drop, Track, DeleteServer, Goes
<1>7. CASE Provisioned(w) \/ NotProvisioned(w)
  BY <1>1, <1>7 DEF Provisioned, NotProvisioned
<1> QED
  BY <1>2, <1>3, <1>4, <1>5, <1>6, <1>7 DEF Step, Working

(* What a step of one worker leaves to the others. *)
Respects(w) ==
  /\ \A i \in Id : addr'[i] \in {addr[i], Null} \/ i \notin Known
  /\ \A v \in Worker \ {w} : met[v] \subseteq met'[v]
  /\ \A v \in Remedial \ {w} : old'[v] = old[v]
  /\ \A v \in Worker \ {w} : \A i \in Listed(v) \cap Id :
       on'[i] # Null => on[i] # Null \/ "late" \in met'[v]
  /\ \A v \in Worker \ {w} :
       worker[v].pc = "release" /\ addr[worker[v].held] \in tracked'
         => addr[worker[v].held] \in tracked \/ "late" \in met'[v]

LEMMA MeetsRespects ==
  ASSUME TypeOK, NEW w \in Worker, NEW S, Meets(w, S)
  PROVE  \A v \in Worker : met[v] \subseteq met'[v]
  BY DEF Meets, TypeOK

LEMMA LateRespects ==
  ASSUME TypeOK, NEW V, Late(V)
  PROVE  \A v \in Worker : met[v] \subseteq met'[v] /\ (v \in V => "late" \in met'[v])
  BY DEF Late, TypeOK

(* An address is attached only behind the back of workers that are then late. *)
LEMMA AddRespects ==
  ASSUME TypeOK, NEW w \in Worker, NEW a, AddServerFloatingIP(w, a)
  PROVE  /\ \A v \in Worker : met[v] \subseteq met'[v]
         /\ \A v \in Worker \ {w} : \A i \in Listed(v) \cap Id :
              on'[i] # Null => on[i] # Null \/ "late" \in met'[v]
<1>1. PICK j \in Owned :
        /\ on' = [on EXCEPT ![j] = w]
        /\ Late({v \in Worker \ {w} : \/ j \in worker[v].todo
                                      \/ worker[v].pc = "release" /\ worker[v].held = j})
  BY DEF AddServerFloatingIP
<1> USE DEF Listed
<1>2. \A v \in Worker : met[v] \subseteq met'[v]
  BY <1>1, LateRespects
<1>3. \A v \in Worker \ {w} : j \in Listed(v) => "late" \in met'[v]
  BY <1>1, LateRespects
<1>4. ASSUME NEW v \in Worker \ {w}, NEW i \in Listed(v) \cap Id, on'[i] # Null
      PROVE  on[i] # Null \/ "late" \in met'[v]
  <2>1. CASE i = j
    BY <2>1, <1>3
  <2>2. CASE i # j
    <3>1. on'[i] = on[i]
      BY <2>2, <1>1 DEF TypeOK
    <3> QED
      BY <3>1, <1>4
  <2> QED
    BY <2>1, <2>2
<1> QED
  BY <1>2, <1>4

(* Whatever a worker does, the others lose no address they hold in mind, and are
   late when one they have listed is attached or tracked. *)
LEMMA StepRespects ==
  ASSUME IInv, NEW w \in Worker, Step(w)
  PROVE  Respects(w)
<1> USE DEF IInv
<1>1. \A v \in Worker : worker[v].pc = "release" => worker[v].held \in Id
  BY DEF Orderly
<1>2. CASE addr' = addr /\ on' = on /\ tracked' = tracked /\ old' = old
           /\ \A v \in Worker \ {w} : met[v] \subseteq met'[v]
  BY <1>2 DEF Respects
<1>3. CASE Allocate(w)
  <2>1. UNCHANGED <<on, tracked, old>>
    BY <1>3 DEF Allocate
  <2>2. \A v \in Worker \ {w} : met[v] \subseteq met'[v]
    <3>1. CASE met' = met
      BY <3>1
    <3>2. CASE Meets(w, {"fault"})
      BY <3>2, MeetsRespects
    <3>3. CASE met' = [v \in Worker |->
                 met[v] \cup (IF v # w THEN IF v \in Trying THEN {"beaten"} ELSE {}
                             ELSE IF worker'[w].pc = "list" THEN {"fault"} ELSE {})]
      BY <3>3
    <3> QED
      BY <1>3, <3>1, <3>2, <3>3 DEF Allocate
  <2>3. \A i \in Id : addr'[i] = addr[i] \/ i \notin Known
    BY <1>3 DEF Allocate, TypeOK
  <2> QED
    BY <2>1, <2>2, <2>3 DEF Respects
<1>4. CASE ListFree(w) \/ Find(w)
  BY <1>2, <1>4, MeetsRespects DEF ListFree, Find
<1>5. ASSUME NEW i, DeleteFloatingIP(i), tracked' = tracked, old' = old,
             \A v \in Worker \ {w} : met[v] \subseteq met'[v]
      PROVE  Respects(w)
  BY <1>5 DEF DeleteFloatingIP, Respects, TypeOK
<1>6. CASE Release(w)
  BY <1>5, <1>6, MeetsRespects DEF Release
<1>7. CASE Add(w)
  <2>1. UNCHANGED <<addr, tracked, old>>
    BY <1>7 DEF Add
  <2>2. CASE AddServerFloatingIP(w, worker[w].ip)
    BY <2>1, <2>2, AddRespects DEF Respects
  <2>3. CASE ~AddServerFloatingIP(w, worker[w].ip)
    BY <1>2, <2>1, <2>3, <1>7, MeetsRespects DEF Add, NotAdded
  <2> QED
    BY <2>2, <2>3
<1>8. CASE Undo(w)
  BY <1>5, <1>8 DEF Undo
<1>9. CASE Look(w)
  BY <1>2, <1>9 DEF Look
<1>10. CASE ReAdd(w)
  <2>1. UNCHANGED <<addr, tracked, old>>
    BY <1>10 DEF ReAdd
  <2>2. CASE AddServerFloatingIP(w, old[w])
    BY <2>1, <2>2, AddRespects DEF Respects
  <2>3. CASE ~AddServerFloatingIP(w, old[w])
    BY <1>2, <2>1, <2>3, <1>10 DEF ReAdd, NotAdded
  <2> QED
    BY <2>2, <2>3
<1>11. CASE Forget(w)
  BY <1>11 DEF Forget, Respects
<1>12. CASE Dettach(w)
  BY <1>2, <1>12 DEF Dettach, TypeOK
<1>13. CASE Drop(w)
  BY <1>5, <1>13 DEF Drop
<1>14. CASE Track(w)
  <2>1. UNCHANGED <<addr, on, old>> /\ tracked' = tracked \cup {old[w]}
    BY <1>14 DEF Track
  <2>2. \A v \in Worker : met[v] \subseteq met'[v]
    BY <1>14, LateRespects DEF Track
  <2>3. \A v \in Worker : worker[v].pc = "release" /\ addr[worker[v].held] = old[w]
                          => "late" \in met'[v]
    BY <1>14, LateRespects DEF Track
  <2> QED
    BY <2>1, <2>2, <2>3 DEF Respects
<1>15. CASE DeleteServer(w)
  <2>1. UNCHANGED <<addr, tracked, old, met>>
    BY <1>15 DEF DeleteServer
  <2>2. \A i \in Id : on'[i] # Null => on[i] # Null
    BY <1>15, PoolAssumption DEF DeleteServer, Abandon, TypeOK
  <2> QED
    BY <2>1, <2>2 DEF Respects
<1>16. CASE Provisioned(w)
  <2>1. UNCHANGED <<addr, on, tracked>>
    BY <1>16 DEF Provisioned
  <2>2. \A v \in Remedial \ {w} : old'[v] = old[v]
    BY <1>16 DEF Provisioned
  <2>3. \A v \in Worker \ {w} : met'[v] = met[v]
    BY <1>16 DEF Provisioned, TypeOK
  <2> QED
    BY <2>1, <2>2, <2>3 DEF Respects
<1>17. CASE NotProvisioned(w)
  <2>1. UNCHANGED <<addr, tracked, old>>
    BY <1>17 DEF NotProvisioned
  <2>2. \A i \in Id : on'[i] # Null => on[i] # Null
    BY <1>17, PoolAssumption DEF NotProvisioned, Abandon, TypeOK
  <2>3. \A v \in Worker \ {w} : met'[v] = met[v]
    BY <1>17 DEF NotProvisioned, TypeOK
  <2> QED
    BY <2>1, <2>2, <2>3 DEF Respects
<1>18. CASE Built(w) \/ Deprovision(w)
  BY <1>2, <1>18 DEF Built, Deprovision
<1> QED
  BY <1>3, <1>4, <1>6, <1>7, <1>8, <1>9, <1>10, <1>11, <1>12, <1>13, <1>14, <1>15,
     <1>16, <1>17, <1>18
     DEF Step, Working, AttachStep, RetainStep, DeprovisionStep

-----------------------------------------------------------------------------
(* The worker's own record after its step, and what it is then to know. *)
Sound(w) == /\ worker'[w] \in WorkerRec
            /\ Orderly(w)' /\ Looked(w)' /\ Noted(w)'

(* A worker that has nothing in mind knows nothing wrong. *)
LEMMA NothingInMind ==
  ASSUME NEW w \in Worker, NEW rec \in WorkerRec, worker'[w] = rec,
         rec.pc \notin {"find", "release"}, rec.todo = {},
         rec.pc \in {"look", "readd", "forget", "drop", "track"} => w \in Remedial,
         rec.pc \in {"drop", "add", "undo"} => rec.held \in Id,
         rec.pc = "add" => rec.ip \in Address,
         rec.pc = "drop" => addr'[rec.held] \in {old'[w], Null}
  PROVE  Sound(w)
  BY DEF Sound, Orderly, Looked, Noted, Listed

LEMMA AfreshIsTyped ==
  ASSUME NEW p \in Phase, NEW a \in Address \cup {Null}
  PROVE  Afresh(p, a) \in WorkerRec
  BY DEF Afresh, WorkerRec

LEMMA PhaseAndRound ==
  ASSUME NEW rec \in WorkerRec, NEW p \in Phase, NEW n \in 0..2
  PROVE  [rec EXCEPT !.pc = p, !.round = n] \in WorkerRec
  BY DEF WorkerRec

(* Attach returns. *)
LEMMA ReturnIsSound ==
  ASSUME TypeOK, NEW w \in Worker, NEW a \in Address \cup {Null}, AttachReturns(w, a)
  PROVE  Sound(w)
<1> DEFINE p == IF a = Null /\ ~worker[w].hidden THEN "dettach" ELSE "detail"
<1>1. p \in {"dettach", "detail"} /\ p \in Phase
  BY DEF Phase
<1>2. worker' = [worker EXCEPT ![w] = Afresh(p, a)]
  BY DEF AttachReturns
<1> HIDE DEF p
<1>3. worker'[w] = Afresh(p, a) /\ Afresh(p, a) \in WorkerRec
  BY <1>1, <1>2, AfreshIsTyped DEF TypeOK
<1>4. Afresh(p, a).pc = p /\ Afresh(p, a).todo = {}
  BY DEF Afresh
<1> QED
  BY <1>1, <1>3, <1>4, NothingInMind

(* A worker that only goes on has nothing new in mind. *)
LEMMA GoingIsSound ==
  ASSUME TypeOK, NEW w \in Worker, Orderly(w), NEW pc \in Phase, Goes(w, pc),
         worker[w].pc \notin {"find", "release"},
         pc \notin {"find", "release", "drop", "add", "undo"},
         pc \in {"look", "readd", "forget", "track"} => w \in Remedial
  PROVE  Sound(w)
<1> DEFINE rec == [worker[w] EXCEPT !.pc = pc]
<1>1. worker'[w] = rec
  BY DEF Goes, TypeOK
<1>2. rec \in WorkerRec /\ rec.pc = pc /\ rec.todo = {}
  BY RecTyped DEF Orderly, TypeOK, WorkerRec
<1> HIDE DEF rec
<1> QED
  BY <1>1, <1>2, NothingInMind

LEMMA NextRoundIsSound ==
  ASSUME TypeOK, NEW w \in Worker, worker[w].todo = {}, NextRound(w)
  PROVE  Sound(w)
<1>1. CASE AttachReturns(w, Null)
  BY <1>1, ReturnIsSound
<1>2. CASE worker' = [worker EXCEPT ![w] = [@ EXCEPT !.pc = "allocate", !.round = 1]]
  <2> DEFINE rec == [worker[w] EXCEPT !.pc = "allocate", !.round = 1]
  <2>1. worker'[w] = rec
    BY <1>2 DEF TypeOK
  <2>2. worker[w] \in WorkerRec
    BY DEF TypeOK
  <2>3. rec \in WorkerRec /\ rec.pc = "allocate" /\ rec.todo = {}
    <3>1. rec.pc = "allocate" /\ rec.todo = {}
      BY <2>2 DEF WorkerRec
    <3>2. rec \in WorkerRec
      <4>1. "allocate" \in Phase /\ 1 \in 0..2
        BY DEF Phase
      <4> QED
        BY <4>1, <2>2, PhaseAndRound
    <3> QED
      BY <3>1, <3>2
  <2> HIDE DEF rec
  <2> QED
    BY <2>1, <2>3, NothingInMind
<1> QED
  BY <1>1, <1>2 DEF NextRound

LEMMA BuiltIsSound ==
  ASSUME IInv, NEW w \in Worker, Built(w) \/ Deprovision(w) PROVE Sound(w)
<1> USE DEF IInv
<1>1. CASE Built(w)
  <2>1. "look" \in Phase /\ "allocate" \in Phase
    BY DEF Phase
  <2>2. worker[w].pc = "idle"
    BY <1>1 DEF Built
  <2>3. CASE w \in Remedial /\ Goes(w, "look")
    BY <2>1, <2>2, <2>3, GoingIsSound
  <2>4. CASE Goes(w, "allocate")
    BY <2>1, <2>2, <2>4, GoingIsSound
  <2> QED
    BY <1>1, <2>3, <2>4 DEF Built
<1>2. CASE Deprovision(w)
  <2> DEFINE rec == [worker[w] EXCEPT !.pc = "dettach", !.round = 2]
  <2>1. worker'[w] = rec
    BY <1>2 DEF Deprovision, TypeOK
  <2>2. worker[w] \in WorkerRec /\ "dettach" \in Phase /\ 2 \in 0..2
    BY DEF TypeOK, Phase
  <2>3. rec \in WorkerRec
    BY <2>2, PhaseAndRound
  <2>4. rec.pc = "dettach" /\ rec.todo = {}
    BY <2>2, <1>2 DEF Deprovision, WorkerRec, Orderly
  <2> HIDE DEF rec
  <2> QED
    BY <2>1, <2>3, <2>4, NothingInMind
<1> QED
  BY <1>1, <1>2

LEMMA AllocateIsSound ==
  ASSUME IInv, NEW w \in Worker, Allocate(w) PROVE Sound(w)
<1> USE DEF IInv
<1>1. worker[w].pc = "allocate" /\ worker[w] \in WorkerRec /\ worker[w].todo = {}
  BY DEF Allocate, Orderly, TypeOK
<1>2. CASE Goes(w, "list")
  <2>1. "list" \in Phase
    BY DEF Phase
  <2> QED
    BY <1>1, <1>2, <2>1, GoingIsSound
<1>3. ASSUME NEW i \in Id, NEW a \in Address,
             worker' = [worker EXCEPT ![w] = [@ EXCEPT !.pc = "add", !.held = i, !.ip = a]]
      PROVE  Sound(w)
  <2> DEFINE rec == [worker[w] EXCEPT !.pc = "add", !.held = i, !.ip = a]
  <2>1. worker'[w] = rec
    BY <1>3 DEF TypeOK
  <2>2. rec \in WorkerRec
    BY <1>1, <1>3 DEF WorkerRec, Phase
  <2>3. rec.pc = "add" /\ rec.todo = {} /\ rec.held = i /\ rec.ip = a
    BY <1>1 DEF WorkerRec
  <2> HIDE DEF rec
  <2> QED
    BY <1>3, <2>1, <2>2, <2>3, NothingInMind
<1> QED
  BY <1>2, <1>3 DEF Allocate

(* What is listed has no server at that time. *)
LEMMA ListFreeIsSound ==
  ASSUME IInv, NEW w \in Worker, ListFree(w) PROVE Sound(w)
<1> USE DEF IInv
<1>1. worker[w].pc = "list" /\ worker[w] \in WorkerRec /\ worker[w].todo = {}
  BY DEF ListFree, Orderly, TypeOK
<1>2. CASE NextRound(w)
  BY <1>1, <1>2, NextRoundIsSound
<1>3. CASE worker' = [worker EXCEPT ![w] =
             [@ EXCEPT !.pc = "find", !.todo = {i \in Owned : on[i] = Null}]]
  <2> DEFINE free == {i \in Owned : on[i] = Null}
             rec  == [worker[w] EXCEPT !.pc = "find", !.todo = free]
  <2>1. worker'[w] = rec
    BY <1>3 DEF TypeOK
  <2>2. free \subseteq Id /\ \A i \in free : on[i] = Null
    BY DEF Owned
  <2> HIDE DEF free
  <2>3. rec \in WorkerRec
    BY <1>1, <2>2 DEF WorkerRec, Phase
  <2>4. rec.pc = "find" /\ rec.todo = free
    BY <1>1 DEF WorkerRec
  <2>5. on' = on
    BY DEF ListFree
  <2> HIDE DEF rec
  <2> QED
    BY <2>1, <2>2, <2>3, <2>4, <2>5 DEF Sound, Orderly, Looked, Noted, Listed
<1> QED
  BY <1>2, <1>3 DEF ListFree

LEMMA FindIsSound ==
  ASSUME IInv, NEW w \in Worker, Find(w) PROVE Sound(w)
<1> USE DEF IInv
<1>1. worker[w].pc = "find" /\ worker[w] \in WorkerRec /\ worker[w].todo \subseteq Id
  BY DEF Find, TypeOK, WorkerRec
<1>2. \A i \in worker[w].todo : on[i] # Null => "late" \in met[w]
  BY <1>1 DEF Looked, Listed
<1>3. UNCHANGED <<addr, on, tracked, old>> /\ met[w] \subseteq met'[w]
  BY MeetsRespects DEF Find
<1>4. CASE worker[w].todo = {} /\ NextRound(w)
  BY <1>4, NextRoundIsSound
<1>5. ASSUME NEW i \in worker[w].todo,
             worker' = [worker EXCEPT ![w] = [@ EXCEPT !.todo = worker[w].todo \ {i}]]
      PROVE  Sound(w)
  <2> DEFINE rest == worker[w].todo \ {i}
             rec  == [worker[w] EXCEPT !.todo = rest]
  <2>1. worker'[w] = rec
    BY <1>5 DEF TypeOK
  <2>2. rest \subseteq worker[w].todo
    OBVIOUS
  <2> HIDE DEF rest
  <2>3. rec \in WorkerRec
    BY <1>1, <2>2 DEF WorkerRec
  <2>4. rec.pc = "find" /\ rec.todo = rest
    BY <1>1 DEF WorkerRec
  <2> HIDE DEF rec
  <2> QED
    BY <2>1, <2>2, <2>3, <2>4, <1>2, <1>3 DEF Sound, Orderly, Looked, Noted, Listed
<1>6. ASSUME NEW i \in worker[w].todo, addr[i] \notin tracked,
             worker' = [worker EXCEPT ![w] =
               [@ EXCEPT !.pc = "release", !.todo = worker[w].todo \ {i}, !.held = i]]
      PROVE  Sound(w)
  <2> DEFINE rest == worker[w].todo \ {i}
             rec  == [worker[w] EXCEPT !.pc = "release", !.todo = rest, !.held = i]
  <2>1. worker'[w] = rec
    BY <1>6 DEF TypeOK
  <2>2. rest \subseteq worker[w].todo /\ i \in Id
    BY <1>1
  <2> HIDE DEF rest
  <2>3. rec \in WorkerRec
    BY <1>1, <2>2 DEF WorkerRec, Phase
  <2>4. rec.pc = "release" /\ rec.todo = rest /\ rec.held = i
    BY <1>1 DEF WorkerRec
  <2> HIDE DEF rec
  <2> QED
    BY <2>1, <2>2, <2>3, <2>4, <1>2, <1>3, <1>6 DEF Sound, Orderly, Looked, Noted, Listed
<1> QED
  BY <1>4, <1>5, <1>6 DEF Find

LEMMA ReleaseIsSound ==
  ASSUME IInv, NEW w \in Worker, Release(w) PROVE Sound(w)
<1> USE DEF IInv
<1> DEFINE rec == [worker[w] EXCEPT !.pc = "find", !.held = Null]
<1>1. worker[w].pc = "release" /\ worker[w] \in WorkerRec /\ worker[w].todo \subseteq Id
  BY DEF Release, TypeOK, WorkerRec
<1>2. \A i \in worker[w].todo : on[i] # Null => "late" \in met[w]
  BY <1>1 DEF Looked, Listed
<1>3. worker'[w] = rec
  BY DEF Release, TypeOK
<1>4. rec \in WorkerRec
  BY <1>1 DEF WorkerRec, Phase
<1>5. rec.pc = "find" /\ rec.todo = worker[w].todo
  BY <1>1 DEF WorkerRec
<1>6. met[w] \subseteq met'[w]
  BY MeetsRespects DEF Release
<1>7. \A i \in Id : on'[i] # Null => on[i] # Null
  BY DEF Release, DeleteFloatingIP, TypeOK
<1> HIDE DEF rec
<1> QED
  BY <1>1, <1>2, <1>3, <1>4, <1>5, <1>6, <1>7 DEF Sound, Orderly, Looked, Noted, Listed

LEMMA AddIsSound ==
  ASSUME IInv, NEW w \in Worker, Add(w) \/ Undo(w) PROVE Sound(w)
<1> USE DEF IInv
<1>1. worker[w] \in WorkerRec /\ worker[w].todo = {}
  BY DEF Add, Undo, Orderly, TypeOK
<1>2. CASE Undo(w)
  BY <1>2, ReturnIsSound DEF Undo
<1>3. CASE Add(w) /\ AttachReturns(w, worker[w].ip)
  BY <1>3, ReturnIsSound DEF Add, Orderly
<1>4. CASE Add(w) /\ Goes(w, "undo")
  <2> DEFINE rec == [worker[w] EXCEPT !.pc = "undo"]
  <2>1. worker'[w] = rec
    BY <1>4 DEF Goes, TypeOK
  <2>2. rec \in WorkerRec
    BY RecTyped DEF Phase
  <2>3. rec.pc = "undo" /\ rec.todo = {} /\ rec.held = worker[w].held
    BY <1>1 DEF WorkerRec
  <2>4. worker[w].held \in Id
    BY <1>4 DEF Add, Orderly
  <2> HIDE DEF rec
  <2> QED
    BY <2>1, <2>2, <2>3, <2>4, NothingInMind
<1> QED
  BY <1>2, <1>3, <1>4 DEF Add

LEMMA RetainIsSound ==
  ASSUME IInv, NEW w \in Worker, RetainStep(w) PROVE Sound(w)
<1> USE DEF IInv
<1>1. /\ worker[w].pc \in {"look", "readd", "forget"} /\ worker[w] \in WorkerRec
      /\ worker[w].todo = {} /\ w \in Remedial
  BY DEF RetainStep, Look, ReAdd, Forget, Orderly, TypeOK
<1>2. ASSUME NEW p \in {"readd", "forget", "detail", "allocate"}, Goes(w, p) PROVE Sound(w)
  <2>1. p \in Phase
    BY DEF Phase
  <2> QED
    BY <1>1, <1>2, <2>1, GoingIsSound
<1>3. CASE worker' = [worker EXCEPT ![w] = [@ EXCEPT !.pc = "forget", !.hidden = TRUE]]
  <2> DEFINE rec == [worker[w] EXCEPT !.pc = "forget", !.hidden = TRUE]
  <2>1. worker'[w] = rec
    BY <1>3 DEF TypeOK
  <2>2. rec \in WorkerRec
    BY <1>1 DEF WorkerRec, Phase
  <2>3. rec.pc = "forget" /\ rec.todo = {}
    BY <1>1 DEF WorkerRec
  <2> HIDE DEF rec
  <2> QED
    BY <1>1, <2>1, <2>2, <2>3, NothingInMind
<1> QED
  BY <1>2, <1>3 DEF RetainStep, Look, ReAdd, Forget

(* ProvisionInstance's end. *)
LEMMA ProvisionedIsSound ==
  ASSUME IInv, NEW w \in Worker, Provisioned(w) \/ NotProvisioned(w) PROVE Sound(w)
<1> USE DEF IInv
<1>1. PICK p \in {"up", "dettach", "idle"} : worker' = [worker EXCEPT ![w] = Afresh(p, Null)]
  BY DEF Provisioned, NotProvisioned, Idle
<1>2. p \in Phase
  BY DEF Phase
<1>3. worker'[w] = Afresh(p, Null) /\ Afresh(p, Null) \in WorkerRec
  BY <1>1, <1>2, AfreshIsTyped DEF TypeOK
<1>4. Afresh(p, Null).pc = p /\ Afresh(p, Null).todo = {}
  BY DEF Afresh
<1> QED
  BY <1>3, <1>4, NothingInMind

LEMMA DeprovisionIsSound ==
  ASSUME IInv, NEW w \in Worker, DeprovisionStep(w) PROVE Sound(w)
<1> USE DEF IInv
<1>1. /\ worker[w].pc \in {"dettach", "drop", "track", "delete"} /\ worker[w] \in WorkerRec
      /\ worker[w].todo = {}
  BY DEF DeprovisionStep, Dettach, Drop, Track, DeleteServer, Orderly, TypeOK
<1>2. ASSUME NEW p \in {"delete", "track"}, Goes(w, p), p = "track" => w \in Remedial
      PROVE  Sound(w)
  <2>1. p \in Phase
    BY DEF Phase
  <2> QED
    BY <1>1, <1>2, <2>1, GoingIsSound
<1>3. CASE Dettach(w)
  <2>1. ASSUME w \in Remedial, NEW i \in Owned, addr[i] = old[w],
               worker' = [worker EXCEPT ![w] = [@ EXCEPT !.pc = "drop", !.held = i]]
        PROVE  Sound(w)
    <3> DEFINE rec == [worker[w] EXCEPT !.pc = "drop", !.held = i]
    <3>1. worker'[w] = rec
      BY <2>1 DEF TypeOK
    <3>2. i \in Id
      BY DEF Owned
    <3>3. rec \in WorkerRec
      BY <1>1, <3>2 DEF WorkerRec, Phase
    <3>4. rec.pc = "drop" /\ rec.todo = {} /\ rec.held = i
      BY <1>1 DEF WorkerRec
    <3>5. addr'[i] = old'[w]
      BY <1>3, <2>1 DEF Dettach
    <3> HIDE DEF rec
    <3> QED
      BY <2>1, <3>1, <3>2, <3>3, <3>4, <3>5, NothingInMind
  <2> QED
    BY <1>2, <1>3, <2>1 DEF Dettach
<1>4. CASE Drop(w)
  <2> DEFINE rec == [worker[w] EXCEPT !.pc = "track", !.held = Null]
  <2>1. worker'[w] = rec
    BY <1>4 DEF Drop, TypeOK
  <2>2. rec \in WorkerRec
    BY <1>1 DEF WorkerRec, Phase
  <2>3. rec.pc = "track" /\ rec.todo = {}
    BY <1>1 DEF WorkerRec
  <2>4. w \in Remedial
    BY <1>4 DEF Drop, Orderly
  <2> HIDE DEF rec
  <2> QED
    BY <2>1, <2>2, <2>3, <2>4, NothingInMind
<1>5. CASE Track(w)
  BY <1>2, <1>5 DEF Track
<1>6. CASE DeleteServer(w) /\ worker' = [worker EXCEPT ![w] = Idle]
  <2>1. worker'[w] = Idle /\ Idle \in WorkerRec
    BY <1>6, IdleIsTyped DEF TypeOK
  <2>2. Idle.pc = "idle" /\ Idle.todo = {}
    BY DEF Idle, Afresh
  <2> QED
    BY <2>1, <2>2, NothingInMind
<1>7. CASE worker[w].round > 0 /\
           worker' = [worker EXCEPT ![w] =
             [@ EXCEPT !.pc = "dettach", !.round = worker[w].round - 1]]
  <2> DEFINE n == worker[w].round - 1
             rec == [worker[w] EXCEPT !.pc = "dettach", !.round = n]
  <2>1. worker'[w] = rec
    BY <1>7 DEF TypeOK
  <2>2. n \in 0..2 /\ "dettach" \in Phase
    BY <1>1, <1>7 DEF WorkerRec, Phase
  <2>3. rec.pc = "dettach" /\ rec.todo = {}
    BY <1>1 DEF WorkerRec
  <2> HIDE DEF n
  <2>4. rec \in WorkerRec
    BY <1>1, <2>2, PhaseAndRound
  <2> HIDE DEF rec
  <2> QED
    BY <2>1, <2>3, <2>4, NothingInMind
<1> QED
  BY <1>3, <1>4, <1>5, <1>6, <1>7 DEF DeprovisionStep, DeleteServer

LEMMA OwnStep ==
  ASSUME IInv, NEW w \in Worker, Step(w) PROVE Sound(w)
  BY BuiltIsSound, AllocateIsSound, ListFreeIsSound, FindIsSound, ReleaseIsSound,
     AddIsSound, RetainIsSound, ProvisionedIsSound, DeprovisionIsSound
     DEF Step, Working, AttachStep

-----------------------------------------------------------------------------
(* The account, the list of remediation and the requests keep their types, and
   what is gone stays off every server. *)
Tidy == /\ addr' \in [Id -> Address \cup {Null}]
        /\ on' \in [Id -> Worker \cup {Lost, Null}]
        /\ GoneIsOff'

LEMMA StepIsTidy ==
  ASSUME IInv, NEW w \in Worker, Step(w)
  PROVE  Tidy
<1> USE DEF IInv
<1>1. CASE UNCHANGED <<addr, on>>
  BY <1>1 DEF Tidy, TypeOK, GoneIsOff
<1>2. CASE Allocate(w)
  <2>1. on' = on
    BY <1>2 DEF Allocate
  <2>2. CASE addr' = addr
    BY <1>1, <2>1, <2>2
  <2>3. ASSUME NEW i \in Id, NEW a \in Address, addr' = [addr EXCEPT ![i] = a] PROVE Tidy
    <3>1. a # Null
      BY PoolAssumption
    <3> QED
      BY <2>1, <2>3, <3>1 DEF Tidy, TypeOK, GoneIsOff
  <2> QED
    BY <1>2, <2>2, <2>3 DEF Allocate
<1>3. ASSUME NEW i, DeleteFloatingIP(i) PROVE Tidy
  BY <1>1, <1>3 DEF DeleteFloatingIP, Tidy, TypeOK, GoneIsOff
<1>4. ASSUME NEW a, AddServerFloatingIP(w, a), UNCHANGED addr PROVE Tidy
  BY <1>4 DEF AddServerFloatingIP, Tidy, TypeOK, GoneIsOff, Owned
<1>5. ASSUME Abandon(w), UNCHANGED addr PROVE Tidy
  BY <1>5, PoolAssumption DEF Abandon, Tidy, TypeOK, GoneIsOff
<1>6. ASSUME on' = [i \in Id |-> IF on[i] = w THEN Null ELSE on[i]], UNCHANGED addr
      PROVE  Tidy
  BY <1>6 DEF Tidy, TypeOK, GoneIsOff
<1>7. CASE AttachStep(w)
  BY <1>1, <1>2, <1>3, <1>4, <1>7
     DEF AttachStep, ListFree, Find, Release, Add, Undo, NotAdded
<1>8. CASE RetainStep(w)
  BY <1>1, <1>4, <1>8 DEF RetainStep, Look, ReAdd, Forget, NotAdded
<1>9. CASE DeprovisionStep(w)
  BY <1>1, <1>3, <1>5, <1>6, <1>9 DEF DeprovisionStep, Dettach, Drop, Track, DeleteServer
<1>10. CASE Built(w) \/ Deprovision(w) \/ Provisioned(w) \/ NotProvisioned(w)
  BY <1>1, <1>5, <1>10 DEF Built, Deprovision, Provisioned, NotProvisioned
<1> QED
  BY <1>7, <1>8, <1>9, <1>10 DEF Step, Working

LEMMA StepKeepsRequests ==
  ASSUME IInv, NEW w \in Worker, Step(w)
  PROVE  tracked' \subseteq Address \cup {Fixed} /\ old' \in [Remedial -> Address \cup {Fixed}]
<1> USE DEF IInv
<1>1. CASE UNCHANGED <<tracked, old>>
  BY <1>1 DEF TypeOK
<1>2. CASE Forget(w)
  BY <1>2 DEF Forget, TypeOK
<1>3. CASE Track(w)
  <2>1. w \in Remedial
    BY <1>3 DEF Track, Orderly
  <2> QED
    BY <1>3, <2>1 DEF Track, TypeOK
<1>4. CASE Provisioned(w)
  <2>1. PICK a \in IF worker[w].ip # Null THEN {worker[w].ip} ELSE Shown(w) :
          old' = [v \in Remedial |-> IF v = w THEN a ELSE old[v]]
    BY <1>4 DEF Provisioned
  <2>2. worker[w].ip \in Address \cup {Null}
    BY DEF TypeOK, WorkerRec
  <2>3. Shown(w) \subseteq Address \cup {Fixed}
    BY DEF Shown, Owned, TypeOK
  <2>4. a \in Address \cup {Fixed}
    BY <2>1, <2>2, <2>3
  <2>5. tracked' = tracked
    BY <1>4 DEF Provisioned
  <2> QED
    BY <2>1, <2>4, <2>5 DEF TypeOK
<1> QED
  BY <1>1, <1>2, <1>3, <1>4
     DEF Step, Working, Built, Deprovision, NotProvisioned, AttachStep, Allocate, ListFree,
         Find, Release, Add, Undo, RetainStep, Look, ReAdd, DeprovisionStep, Dettach, Drop,
         DeleteServer

LEMMA StepKeepsMet ==
  ASSUME IInv, NEW w \in Worker, Step(w)
  PROVE  met' \in [Worker -> SUBSET Trouble]
<1> USE DEF IInv
<1>1. CASE met' = met \/ met' = [met EXCEPT ![w] = {}]
  BY <1>1 DEF TypeOK
<1>2. ASSUME NEW S \in SUBSET Trouble, Meets(w, S) PROVE met' \in [Worker -> SUBSET Trouble]
  BY <1>2 DEF Meets, TypeOK
<1>3. ASSUME NEW V, Late(V) PROVE met' \in [Worker -> SUBSET Trouble]
  <2>1. "late" \in Trouble
    BY DEF Trouble
  <2> QED
    BY <1>3, <2>1 DEF Late, TypeOK
<1>4. /\ {"fault"} \in SUBSET Trouble /\ {"full"} \in SUBSET Trouble
      /\ {"tracked"} \in SUBSET Trouble /\ {"robbed"} \in SUBSET Trouble
      /\ {"beaten"} \in SUBSET Trouble /\ {} \in SUBSET Trouble
  BY DEF Trouble
<1>5. CASE Allocate(w)
  <2>1. CASE met' = [v \in Worker |->
                 met[v] \cup (IF v # w THEN IF v \in Trying THEN {"beaten"} ELSE {}
                             ELSE IF worker'[w].pc = "list" THEN {"fault"} ELSE {})]
    <3>1. \A v \in Worker : (IF v # w THEN IF v \in Trying THEN {"beaten"} ELSE {}
                             ELSE IF worker'[w].pc = "list" THEN {"fault"} ELSE {})
                            \subseteq Trouble
      BY <1>4
    <3> QED
      BY <2>1, <3>1 DEF TypeOK
  <2> QED
    BY <1>1, <1>2, <1>4, <1>5, <2>1 DEF Allocate
<1>6. CASE ListFree(w) \/ Find(w) \/ Release(w)
  BY <1>1, <1>2, <1>4, <1>6 DEF ListFree, Find, Release
<1>7. CASE Add(w) \/ Undo(w)
  BY <1>1, <1>2, <1>3, <1>4, <1>7 DEF Add, Undo, AddServerFloatingIP
<1>8. CASE RetainStep(w)
  BY <1>1, <1>3, <1>8 DEF RetainStep, Look, ReAdd, Forget, AddServerFloatingIP
<1>9. CASE DeprovisionStep(w)
  BY <1>1, <1>3, <1>9 DEF DeprovisionStep, Dettach, Drop, Track, DeleteServer
<1>10. CASE Built(w) \/ Deprovision(w) \/ Provisioned(w) \/ NotProvisioned(w)
  BY <1>1, <1>10 DEF Built, Deprovision, Provisioned, NotProvisioned
<1> QED
  BY <1>5, <1>6, <1>7, <1>8, <1>9, <1>10 DEF Step, Working, AttachStep

LEMMA StepKeepsTypes ==
  ASSUME IInv, NEW w \in Worker, Step(w)
  PROVE  TypeOK'
<1>1. worker' \in [Worker -> WorkerRec]
  <2>1. /\ \A v \in Worker \ {w} : worker'[v] = worker[v]
        /\ worker' = [v \in Worker |-> worker'[v]]
    BY OthersWait DEF IInv
  <2>2. worker'[w] \in WorkerRec
    BY OwnStep DEF Sound
  <2> QED
    BY <2>1, <2>2 DEF IInv, TypeOK
<1> QED
  BY <1>1, StepIsTidy, StepKeepsRequests, StepKeepsMet DEF TypeOK, Tidy

(* The others' minds after a step of one worker. *)
LEMMA OthersStaySound ==
  ASSUME IInv, NEW w \in Worker, Step(w), NEW v \in Worker \ {w}
  PROVE  Orderly(v)' /\ Looked(v)' /\ Noted(v)'
<1>1. worker'[v] = worker[v] /\ worker[v] \in WorkerRec
  BY OthersWait DEF IInv, TypeOK
<1>2. Orderly(v) /\ Looked(v) /\ Noted(v)
  BY DEF IInv
<1>3. Respects(w)
  BY StepRespects
<1>4. Listed(v)' = Listed(v) /\ Listed(v) \subseteq Id
  BY <1>1, <1>2 DEF Listed, Orderly, WorkerRec
<1>5. worker[v].pc \in {"release", "drop"}
        => addr'[worker[v].held] \in {addr[worker[v].held], Null}
  <2>1. worker[v].held \in Known
    BY DEF Known
  <2> QED
    BY <2>1, <1>2, <1>3 DEF Respects, Orderly
<1>6. Orderly(v)'
  <2>1. v \in Remedial => old'[v] = old[v]
    BY <1>3 DEF Respects
  <2> QED
    BY <1>1, <1>2, <1>5, <2>1 DEF Orderly
<1>7. Looked(v)'
  <2>1. met[v] \subseteq met'[v]
    BY <1>3 DEF Respects
  <2>2. \A i \in Listed(v) : on'[i] # Null => on[i] # Null \/ "late" \in met'[v]
    BY <1>3, <1>4 DEF Respects
  <2> QED
    BY <1>2, <1>4, <2>1, <2>2 DEF Looked
<1>8. Noted(v)'
  <2>1. ASSUME worker[v].pc = "release", addr'[worker[v].held] \in tracked'
        PROVE  "late" \in met'[v]
    <3>1. Null \notin tracked'
      BY StepKeepsTypes, PoolAssumption DEF TypeOK
    <3>2. addr[worker[v].held] \in tracked'
      BY <2>1, <3>1, <1>5
    <3>3. addr[worker[v].held] \in tracked \/ "late" \in met'[v]
      BY <2>1, <3>2, <1>3 DEF Respects
    <3>4. met[v] \subseteq met'[v]
      BY <1>3 DEF Respects
    <3> QED
      BY <2>1, <3>3, <3>4, <1>2 DEF Noted
  <2> QED
    BY <1>1, <2>1 DEF Noted
<1> QED
  BY <1>6, <1>7, <1>8

LEMMA Initially == Init => IInv
<1> SUFFICES ASSUME Init PROVE IInv
  OBVIOUS
<1>1. \A w \in Worker : worker[w] = Idle
  BY DEF Init
<1>2. Idle.pc = "idle" /\ Idle.todo = {}
  BY DEF Idle, Afresh
<1>3. TypeOK
  BY IdleIsTyped, FaultsAssumption DEF Init, TypeOK
<1>4. \A w \in Worker : Orderly(w) /\ Looked(w) /\ Noted(w)
  BY <1>1, <1>2 DEF Orderly, Looked, Noted, Listed
<1> QED
  BY <1>3, <1>4 DEF Init, IInv, GoneIsOff

LEMMA NextIsStep == Next => \E w \in Worker : Step(w)
  BY DEF Next, Step

LEMMA Inductive == IInv /\ [Next]_vars => IInv'
<1> SUFFICES ASSUME IInv, [Next]_vars PROVE IInv'
  OBVIOUS
<1>1. CASE UNCHANGED vars
  BY <1>1 DEF vars, IInv, TypeOK, GoneIsOff, Orderly, Looked, Noted, Listed
<1>2. ASSUME NEW w \in Worker, Step(w) PROVE IInv'
  <2>1. Orderly(w)' /\ Looked(w)' /\ Noted(w)'
    BY <1>2, OwnStep DEF Sound
  <2>2. \A v \in Worker \ {w} : Orderly(v)' /\ Looked(v)' /\ Noted(v)'
    BY <1>2, OthersStaySound
  <2>3. TypeOK' /\ GoneIsOff'
    BY <1>2, StepKeepsTypes, StepIsTidy DEF Tidy
  <2> QED
    BY <2>1, <2>2, <2>3 DEF IInv
<1> QED
  BY <1>1, <1>2, NextIsStep

-----------------------------------------------------------------------------
(* The account and the workers keep the types they are given, whoever does what. *)
THEOREM TypeCorrect == Spec => []TypeOK
<1>1. IInv => TypeOK
  BY DEF IInv
<1> QED
  BY <1>1, Initially, Inductive, PTL DEF Spec

(* An address under remediation is released only by a worker that had found it free
   and unlisted before it was tracked: Find and the release are not one step. *)
THEOREM TrackedAreSpared == Spec => TrackedIsSpared
<1>1. IInv /\ [Next]_vars =>
      [\A w \in Worker :
         LET i == worker[w].held
         IN worker[w].pc = "release" /\ worker'[w].pc = "find"
              => addr[i] = addr'[i] \/ addr[i] \notin tracked \/ "late" \in met[w]]_vars
  BY DEF IInv, Noted
<1> QED
  BY <1>1, Initially, Inductive, PTL DEF Spec, TrackedIsSpared

(* What one worker's step does to the server of another. *)
LEMMA Taking ==
  ASSUME IInv, NEW v \in Worker, Step(v), NEW i \in Id, NEW w \in Worker,
         on[i] = w, worker[w].pc \in {"detail", "up"}, on'[i] \notin {w, Lost}
  PROVE  v # w /\ Robs(v, i)
<1> USE DEF IInv
<1>1. on[i] # Null /\ addr[i] # Null /\ i \in Owned /\ w # Lost
  BY PoolAssumption DEF GoneIsOff, Owned
<1>2. on'[i] # on[i]
  OBVIOUS
<1>3. ASSUME NEW j, DeleteFloatingIP(j) PROVE i = j
  BY <1>2, <1>3 DEF DeleteFloatingIP, TypeOK
<1>4. ASSUME NEW a, AddServerFloatingIP(v, a) PROVE addr[i] = a /\ v # w
  BY <1>2, <1>4 DEF AddServerFloatingIP, TypeOK, Owned
<1>5. CASE Release(v)
  <2>1. worker[v].pc = "release" /\ worker[v].held = i
    BY <1>3, <1>5 DEF Release
  <2>2. "late" \in met[v]
    BY <1>1, <2>1 DEF Looked, Listed
  <2> QED
    BY <2>1, <2>2 DEF Robs
<1>6. CASE Undo(v)
  BY <1>3, <1>6 DEF Undo, Robs
<1>7. CASE Add(v)
  <2>1. worker[v].pc = "add" /\ AddServerFloatingIP(v, worker[v].ip)
    BY <1>2, <1>7 DEF Add, NotAdded
  <2> QED
    BY <1>4, <2>1 DEF Robs
<1>8. CASE ReAdd(v)
  <2>1. worker[v].pc = "readd" /\ AddServerFloatingIP(v, old[v])
    BY <1>2, <1>8 DEF ReAdd, NotAdded
  <2>2. v \in Remedial
    BY <2>1 DEF Orderly
  <2> QED
    BY <1>4, <2>1, <2>2 DEF Robs
<1>9. CASE Drop(v)
  <2>1. worker[v].pc = "drop" /\ worker[v].held = i
    BY <1>3, <1>9 DEF Drop
  <2>2. v \in Remedial /\ addr[i] = old[v]
    BY <1>1, <2>1 DEF Orderly
  <2> QED
    BY <2>1, <2>2 DEF Robs
<1>10. CASE DeleteServer(v)
  <2>1. v # w
    BY <1>10 DEF DeleteServer
  <2> QED
    BY <1>2, <1>10, <2>1 DEF DeleteServer, Abandon
<1>11. CASE NotProvisioned(v)
  BY <1>2, <1>11 DEF NotProvisioned, Abandon
<1> QED
  BY <1>2, <1>5, <1>6, <1>7, <1>8, <1>9, <1>10, <1>11
     DEF Step, Working, Built, Deprovision, Provisioned, AttachStep, Allocate, ListFree, Find,
         RetainStep, Look, Forget, DeprovisionStep, Dettach, Track

(* Whatever calls fail, a server loses its address only for the reasons of Robs. *)
THEOREM AddressesAreTakenForReason == Spec => TakenForReason
<1>1. IInv /\ [Next]_vars =>
      [\A i \in Id, w \in Worker :
         on[i] = w /\ worker[w].pc \in {"detail", "up"} /\ on'[i] \notin {w, Lost}
         => \E v \in Worker \ {w} : Robs(v, i)]_vars
  BY Taking, NextIsStep
<1> QED
  BY <1>1, Initially, Inductive, PTL DEF Spec, TakenForReason

-----------------------------------------------------------------------------
(* The account keeps to its quota. *)
Quota == IsFiniteSet(Owned) /\ Cardinality(Owned) <= Max

(* What a worker with which nothing has interfered may rely on: it is not in its
   second round for want of an address, and when it has released one, or begins the
   second round, the quota leaves room for another. *)
Tried(w) ==
  /\ worker[w].pc \in {"idle", "look", "readd", "forget"} => worker[w].round = 0
  /\ worker[w].pc = "undo" => met[w] # {}
  /\ met[w] = {} /\ worker[w].round = 1 => worker[w].pc \notin {"list", "find", "release"}
  /\ met[w] = {} /\ (\/ worker[w].pc = "find" /\ worker[w].todo = {}
                     \/ worker[w].pc = "allocate" /\ worker[w].round = 1)
       => Cardinality(Owned) < Max

Attempts == Quota /\ \A w \in Worker : Tried(w)

(* An allocation that took effect, and what the other workers that are trying meet. *)
Allocated(w, i) ==
  /\ Owned' = Owned \cup {i}
  /\ Cardinality(Owned) < Max
  /\ \A v \in Worker \ {w} : v \in Trying => "beaten" \in met'[v]

(* Only an allocation adds to what the account has. *)
LEMMA OwnedGrows ==
  ASSUME IInv, NEW w \in Worker, Step(w)
  PROVE  Owned' \subseteq Owned \/ \E i \in Id : Allocated(w, i)
<1> USE DEF IInv
<1>1. CASE addr' = addr
  BY <1>1 DEF Owned
<1>2. ASSUME NEW i, DeleteFloatingIP(i) PROVE Owned' \subseteq Owned
  BY <1>2 DEF DeleteFloatingIP, Owned, TypeOK
<1>3. CASE Allocate(w)
  <2>1. ASSUME NEW i \in Id \ Known, NEW a \in Address,
               Cardinality(Owned) < Max, addr' = [addr EXCEPT ![i] = a],
               met' = [v \in Worker |->
                 met[v] \cup (IF v # w THEN IF v \in Trying THEN {"beaten"} ELSE {}
                             ELSE IF worker'[w].pc = "list" THEN {"fault"} ELSE {})]
        PROVE  Allocated(w, i)
    <3>1. Owned' = Owned \cup {i}
      BY <2>1, PoolAssumption DEF Owned, TypeOK
    <3>2. \A v \in Worker \ {w} : v \in Trying => "beaten" \in met'[v]
      BY <2>1
    <3> QED
      BY <2>1, <3>1, <3>2 DEF Allocated
  <2> QED
    BY <1>1, <1>3, <2>1 DEF Allocate
<1> QED
  BY <1>1, <1>2, <1>3
     DEF Step, Working, Built, Deprovision, Provisioned, NotProvisioned, AttachStep, ListFree,
         Find, Release, Add, Undo, RetainStep, Look, ReAdd, Forget, DeprovisionStep, Dettach,
         Drop, Track, DeleteServer

LEMMA QuotaKept ==
  ASSUME IInv, Quota, NEW w \in Worker, Step(w)
  PROVE  Quota' /\ (Owned' \subseteq Owned => Cardinality(Owned') <= Cardinality(Owned))
<1>1. Cardinality(Owned) \in Nat
  BY FS_CardinalityType DEF Quota
<1>2. CASE Owned' \subseteq Owned
  <2>1. IsFiniteSet(Owned') /\ Cardinality(Owned') <= Cardinality(Owned)
    BY <1>2, FS_Subset DEF Quota
  <2>2. Cardinality(Owned') \in Nat
    BY <2>1, FS_CardinalityType
  <2> QED
    BY <1>1, <2>1, <2>2, PoolAssumption DEF Quota
<1>3. ASSUME NEW i \in Id, Allocated(w, i)
      PROVE  Quota'
  <2>1. Owned' = Owned \cup {i} /\ Cardinality(Owned) < Max
    BY <1>3 DEF Allocated
  <2>2. /\ IsFiniteSet(Owned \cup {i})
        /\ Cardinality(Owned \cup {i}) = IF i \in Owned THEN Cardinality(Owned)
                                         ELSE Cardinality(Owned) + 1
    BY FS_AddElement DEF Quota
  <2> QED
    BY <1>1, <2>1, <2>2, PoolAssumption DEF Quota
<1> QED
  BY <1>2, <1>3, OwnedGrows

(* Room that one worker relies on is not taken by another behind its back. *)
LEMMA OthersStayTried ==
  ASSUME IInv, Attempts, NEW w \in Worker, Step(w), NEW v \in Worker \ {w}
  PROVE  Tried(v)'
<1>1. worker'[v] = worker[v]
  BY OthersWait DEF IInv
<1>2. met[v] \subseteq met'[v]
  BY StepRespects DEF Respects
<1>3. ASSUME met'[v] = {}, \/ worker[v].pc = "find" /\ worker[v].todo = {}
                           \/ worker[v].pc = "allocate" /\ worker[v].round = 1
      PROVE  Cardinality(Owned') < Max
  <2>1. v \in Trying
    BY <1>3 DEF Trying
  <2>2. Owned' \subseteq Owned
    BY <1>3, <2>1, OwnedGrows DEF Allocated
  <2>3. Cardinality(Owned) < Max
    BY <1>2, <1>3 DEF Attempts, Tried
  <2>4. Cardinality(Owned') <= Cardinality(Owned) /\ IsFiniteSet(Owned') /\ IsFiniteSet(Owned)
    BY <2>2, QuotaKept DEF Attempts, Quota
  <2>5. Cardinality(Owned') \in Nat /\ Cardinality(Owned) \in Nat
    BY <2>4, FS_CardinalityType
  <2> QED
    BY <2>3, <2>4, <2>5, PoolAssumption
<1> QED
  BY <1>1, <1>2, <1>3 DEF Attempts, Tried

(* Attach ends only after trouble, and begins its second round with room. *)
LEMMA ReturnIsTried ==
  ASSUME TypeOK, NEW w \in Worker, NEW a, AttachReturns(w, a)
  PROVE  Tried(w)' /\ worker'[w].pc \in {"dettach", "detail"}
  BY DEF AttachReturns, Afresh, Tried, TypeOK

LEMMA NextRoundIsTried ==
  ASSUME TypeOK, NEW w \in Worker, NextRound(w), met'[w] = {} => Cardinality(Owned') < Max
  PROVE  Tried(w)'
<1>1. CASE AttachReturns(w, Null)
  BY <1>1, ReturnIsTried
<1>2. CASE worker' = [worker EXCEPT ![w] = [@ EXCEPT !.pc = "allocate", !.round = 1]]
  <2>1. worker'[w].pc = "allocate"
    BY <1>2 DEF TypeOK, WorkerRec
  <2> QED
    BY <2>1 DEF Tried
<1> QED
  BY <1>1, <1>2 DEF NextRound

LEMMA AttachIsTried ==
  ASSUME IInv, Attempts, NEW w \in Worker, AttachStep(w)
  PROVE  Tried(w)'
<1> USE DEF IInv
<1>1. worker[w] \in WorkerRec /\ Tried(w) /\ met[w] \subseteq Trouble
  BY DEF TypeOK, Attempts
<1>2. \A S : Meets(w, S) => met'[w] = met[w] \cup S
  BY DEF Meets, TypeOK
<1>3. CASE Allocate(w)
  <2>1. ASSUME NEW p, Goes(w, p) PROVE worker'[w].pc = p /\ worker'[w].round = worker[w].round
    BY <1>1, <2>1 DEF Goes, TypeOK, WorkerRec
  <2>2. CASE worker'[w].pc = "add"
    BY <2>2 DEF Tried
  <2>3. CASE Goes(w, "list") /\ "fault" \in met'[w]
    BY <2>1, <2>3 DEF Tried
  <2>4. CASE Cardinality(Owned) >= Max /\ Goes(w, "list") /\ UNCHANGED <<addr, met>>
    <3>1. Cardinality(Owned) \in Nat
      BY FS_CardinalityType DEF Attempts, Quota
    <3>2. worker[w].pc = "allocate"
      BY <1>3 DEF Allocate
    <3>3. ~(Cardinality(Owned) < Max)
      BY <2>4, <3>1, PoolAssumption
    <3>4. met[w] = {} => worker[w].round # 1
      BY <1>1, <3>2, <3>3 DEF Tried
    <3> QED
      BY <2>1, <2>4, <3>4 DEF Tried
  <2>5. ASSUME NEW i, NEW a,
               worker' = [worker EXCEPT ![w] = [@ EXCEPT !.pc = "add", !.held = i, !.ip = a]]
        PROVE  worker'[w].pc = "add"
    BY <1>1, <2>5 DEF TypeOK, WorkerRec
  <2>6. ASSUME met' = [v \in Worker |->
                 met[v] \cup (IF v # w THEN IF v \in Trying THEN {"beaten"} ELSE {}
                             ELSE IF worker'[w].pc = "list" THEN {"fault"} ELSE {})],
               Goes(w, "list")
        PROVE  "fault" \in met'[w]
    BY <2>1, <2>6
  <2> QED
    BY <1>2, <1>3, <2>2, <2>3, <2>4, <2>5, <2>6 DEF Allocate
<1>4. CASE ListFree(w)
  <2>1. CASE NextRound(w) /\ Meets(w, {"fault"})
    BY <1>2, <2>1, NextRoundIsTried
  <2>2. CASE LET free == {i \in Owned : on[i] = Null}
             IN /\ worker' = [worker EXCEPT ![w] = [@ EXCEPT !.pc = "find", !.todo = free]]
                /\ Meets(w, IF free = {} THEN {"full"} ELSE {})
    <3> DEFINE free == {i \in Owned : on[i] = Null}
    <3>1. worker'[w] = [worker[w] EXCEPT !.pc = "find", !.todo = free]
      BY <2>2 DEF TypeOK
    <3>2. met'[w] = met[w] \cup (IF free = {} THEN {"full"} ELSE {})
      BY <1>2, <2>2
    <3>3. worker[w].pc = "list"
      BY <1>4 DEF ListFree
    <3> HIDE DEF free
    <3>4. /\ worker'[w].pc = "find" /\ worker'[w].todo = free
          /\ worker'[w].round = worker[w].round
      BY <1>1, <3>1 DEF WorkerRec
    <3> QED
      BY <1>1, <3>2, <3>3, <3>4 DEF Tried
  <2> QED
    BY <1>4, <2>1, <2>2 DEF ListFree
<1>5. CASE Find(w)
  <2>1. worker[w].pc = "find"
    BY <1>5 DEF Find
  <2>2. CASE worker[w].todo = {} /\ NextRound(w) /\ UNCHANGED <<addr, met>>
    <3>1. met'[w] = {} => Cardinality(Owned') < Max
      BY <1>1, <2>1, <2>2 DEF Tried, Owned
    <3> QED
      BY <2>2, <3>1, NextRoundIsTried
  <2>3. ASSUME NEW i, Meets(w, {"tracked"}),
               worker' = [worker EXCEPT ![w] = [@ EXCEPT !.todo = worker[w].todo \ {i}]]
        PROVE  Tried(w)'
    <3>1. worker'[w].pc = "find"
      BY <1>1, <2>1, <2>3 DEF TypeOK, WorkerRec
    <3>2. met'[w] # {}
      BY <1>2, <2>3
    <3> QED
      BY <3>1, <3>2 DEF Tried
  <2>4. ASSUME NEW i, UNCHANGED met,
               worker' = [worker EXCEPT ![w] =
                  [@ EXCEPT !.pc = "release", !.todo = worker[w].todo \ {i}, !.held = i]]
        PROVE  Tried(w)'
    <3>1. worker'[w].pc = "release" /\ worker'[w].round = worker[w].round
      BY <1>1, <2>4 DEF TypeOK, WorkerRec
    <3> QED
      BY <1>1, <2>1, <2>4, <3>1 DEF Tried
  <2> QED
    BY <1>5, <2>2, <2>3, <2>4 DEF Find
<1>6. CASE Release(w)
  <2> DEFINE i == worker[w].held
  <2>1. /\ worker[w].pc = "release" /\ DeleteFloatingIP(i)
        /\ worker' = [worker EXCEPT ![w] = [@ EXCEPT !.pc = "find", !.held = Null]]
        /\ IF addr[i] = addr'[i] THEN Meets(w, {"fault"}) ELSE UNCHANGED met
    BY <1>6 DEF Release
  <2>2. i \in Id
    BY <2>1 DEF Orderly
  <2>3. worker'[w].pc = "find" /\ worker'[w].round = worker[w].round
    BY <1>1, <2>1 DEF TypeOK, WorkerRec
  <2>4. CASE addr[i] = addr'[i]
    BY <1>2, <2>1, <2>3, <2>4 DEF Tried
  <2>5. CASE addr[i] # addr'[i]
    <3>1. Owned' = Owned \ {i} /\ i \in Owned
      BY <2>1, <2>2, <2>5 DEF DeleteFloatingIP, Owned, TypeOK
    <3>2. Cardinality(Owned) \in Nat /\ Cardinality(Owned) <= Max
      BY FS_CardinalityType DEF Attempts, Quota
    <3>3. Cardinality(Owned \ {i}) = Cardinality(Owned) - 1
      BY <3>1, FS_RemoveElement DEF Attempts, Quota
    <3>4. Cardinality(Owned') < Max
      BY <3>1, <3>2, <3>3, PoolAssumption
    <3>5. met' = met
      BY <2>1, <2>5
    <3> QED
      BY <1>1, <2>1, <2>3, <3>4, <3>5 DEF Tried
  <2> QED
    BY <2>4, <2>5
<1>7. CASE Add(w)
  <2>1. CASE AttachReturns(w, worker[w].ip)
    BY <2>1, ReturnIsTried
  <2>2. CASE /\ Goes(w, "undo")
             /\ Meets(w, {IF \E i \in Owned : addr[i] = worker[w].ip THEN "fault" ELSE "robbed"})
    <3>1. worker'[w].pc = "undo"
      BY <1>1, <2>2 DEF Goes, TypeOK, WorkerRec
    <3>2. met'[w] # {}
      BY <1>2, <2>2
    <3> QED
      BY <3>1, <3>2 DEF Tried
  <2> QED
    BY <1>7, <2>1, <2>2 DEF Add
<1>8. CASE Undo(w)
  BY <1>8, ReturnIsTried DEF Undo
<1> QED
  BY <1>3, <1>4, <1>5, <1>6, <1>7, <1>8 DEF AttachStep

(* Outside Attach nothing is relied on. *)
LEMMA OutsideIsTried ==
  ASSUME IInv, Attempts, NEW w \in Worker, Step(w), ~AttachStep(w)
  PROVE  Tried(w)'
<1> USE DEF IInv
<1>1. worker[w] \in WorkerRec /\ Tried(w)
  BY DEF TypeOK, Attempts
<1>2. ASSUME NEW p, Goes(w, p) PROVE worker'[w].pc = p /\ worker'[w].round = worker[w].round
  BY <1>1, <1>2 DEF Goes, TypeOK, WorkerRec
<1>3. ASSUME NEW p, NEW a, worker' = [worker EXCEPT ![w] = Afresh(p, a)]
      PROVE  worker'[w].pc = p /\ worker'[w].round = 0
  BY <1>3 DEF Afresh, TypeOK
<1>4. CASE Built(w)
  <2>1. worker[w].round = 0
    BY <1>1, <1>4 DEF Built, Tried
  <2> QED
    BY <1>2, <1>4, <2>1 DEF Built, Tried
<1>5. CASE Deprovision(w)
  <2>1. worker'[w].pc = "dettach"
    BY <1>1, <1>5 DEF Deprovision, TypeOK, WorkerRec
  <2> QED
    BY <2>1 DEF Tried
<1>6. CASE RetainStep(w)
  <2>1. worker[w].round = 0
    BY <1>1, <1>6 DEF RetainStep, Look, ReAdd, Forget, Tried
  <2>2. ASSUME NEW p \in {"readd", "forget", "allocate", "detail"}, Goes(w, p)
        PROVE  Tried(w)'
    BY <1>2, <2>1, <2>2 DEF Tried
  <2>3. CASE worker' = [worker EXCEPT ![w] = [@ EXCEPT !.pc = "forget", !.hidden = TRUE]]
    <3>1. worker'[w].pc = "forget" /\ worker'[w].round = worker[w].round
      BY <1>1, <2>3 DEF TypeOK, WorkerRec
    <3> QED
      BY <2>1, <3>1 DEF Tried
  <2> QED
    BY <1>6, <2>2, <2>3 DEF RetainStep, Look, ReAdd, Forget
<1>7. CASE Provisioned(w) \/ NotProvisioned(w)
  BY <1>3, <1>7 DEF Provisioned, NotProvisioned, Idle, Tried
<1>8. CASE DeprovisionStep(w)
  <2>1. ASSUME NEW p \in {"delete", "track"}, Goes(w, p) PROVE Tried(w)'
    BY <1>2, <2>1 DEF Tried
  <2>2. ASSUME NEW i, worker' = [worker EXCEPT ![w] = [@ EXCEPT !.pc = "drop", !.held = i]]
        PROVE  Tried(w)'
    <3>1. worker'[w].pc = "drop"
      BY <1>1, <2>2 DEF TypeOK, WorkerRec
    <3> QED
      BY <3>1 DEF Tried
  <2>3. CASE worker' = [worker EXCEPT ![w] = [@ EXCEPT !.pc = "track", !.held = Null]]
    <3>1. worker'[w].pc = "track"
      BY <1>1, <2>3 DEF TypeOK, WorkerRec
    <3> QED
      BY <3>1 DEF Tried
  <2>4. CASE worker' = [worker EXCEPT ![w] = Idle]
    <3>1. worker'[w].pc = "idle" /\ worker'[w].round = 0
      BY <2>4 DEF Idle, Afresh, TypeOK
    <3> QED
      BY <3>1 DEF Tried
  <2>5. CASE worker' = [worker EXCEPT ![w] =
               [@ EXCEPT !.pc = "dettach", !.round = worker[w].round - 1]]
    <3>1. worker'[w].pc = "dettach"
      BY <1>1, <2>5 DEF TypeOK, WorkerRec
    <3> QED
      BY <3>1 DEF Tried
  <2> QED
    BY <1>8, <2>1, <2>2, <2>3, <2>4, <2>5 DEF DeprovisionStep, Dettach, Drop, Track, DeleteServer
<1> QED
  BY <1>4, <1>5, <1>6, <1>7, <1>8 DEF Step, Working

LEMMA AttemptsInitially == Init => Attempts
<1> SUFFICES ASSUME Init PROVE Attempts
  OBVIOUS
<1>1. Owned = {}
  BY DEF Init, Owned
<1>2. Quota
  BY <1>1, FS_EmptySet, PoolAssumption DEF Quota
<1>3. \A w \in Worker : worker[w].pc = "idle" /\ worker[w].round = 0
  BY DEF Init, Idle, Afresh
<1> QED
  BY <1>2, <1>3 DEF Attempts, Tried

LEMMA AttemptsKept == IInv /\ Attempts /\ [Next]_vars => Attempts'
<1> SUFFICES ASSUME IInv, Attempts, [Next]_vars PROVE Attempts'
  OBVIOUS
<1>1. CASE UNCHANGED vars
  BY <1>1 DEF vars, Attempts, Quota, Tried, Owned
<1>2. ASSUME NEW w \in Worker, Step(w) PROVE Attempts'
  <2>1. Quota'
    BY <1>2, QuotaKept DEF Attempts
  <2>2. Tried(w)'
    BY <1>2, AttachIsTried, OutsideIsTried
  <2>3. \A v \in Worker \ {w} : Tried(v)'
    BY <1>2, OthersStayTried
  <2> QED
    BY <2>1, <2>2, <2>3 DEF Attempts
<1> QED
  BY <1>1, <1>2, NextIsStep

(* Where Attach ends with an error. *)
LEMMA EndsForReason ==
  ASSUME IInv, Attempts, NEW v \in Worker, Step(v), NEW w \in Worker,
         worker[w].pc \in {"list", "find", "undo"}, worker'[w].pc \in {"detail", "dettach"}
  PROVE  met'[w] # {}
<1> USE DEF IInv
<1>1. worker[w] \in WorkerRec /\ Tried(w)
  BY DEF TypeOK, Attempts
<1>2. v = w
  BY OthersWait
<1>3. ASSUME NEW S, Meets(w, S), S # {} PROVE met'[w] # {}
  BY <1>3 DEF Meets, TypeOK
<1>4. CASE ListFree(w)
  <2>1. CASE worker' = [worker EXCEPT ![w] =
               [@ EXCEPT !.pc = "find", !.todo = {i \in Owned : on[i] = Null}]]
    BY <1>1, <2>1 DEF TypeOK, WorkerRec
  <2> QED
    BY <1>3, <1>4, <2>1 DEF ListFree
<1>5. CASE Find(w)
  <2>1. worker[w].pc = "find"
    BY <1>5 DEF Find
  <2>2. CASE NextRound(w) /\ UNCHANGED met
    <3>1. CASE worker' = [worker EXCEPT ![w] = [@ EXCEPT !.pc = "allocate", !.round = 1]]
      BY <1>1, <3>1 DEF TypeOK, WorkerRec
    <3>2. CASE worker[w].round = 1
      BY <1>1, <2>1, <2>2, <3>2 DEF Tried
    <3> QED
      BY <2>2, <3>1, <3>2 DEF NextRound
  <2>3. CASE Meets(w, {"tracked"})
    BY <1>3, <2>3
  <2>4. ASSUME NEW i, worker' = [worker EXCEPT ![w] =
                 [@ EXCEPT !.pc = "release", !.todo = worker[w].todo \ {i}, !.held = i]]
        PROVE  FALSE
    BY <1>1, <2>4 DEF TypeOK, WorkerRec
  <2> QED
    BY <1>5, <2>2, <2>3, <2>4 DEF Find
<1>6. CASE Undo(w)
  BY <1>1, <1>6 DEF Undo, Tried
<1> QED
  BY <1>2, <1>4, <1>5, <1>6
     DEF Step, Working, Built, Deprovision, Provisioned, NotProvisioned, AttachStep, Allocate,
         Release, Add, RetainStep, Look, ReAdd, Forget, DeprovisionStep, Dettach, Drop, Track,
         DeleteServer

(* Attach ends with an error only if a call failed, another worker took or released an
   address behind its back, or there was none it could release: left alone, its second
   round has the room that its first one made. *)
THEOREM AttachFailsForReason == Spec => FailsForReason
<1>1. IInv /\ Attempts /\ [Next]_vars =>
      [\A w \in Worker :
         /\ worker[w].pc \in {"list", "find", "undo"}
         /\ worker'[w].pc \in {"detail", "dettach"}
         => met'[w] # {}]_vars
  BY EndsForReason, NextIsStep
<1> QED
  BY <1>1, Initially, Inductive, AttemptsInitially, AttemptsKept, PTL DEF Spec, FailsForReason
=============================================================================
