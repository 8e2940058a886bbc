---------------------------- MODULE NovaFloatingIP ----------------------------
(***************************************************************************)
(* How workers get, keep and give back floating IPs on a cloud without     *)
(* Neutron (provision/serverprovision.go: FIPWithNova, RemediationList,    *)
(* and their callers ProvisionInstance and DeprovisionInstance).  Each     *)
(* worker builds one server at a time; all of them use one account of the  *)
(* cloud and one list of addresses under remediation.  A call of the cloud *)
(* is a step, and may fail without effect.                                 *)
(***************************************************************************)
EXTENDS Naturals, FiniteSets

CONSTANTS
  Worker,    \* goroutines, each with the server it builds
  Remedial,  \* those whose request has Remediation set
  Address,   \* addresses of the cloud's pool
  Fixed,     \* a server's own address, not of the pool
  Id,        \* identifiers of floating IPs; one is reused when nobody knows it
  Max,       \* the account's quota of floating IPs
  Lost,      \* servers that run on without a worker that knows them
  Faults,    \* whether calls of the cloud fail without reason
  Null

ASSUME RemedialAssumption == Remedial \subseteq Worker
ASSUME PoolAssumption == /\ Max \in Nat /\ Max <= Cardinality(Address)
                         /\ Null \notin Address \cup Id \cup Worker \cup {Fixed, Lost}
                         /\ Fixed \notin Address /\ Lost \notin Worker
ASSUME FaultsAssumption == Faults \in BOOLEAN

VARIABLES
  addr,     \* the address of every floating IP the account has, Null if none
  on,       \* FloatingIP.InstanceId: the server (its worker) it is attached to
  tracked,  \* remediationList
  old,      \* ar.IpAddress, for the requests that read it
  worker,   \* what every worker does
  met       \* history: what stood in the way of every worker's Attach

vars == <<addr, on, tracked, old, worker, met>>

-----------------------------------------------------------------------------
(* "idle": no server; "allocate", "list", "find", "release", "add", "undo": in
   Attach; "look", "readd", "forget": in Retain; "detail": in the rest of
   ProvisionInstance; "up": the server is built; "dettach", "drop", "track",
   "delete": in DeprovisionInstance. *)
Phase == {"idle", "allocate", "list", "find", "release", "add", "undo",
          "look", "readd", "forget", "detail", "up", "dettach", "drop", "track", "delete"}

WorkerRec == [pc: Phase,
              round: 0..2,           \* i of the loop in Attach; DeprovisionInstance's repeats
              todo: SUBSET Id,       \* what is left of ListFloatingIPs' answer
              held: Id \cup {Null},  \* the one allocated, or the next to delete
              hidden: BOOLEAN,       \* Retain drops the error of Attach
              ip: Address \cup {Null}]  \* ip.IP in Attach, then fip of ProvisionInstance

(* A call failed; another worker released the address, or allocated one; the pool
   had no address without a server, or one under remediation; an address it is
   about to release was attached or tracked since it looked. *)
Trouble == {"fault", "robbed", "beaten", "full", "tracked", "late"}

(* A worker between two pieces of work, at pc with the address ip. *)
Afresh(pc, ip) ==
  [pc |-> pc, round |-> 0, todo |-> {}, held |-> Null, hidden |-> FALSE, ip |-> ip]
Idle == Afresh("idle", Null)

TypeOK ==
  /\ addr \in [Id -> Address \cup {Null}]
  /\ on \in [Id -> Worker \cup {Lost, Null}]
  /\ tracked \subseteq Address \cup {Fixed}
  /\ old \in [Remedial -> Address \cup {Fixed}]
  /\ worker \in [Worker -> WorkerRec]
  /\ met \in [Worker -> SUBSET Trouble]

Owned == {i \in Id : addr[i] # Null}
Known == Owned \cup UNION {worker[w].todo \cup {worker[w].held} : w \in Worker}

Goes(w, pc) == worker' = [worker EXCEPT ![w].pc = pc]
Trying == {v \in Worker : \/ worker[v].pc \in {"list", "find", "release"}
                          \/ worker[v].pc = "allocate" /\ worker[v].round = 1}
Late(V) == met' = [v \in Worker |-> IF v \in V THEN met[v] \cup {"late"} ELSE met[v]]
Meets(w, S) == met' = [met EXCEPT ![w] = @ \cup S]

(* A request of remediation names the address its server had before. *)
Init ==
  /\ addr = [i \in Id |-> Null] /\ on = [i \in Id |-> Null]
  /\ tracked = {}
  /\ old \in [Remedial -> Address]
  /\ worker = [w \in Worker |-> Idle]
  /\ met = [w \in Worker |-> {}]

(* RunServer has made a server: ProvisionInstance comes to the floating IP. *)
Built(w) ==
  /\ worker[w].pc = "idle"
  /\ Goes(w, IF w \in Remedial THEN "look" ELSE "allocate")
  /\ UNCHANGED <<addr, on, tracked, old, met>>

-----------------------------------------------------------------------------
(* Attach *)
(* Attach returns the address a, or an error with a = Null.  If Retain drops the
   error ProvisionInstance goes on without an address. *)
AttachReturns(w, a) ==
  worker' = [worker EXCEPT ![w] =
    Afresh(IF a = Null /\ ~worker[w].hidden THEN "dettach" ELSE "detail", a)]

(* AllocateFloatingIP succeeds within the quota; its reply may be lost. *)
Allocate(w) ==
  /\ worker[w].pc = "allocate"
  /\ \/ \E i \in Id \ Known, a \in Address :
          /\ Cardinality(Owned) < Max /\ \A j \in Owned : addr[j] # a
          /\ addr' = [addr EXCEPT ![i] = a]
          /\ \/ worker' = [worker EXCEPT ![w] = [@ EXCEPT !.pc = "add", !.held = i, !.ip = a]]
             \/ Faults /\ Goes(w, "list")
          /\ met' = [v \in Worker |->
                       met[v] \cup (IF v # w THEN IF v \in Trying THEN {"beaten"} ELSE {}
                                   ELSE IF worker'[w].pc = "list" THEN {"fault"} ELSE {})]
     \/ /\ Faults /\ Goes(w, "list") /\ Meets(w, {"fault"}) /\ UNCHANGED addr
     \/ /\ Cardinality(Owned) >= Max /\ Goes(w, "list") /\ UNCHANGED <<addr, met>>
  /\ UNCHANGED <<on, tracked, old>>

(* Mutant: the loop ends after one round. *)
NextRound_once(w) == AttachReturns(w, Null)

(* The loop goes round, or ends with "No floating IPs found". *)
NextRound(w) ==
  \/ worker[w].round = 0
     /\ worker' = [worker EXCEPT ![w] = [@ EXCEPT !.pc = "allocate", !.round = 1]]
  \/ worker[w].round = 1 /\ AttachReturns(w, Null)

(* Mutant: InstanceId is not looked at. *)
ListFree_all(w) ==
  /\ worker[w].pc = "list"
  /\ worker' = [worker EXCEPT ![w] = [@ EXCEPT !.pc = "find", !.todo = Owned]]
  /\ UNCHANGED <<addr, on, tracked, old, met>>

(* ListFloatingIPs: those without a server are looked at one by one. *)
ListFree(w) ==
  /\ worker[w].pc = "list"
  /\ \/ LET free == {i \in Owned : on[i] = Null}
        IN /\ worker' = [worker EXCEPT ![w] = [@ EXCEPT !.pc = "find", !.todo = free]]
           /\ Meets(w, IF free = {} THEN {"full"} ELSE {})
     \/ Faults /\ NextRound(w) /\ Meets(w, {"fault"})
  /\ UNCHANGED <<addr, on, tracked, old>>

(* Mutant: the list of addresses under remediation is not asked. *)
Find_blind(w) ==
  /\ worker[w].pc = "find"
  /\ \/ worker[w].todo = {} /\ NextRound(w)
     \/ \E i \in worker[w].todo :
          worker' = [worker EXCEPT ![w] =
            [@ EXCEPT !.pc = "release", !.todo = worker[w].todo \ {i}, !.held = i]]
  /\ UNCHANGED <<addr, on, tracked, old, met>>

(* fpno.Find: an address under remediation is passed over. *)
Find(w) ==
  /\ worker[w].pc = "find"
  /\ \/ worker[w].todo = {} /\ NextRound(w) /\ UNCHANGED met
     \/ \E i \in worker[w].todo :
          \/ /\ addr[i] \in tracked
             /\ worker' = [worker EXCEPT ![w] = [@ EXCEPT !.todo = worker[w].todo \ {i}]]
             /\ Meets(w, {"tracked"})
          \/ /\ addr[i] \notin tracked
             /\ worker' = [worker EXCEPT ![w] =
                  [@ EXCEPT !.pc = "release", !.todo = worker[w].todo \ {i}, !.held = i]]
             /\ UNCHANGED met
  /\ UNCHANGED <<addr, on, tracked, old>>

(* DeleteFloatingIP, which takes the address from the server that has it.  Its
   error is dropped everywhere. *)
DeleteFloatingIP(i) ==
  \/ addr' = [addr EXCEPT ![i] = Null] /\ on' = [on EXCEPT ![i] = Null]
  \/ Faults /\ UNCHANGED <<addr, on>>

Release(w) ==
  /\ worker[w].pc = "release"
  /\ DeleteFloatingIP(worker[w].held)
  /\ IF addr[worker[w].held] = addr'[worker[w].held] THEN Meets(w, {"fault"})
     ELSE UNCHANGED met
  /\ worker' = [worker EXCEPT ![w] = [@ EXCEPT !.pc = "find", !.held = Null]]
  /\ UNCHANGED <<tracked, old>>

(* AddServerFloatingIP goes by the address, whoever has it, and moves it. *)
AddServerFloatingIP(w, a) ==
  \E i \in Owned : /\ addr[i] = a
                   /\ on' = [on EXCEPT ![i] = w]
                   /\ Late({v \in Worker \ {w} :
                              \/ i \in worker[v].todo
                              \/ worker[v].pc = "release" /\ worker[v].held = i})
NotAdded(a) == (Faults \/ \A i \in Owned : addr[i] # a) /\ UNCHANGED on

Add(w) ==
  /\ worker[w].pc = "add"
  /\ \/ AddServerFloatingIP(w, worker[w].ip) /\ AttachReturns(w, worker[w].ip)
     \/ /\ NotAdded(worker[w].ip) /\ Goes(w, "undo")
        /\ Meets(w, {IF \E i \in Owned : addr[i] = worker[w].ip THEN "fault" ELSE "robbed"})
  /\ UNCHANGED <<addr, tracked, old>>

Undo(w) ==
  /\ worker[w].pc = "undo"
  /\ DeleteFloatingIP(worker[w].held)
  /\ AttachReturns(w, Null)
  /\ UNCHANGED <<tracked, old, met>>

-----------------------------------------------------------------------------
(* Retain *)
(* The old address is looked for in the account's list, attached or not. *)
Look(w) ==
  /\ worker[w].pc = "look"
  /\ \/ /\ \E i \in Owned : addr[i] = old[w]
        /\ Goes(w, "readd")
     \/ /\ Faults \/ \A i \in Owned : addr[i] # old[w]
        /\ Goes(w, "forget")
  /\ UNCHANGED <<addr, on, tracked, old, met>>

(* Success returns no address; a failure's error is that of an inner variable. *)
ReAdd(w) ==
  /\ worker[w].pc = "readd"
  /\ \/ AddServerFloatingIP(w, old[w]) /\ Goes(w, "detail")
     \/ /\ NotAdded(old[w])
        /\ worker' = [worker EXCEPT ![w] = [@ EXCEPT !.pc = "forget", !.hidden = TRUE]]
        /\ UNCHANGED met
  /\ UNCHANGED <<addr, tracked, old>>

(* fpno.Delete(ipAddress), then Attach *)
Forget(w) ==
  /\ worker[w].pc = "forget"
  /\ tracked' = tracked \ {old[w]}
  /\ Goes(w, "allocate")
  /\ UNCHANGED <<addr, on, old, met>>

-----------------------------------------------------------------------------
(* The rest of ProvisionInstance, and DeprovisionInstance *)
(* The server's floating address, if the server has one, else its own. *)
Shown(w) == LET mine == {addr[i] : i \in {j \in Owned : on[j] = w}}
            IN IF mine = {} THEN {Fixed} ELSE mine

(* Mutant: the address is taken for granted. *)
Provisioned_blank(w) ==
  /\ worker[w].pc = "detail"
  /\ worker' = [worker EXCEPT ![w] = Afresh("up", Null)]
  /\ old' = [v \in Remedial |-> IF v = w THEN worker[w].ip ELSE old[v]]
  /\ met' = [met EXCEPT ![w] = {}]
  /\ UNCHANGED <<addr, on, tracked>>

(* GetServer: without an address of Attach's the server's is taken. *)
Provisioned(w) ==
  /\ worker[w].pc = "detail"
  /\ worker' = [worker EXCEPT ![w] = Afresh("up", Null)]
  /\ \E a \in IF worker[w].ip # Null THEN {worker[w].ip} ELSE Shown(w) :
        old' = [v \in Remedial |-> IF v = w THEN a ELSE old[v]]
  /\ met' = [met EXCEPT ![w] = {}]
  /\ UNCHANGED <<addr, on, tracked>>

(* A server nobody deletes keeps its floating IPs. *)
Abandon(w) == on' = [i \in Id |-> IF on[i] = w THEN Lost ELSE on[i]]

(* GetServer's error abandons the server; a later failure has it deprovisioned. *)
NotProvisioned(w) ==
  /\ worker[w].pc = "detail" /\ Faults
  /\ \/ Abandon(w) /\ worker' = [worker EXCEPT ![w] = Idle]
     \/ worker' = [worker EXCEPT ![w] = Afresh("dettach", Null)] /\ UNCHANGED on
  /\ met' = [met EXCEPT ![w] = {}]
  /\ UNCHANGED <<addr, tracked, old>>

(* The asset is deleted or rebuilt: terminateInstance, which tries three times.  If
   ListServers fails it skips all this, and the server keeps its address: the worker
   stays "up", as it may for ever. *)
Deprovision(w) ==
  /\ worker[w].pc = "up"
  /\ worker' = [worker EXCEPT ![w] = [@ EXCEPT !.pc = "dettach", !.round = 2]]
  /\ UNCHANGED <<addr, on, tracked, old, met>>

(* Dettach looks for the address, in a list of more than one only. *)
Dettach(w) ==
  /\ worker[w].pc = "dettach"
  /\ IF w \notin Remedial THEN Goes(w, "delete")
     ELSE \/ \E i \in Owned :
               /\ addr[i] = old[w] /\ Cardinality(Owned) > 1
               /\ worker' = [worker EXCEPT ![w] = [@ EXCEPT !.pc = "drop", !.held = i]]
          \/ /\ Faults \/ Cardinality(Owned) <= 1 \/ \A i \in Owned : addr[i] # old[w]
             /\ Goes(w, "track")
  /\ met' = [met EXCEPT ![w] = {}]
  /\ UNCHANGED <<addr, on, tracked, old>>

Drop(w) ==
  /\ worker[w].pc = "drop"
  /\ DeleteFloatingIP(worker[w].held)
  /\ worker' = [worker EXCEPT ![w] = [@ EXCEPT !.pc = "track", !.held = Null]]
  /\ UNCHANGED <<tracked, old, met>>

Track(w) ==
  /\ worker[w].pc = "track"
  /\ tracked' = tracked \cup {old[w]}
  /\ Goes(w, "delete")
  /\ Late({v \in Worker : worker[v].pc = "release" /\ addr[worker[v].held] = old[w]})
  /\ UNCHANGED <<addr, on, old>>

(* DeleteServer frees the server's addresses; after the last failure the server is
   left alone. *)
DeleteServer(w) ==
  /\ worker[w].pc = "delete"
  /\ \/ /\ on' = [i \in Id |-> IF on[i] = w THEN Null ELSE on[i]]
        /\ worker' = [worker EXCEPT ![w] = Idle]
     \/ /\ Faults /\ worker[w].round = 0
        /\ Abandon(w) /\ worker' = [worker EXCEPT ![w] = Idle]
     \/ /\ Faults /\ worker[w].round > 0
        /\ worker' = [worker EXCEPT ![w] =
             [@ EXCEPT !.pc = "dettach", !.round = worker[w].round - 1]]
        /\ UNCHANGED on
  /\ UNCHANGED <<addr, tracked, old, met>>

-----------------------------------------------------------------------------
AttachStep(w) == Allocate(w) \/ ListFree(w) \/ Find(w) \/ Release(w) \/ Add(w) \/ Undo(w)
RetainStep(w) == Look(w) \/ ReAdd(w) \/ Forget(w)
DeprovisionStep(w) == Dettach(w) \/ Drop(w) \/ Track(w) \/ DeleteServer(w)
Working(w) == AttachStep(w) \/ RetainStep(w) \/ DeprovisionStep(w)
              \/ Provisioned(w) \/ NotProvisioned(w)

Next == \E w \in Worker : Built(w) \/ Deprovision(w) \/ Working(w)

Spec == Init /\ [][Next]_vars

-----------------------------------------------------------------------------
(* A server that has its address loses it only with the server, or to a worker that
   found it free before it was attached, that was itself given the address, or whose
   request of remediation names it.  (Attach; Retain) *)
Robs(v, i) == \/ worker[v].pc = "release" /\ worker[v].held = i /\ "late" \in met[v]
              \/ worker[v].pc = "undo" /\ worker[v].held = i
              \/ worker[v].pc = "add" /\ worker[v].ip = addr[i]
              \/ v \in Remedial /\ worker[v].pc \in {"readd", "drop"} /\ addr[i] = old[v]
TakenForReason ==
  [][\A i \in Id, w \in Worker :
       on[i] = w /\ worker[w].pc \in {"detail", "up"} /\ on'[i] \notin {w, Lost}
       => \E v \in Worker \ {w} : Robs(v, i)]_vars

(* Attach fails only if something stood in its way: while there was an address to
   release and nobody else took it, the second round has one.  (Attach) *)
FailsForReason ==
  [][\A w \in Worker :
       /\ worker[w].pc \in {"list", "find", "undo"}
       /\ worker'[w].pc \in {"detail", "dettach"}
       => met'[w] # {}]_vars

(* An address under remediation is released only by a worker that had looked before
   it was tracked.  (Attach, "don't delete, there remediation requests going on") *)
TrackedIsSpared ==
  [][\A w \in Worker :
       LET i == worker[w].held
       IN worker[w].pc = "release" /\ worker'[w].pc = "find"
            => addr[i] = addr'[i] \/ addr[i] \notin tracked \/ "late" \in met[w]]_vars

=============================================================================
