------------------------- MODULE SchedulerInvariant -------------------------
(***************************************************************************)
(* The inductive invariant of the provisioning engine, from which the      *)
(* promises of SchedulerProperties follow.                                 *)
(*                                                                         *)
(* As long as no two tasks held an asset together, all that concerns it is *)
(* its record, the instance its caller has, its live servers, its mishaps  *)
(* and the one task that holds it, if any: Fits and Rest say how these go  *)
(* together.  What holds even of assets whose tasks overlap is said of     *)
(* single records (Shaped) and of single servers (Promised, Condemned).    *)
(***************************************************************************)
EXTENDS SchedulerProperties

Alone(a)    == "overlap" \notin scars[a]
Holds(t, a) == ~Free(t) /\ task[t].id = a
Live(a)     == {s \in cloud : owner[s] = a}

-----------------------------------------------------------------------------
(* Single records *)

Unready == {"NEW", "BUILD", "RETRY"}      \* no server in service yet
Unserved == Unready \cup {"MARKED_FOR_DELETION"}

(* A record, stored or in memory: an address comes with the server in service. *)
ShapedDoc(x) ==
  /\ x.status \in Unready => x.ip = Null
  /\ x.status = "SERVER_CREATED" => x.server # Null /\ x.ip = x.server

(* A task: what its goroutine is at tells what its record may say. *)
ShapedTask(r) ==
  /\ ShapedDoc(r)
  /\ r.pc \in {"send", "queued", "start"} => r.status \in {"NEW", "RETRY"}
  /\ r.pc \in {"run", "configure", "cleanup"} => r.status = "BUILD"
  /\ r.pc = "configure" => r.entity # Null
  /\ r.pc = "finish" => r.status \in {"RETRY", "SERVER_CREATED"}
  /\ r.pc = "notify" => r.status = "SERVER_CREATED"
  /\ r.pc = "record" => r.status \in {"SERVER_CREATED", "MARKED_FOR_DELETION",
                                      "NOTIFICATION_FAILED"}
  /\ r.op = "create" => r.pc \in {"send", "queued"} \cup WorkerPc
  /\ r.op = "retry"  => r.status = "RETRY" /\ r.pc \in {"listed", "lookup", "kill", "send"}
  /\ r.op = "marked" => /\ r.status = "MARKED_FOR_DELETION" /\ ~r.detach
                        /\ r.pc \in {"listed", "lookup", "kill", "remove"}
  /\ r.op = "delete" => r.pc \in KillerPc

Shaped == /\ \A t \in Task : ~Free(t) => ShapedTask(task[t])
          /\ \A a \in Asset : ShapedDoc(db[a])

-----------------------------------------------------------------------------
(* Single servers *)

(* The task may still tell the caller of server s. *)
Teller(r, s) ==
  \/ r.pc = "configure" /\ r.entity = s
  \/ r.pc \in {"finish", "notify"} /\ r.status = "SERVER_CREATED" /\ r.server = s

Untold(s) == \A a \in Asset : vertex[a] # s
Doomed(s) == Untold(s) /\ \A t \in Task : ~Teller(task[t], s)

(* A server is told of once, by one task. *)
Promised ==
  \A t \in Task, s \in Server :
    Teller(task[t], s) => Untold(s) /\ \A u \in Task : Teller(task[u], s) => u = t

(* The server of a record that is not, or no more, to be served is in no
   caller's hands and will never be. *)
CondemnedBy(x) == x.status \in Unserved /\ x.server \in Server => Doomed(x.server)
Condemned == /\ \A t \in Task : CondemnedBy(task[t])
             /\ \A a \in Asset : CondemnedBy(db[a])

-----------------------------------------------------------------------------
(* Single assets: d is the record, v the instance the caller has, live the
   servers that run for the asset, sc its mishaps. *)

Met(sc, kinds) == sc \cap kinds # {}

(* The server of a failed attempt is gone. *)
Cleared(s, live, sc) == s \notin live \/ Met(sc, {"write", "detail", "delete"})

Consistent(d, v, live, sc) ==
  /\ d.status \in Unready => v = Null \/ Met(sc, {"write"})
  /\ d.status = "RETRY" => Cleared(d.server, live, sc)

(* No task holds the asset. *)
Rest(d, v, live, sc) ==
  /\ v = Null \/ v \in live \/ Met(sc, {"crash", "notify"})
  /\ d.status = "SERVER_CREATED" =>
       \/ d.server \in live /\ v = d.server
       \/ Met(sc, {"crash", "write", "provider"})
  /\ live \subseteq {d.server} \/ Met(sc, LeakScars)

(* The task r holds the asset. *)
Attempting == {"run", "configure", "cleanup", "finish"}
Beginning(r) == r.pc \in {"send", "queued", "start", "run", "configure"} \/ r.op = "retry"

FitsRecord(r, d, live, sc) ==
  /\ r.pc # "gone" => d # NoDoc
  /\ r.op \in {"retry", "marked"} \/ r.pc \in {"send", "queued", "start"} => d = Stored(r)
  /\ r.op = "delete" /\ r.pc # "gone" => d = Stored(r)
  /\ r.pc \in Attempting => d.status \in Unready /\ Cleared(d.server, live, sc)
  /\ r.pc \in {"notify", "record"} =>
       \/ d.status = "SERVER_CREATED" /\ d.server = r.server
       \/ Met(sc, {"write"})
  /\ r.pc = "gone" => d = NoDoc \/ Met(sc, {"provider", "write"})

FitsCloud(r, d, live, sc) ==
  /\ Beginning(r) => Cleared(r.server, live, sc)
  /\ r.pc = "finish" /\ r.status = "RETRY" => Cleared(r.server, live, sc)
  /\ r.pc = "configure" => r.entity \in live
  /\ r.pc \in {"finish", "notify", "record"} /\ r.status = "SERVER_CREATED" => r.server \in live
  /\ r.pc = "notify" => r.server \in live
  /\ r.pc = "remove" => r.server \notin live \/ Met(sc, {"list", "delete"})
  /\ r.pc = "gone" => \/ r.server \notin live \/ r.server = d.server
                      \/ Met(sc, {"list", "delete", "write"})
  /\ \/ live \subseteq {d.server, r.server} \cup IF r.pc = "configure" THEN {r.entity} ELSE {}
     \/ Met(sc, LeakScars)

FitsCaller(r, v, live, sc) ==
  /\ r.op = "delete" \/ v = Null \/ v \in live \/ Met(sc, {"crash", "notify"})
  /\ r.op = "delete" /\ ~r.detach => v = Null \/ Met(sc, {"notify"})
  /\ r.pc = "record" /\ r.status = "SERVER_CREATED" => v = r.server

Fits(r, d, v, live, sc) ==
  FitsRecord(r, d, live, sc) /\ FitsCloud(r, d, live, sc) /\ FitsCaller(r, v, live, sc)

(* One task at a time holds an asset that is alone, and none one that does not
   exist yet. *)
Exclusive ==
  \A a \in Asset : Alone(a) => \A t, u \in Task : Holds(t, a) /\ Holds(u, a) => t = u

Unborn ==
  /\ \A a \in Asset : a \notin issued =>
       ~Busy(a) /\ db[a] = NoDoc /\ vertex[a] = Null /\ Live(a) = {}
  /\ \A s \in cloud : owner[s] # Null

Kept ==
  \A a \in Asset : Alone(a) =>
    /\ Consistent(db[a], vertex[a], Live(a), scars[a])
    /\ \A t \in Task : Holds(t, a) => Fits(task[t], db[a], vertex[a], Live(a), scars[a])
    /\ ~Busy(a) => Rest(db[a], vertex[a], Live(a), scars[a])

-----------------------------------------------------------------------------
(* Somebody is at work on a request that is not built yet. *)
Working(r) == r.pc \in {"send", "queued"} \cup WorkerPc
Tended ==
  \A a \in Asset : db[a].status \in {"NEW", "BUILD"} =>
    \/ \E t \in Task : Working(task[t]) /\ task[t].id = a
    \/ Excused(a, {"crash", "provider", "write"})

IInv == Shaped /\ Promised /\ Condemned /\ Exclusive /\ Unborn /\ Kept /\ Tended
=============================================================================
