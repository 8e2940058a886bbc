------------------------ MODULE SchedulerSafetyProofs ------------------------
(***************************************************************************)
(* What holds of single assets as long as no two tasks hold them together: *)
(* Exclusive, Unborn and Kept of SchedulerInvariant, the work in progress  *)
(* (Tended), and the promises of the engine that follow.                   *)
(***************************************************************************)
EXTENDS SchedulerProofs, SchedulerContract

-----------------------------------------------------------------------------
(* Single assets: record d, caller's instance v, running servers live and mishaps sc go
   together with the request r that holds the asset *)

(* The request r holds an asset whose record is d, or none does. *)
Holding(r, d, v, live, sc) == Consistent(d, v, live, sc) /\ Fits(r, d, v, live, sc)
Resting(d, v, live, sc) == Consistent(d, v, live, sc) /\ Rest(d, v, live, sc)
Stands(q, d, v, live, sc) ==
  \/ q = FreeTask /\ Resting(d, v, live, sc)
  \/ q.pc # "free" /\ Holding(q, d, v, live, sc)
Sound(r, d, v, live, sc) ==
  r \in TaskRec /\ ShapedTask(r) /\ Holding(r, d, v, live, sc)

(* Mishaps are not forgotten. *)
LEMMA MetGrows ==
  ASSUME NEW sc, NEW m, sc \subseteq m
  PROVE  \A kinds : Met(sc, kinds) => Met(m, kinds)
BY DEF Met

(* A server that should be gone is gone, but for mishaps that leak. *)
LEMMA ClearedLeaks ==
  ASSUME NEW s, NEW live, NEW sc, Cleared(s, live, sc), ~Met(sc, LeakScars)
  PROVE  s \notin live
BY DEF Cleared, Met, LeakScars

(* A record stays consistent when servers go and mishaps come. *)
LEMMA ConsistentKept ==
  ASSUME NEW d, NEW v, NEW live, NEW sc, NEW l, NEW m, Consistent(d, v, live, sc),
         sc \subseteq m, d.server \in l => d.server \in live
  PROVE  Consistent(d, v, l, m)
BY MetGrows DEF Consistent, Cleared

(* Workers are at work on creations. *)
LEMMA WorkerIsCreate ==
  ASSUME NEW r \in TaskRec, ShapedTask(r), r.pc \in WorkerPc \cup {"queued"}
  PROVE  r.op = "create"
BY DEF ShapedTask, TaskRec, Op, WorkerPc, KillerPc

(* A failed attempt; its server is s. *)
LEMMA RetriedStands ==
  ASSUME NEW r, NEW d, NEW v, NEW live, NEW sc, NEW q, NEW s, NEW l, NEW m,
         Sound(r, d, v, live, sc), r.pc \in {"run", "configure", "cleanup"},
         Retried(q, r, s), sc \subseteq m, v \in live => v \in l,
         d.server \in l => d.server \in live,
         Cleared(s, l, m), l \subseteq {d.server, s} \/ Met(m, LeakScars)
  PROVE  Holding(q, d, v, l, m)
<1>1. /\ q.pc = "run" \/ (q.pc = "finish" /\ q.status = "RETRY") 
      /\ q.op = "create" /\ q.server = s
  BY WorkerIsCreate DEF Sound, WorkerPc, Retried, Becomes
<1>2. \A kinds : Met(sc, kinds) => Met(m, kinds)
  BY MetGrows
<1>3. /\ Consistent(d, v, live, sc) /\ FitsRecord(r, d, live, sc)
      /\ FitsCloud(r, d, live, sc) /\ FitsCaller(r, v, live, sc) /\ r.op = "create"
  BY WorkerIsCreate DEF Sound, Holding, Fits, WorkerPc
<1>4. Consistent(d, v, l, m)
  BY <1>3, ConsistentKept
<1>5. FitsRecord(q, d, l, m)
  BY <1>1, <1>2, <1>3 DEF FitsRecord, Cleared, Attempting
<1>6. FitsCloud(q, d, l, m)
  BY <1>1, <1>2, <1>3 DEF FitsCloud
<1>7. FitsCaller(q, v, l, m)
  BY <1>1, <1>2, <1>3 DEF FitsCaller
<1> QED BY <1>4, <1>5, <1>6, <1>7 DEF Holding, Fits

(* A termination has ended: by a deletion, or because it was given up. *)
LEMMA DoneStands ==
  ASSUME NEW r, NEW d, NEW v, NEW live, NEW sc, NEW q, NEW l, NEW m,
         Sound(r, d, v, live, sc), r.pc \in {"lookup", "kill"},
         Done(q, r), sc \subseteq m, l \subseteq live,
         r.op = "retry" \/ r.server \notin l \/ Met(m, {"list", "delete"}),
         v \in live /\ r.op # "delete" => v \in l
  PROVE  Holding(q, d, v, l, m)
<1>1. /\ q.op = r.op /\ Stored(q) = Stored(r) /\ q.server = r.server /\ q.detach = r.detach
      /\ (q.pc = "send" /\ q.op = "retry") \/ (q.pc = "remove" /\ q.op # "retry")
  BY DEF Done, Becomes, Stored
<1>2. \A kinds : Met(sc, kinds) => Met(m, kinds)
  BY MetGrows
<1>3. /\ Consistent(d, v, live, sc) /\ FitsRecord(r, d, live, sc)
      /\ FitsCloud(r, d, live, sc) /\ FitsCaller(r, v, live, sc)
      /\ r.op \in {"retry", "marked", "delete"}
  BY DEF Sound, Holding, Fits, ShapedTask, TaskRec, Op, WorkerPc
<1>4. Consistent(d, v, l, m)
  BY <1>3, ConsistentKept
<1>5. FitsRecord(q, d, l, m)
  BY <1>1, <1>2, <1>3 DEF FitsRecord, Cleared, Attempting
<1>6. FitsCloud(q, d, l, m)
  BY <1>1, <1>2, <1>3 DEF FitsCloud, Beginning, Cleared
<1>7. FitsCaller(q, v, l, m)
  BY <1>1, <1>2, <1>3 DEF FitsCaller
<1> QED BY <1>4, <1>5, <1>6, <1>7 DEF Holding, Fits

(* A deletion has ended; so did the last task that held the asset. *)
LEMMA FinishedStands ==
  ASSUME NEW r, NEW d, NEW v, NEW live, NEW sc, NEW q, NEW e, NEW m,
         Sound(r, d, v, live, sc), r.op # "retry", Finished(q, r),
         \/ r.pc = "lookup" /\ e = d /\ m = sc \cup {"provider"}
         \/ r.pc = "remove" /\ e = NoDoc /\ m = sc
         \/ r.pc = "remove" /\ e = d /\ m = sc \cup {"write"}
  PROVE  Stands(q, e, v, live, m)
<1>1. \A kinds : Met(sc, kinds) => Met(m, kinds)
  BY MetGrows
<1>2. /\ Consistent(d, v, live, sc) /\ FitsRecord(r, d, live, sc)
      /\ FitsCloud(r, d, live, sc) /\ FitsCaller(r, v, live, sc)
      /\ r.op \in {"marked", "delete"} /\ (r.op = "marked" => ~r.detach)
  BY DEF Sound, Holding, Fits, ShapedTask, TaskRec, Op, WorkerPc
<1>3. d = Stored(r) /\ d.server = r.server
  BY <1>2 DEF FitsRecord, Stored
<1>4. /\ r.pc = "lookup" => Met(m, {"crash", "write", "provider"}) /\ Met(m, {"provider", "write"})
      /\ r.pc = "remove" /\ e # NoDoc =>
           /\ Met(m, LeakScars) /\ Met(m, {"crash", "write", "provider"})
           /\ Met(m, {"provider", "write"}) /\ Met(m, {"list", "delete", "write"})
  BY DEF Met, LeakScars
<1>5. Consistent(e, v, live, m)
  BY <1>1, <1>2 DEF Consistent, Cleared, NoDoc, Unready
<1>6. Met(m, {"list", "delete"}) => Met(m, LeakScars)
  BY DEF Met, LeakScars
<1>7. live \subseteq {e.server} \/ Met(m, LeakScars)
  BY <1>1, <1>2, <1>3, <1>4, <1>6 DEF FitsCloud
<1>8. CASE q = FreeTask /\ ~r.detach
  <2>1. Rest(e, v, live, m)
    BY <1>1, <1>2, <1>4, <1>7, <1>8 DEF Rest, FitsCaller, Met, NoDoc
  <2> QED BY <1>5, <1>8, <2>1 DEF Stands, Resting
<1>9. CASE r.detach /\ Becomes(q, r, r.op, "gone", r.status, r.server, r.ip, r.entity, r.detach)
  <2>1. q.op = "delete" /\ q.pc = "gone" /\ q.server = r.server /\ q.detach
    BY <1>2, <1>9 DEF Becomes
  <2>2. FitsRecord(q, e, live, m)
    BY <1>4, <2>1 DEF FitsRecord, Attempting
  <2>3. FitsCloud(q, e, live, m)
    BY <1>1, <1>2, <1>3, <1>4, <1>7, <2>1 DEF FitsCloud, Beginning, Met
  <2>4. FitsCaller(q, v, live, m)
    BY <2>1 DEF FitsCaller
  <2> QED BY <1>5, <2>1, <2>2, <2>3, <2>4 DEF Stands, Holding, Fits
<1> QED BY <1>8, <1>9 DEF Finished

(* Record d, or what was written of x: e and the mishaps m. *)
Writes(d, sc, x, e, m) ==
  \/ e = Stored(x) /\ m = sc
  \/ e = d /\ m = sc \cup {"write"}

(* What is known of a record after a write. *)
LEMMA WritesFacts ==
  ASSUME NEW d, NEW sc, NEW x, NEW e, NEW m, Writes(d, sc, x, e, m)
  PROVE  /\ sc \subseteq m
         /\ \/ /\ e = Stored(x) /\ e.status = x.status /\ e.server = x.server
               /\ e.ip = x.ip
               /\ (e # NoDoc \/ x.status = "NONE")
            \/ /\ e = d /\ Met(m, {"write"}) /\ Met(m, LeakScars)
               /\ Met(m, {"write", "detail", "delete"}) /\ Met(m, {"crash", "write", "provider"})
BY DEF Writes, Stored, NoDoc, Met, LeakScars

(* createServer's first Update. *)
LEMMA StartStands ==
  ASSUME NEW r, NEW d, NEW v, NEW live, NEW sc, NEW q, NEW e, NEW m,
         Sound(r, d, v, live, sc), r.pc = "start",
         Becomes(q, r, r.op, "run", "BUILD", r.server, r.ip, r.entity, r.detach),
         Writes(d, sc, q, e, m)
  PROVE  Holding(q, e, v, live, m)
<1>1. /\ q.pc = "run" /\ q.op = "create" /\ q.status = "BUILD" /\ q.server = r.server
      /\ r.op = "create" /\ r.status \in {"NEW", "RETRY"}
  BY WorkerIsCreate DEF Sound, Becomes, WorkerPc, ShapedTask
<1>2. \A kinds : Met(sc, kinds) => Met(m, kinds)
  BY MetGrows, WritesFacts
<1>3. /\ Consistent(d, v, live, sc) /\ FitsRecord(r, d, live, sc)
      /\ FitsCloud(r, d, live, sc) /\ FitsCaller(r, v, live, sc)
  BY DEF Sound, Holding, Fits
<1>4. d = Stored(r) /\ d.status = r.status /\ d.server = r.server /\ d # NoDoc
  BY <1>1, <1>3 DEF FitsRecord, Stored
<1>5. /\ e.server = d.server /\ e.status \in Unready /\ e # NoDoc
      /\ e.status = "RETRY" => d.status = "RETRY"
  BY <1>1, <1>4, WritesFacts DEF Unready
<1>6. Cleared(e.server, live, m)
  BY <1>1, <1>2, <1>3, <1>4, <1>5 DEF FitsCloud, Beginning, Cleared
<1>7. Consistent(e, v, live, m)
  BY <1>1, <1>2, <1>3, <1>4, <1>5, <1>6 DEF Consistent, Unready
<1>8. FitsRecord(q, e, live, m)
  BY <1>1, <1>5, <1>6 DEF FitsRecord, Attempting
<1>9. FitsCloud(q, e, live, m)
  BY <1>1, <1>2, <1>3, <1>4, <1>5, <1>6 DEF FitsCloud
<1>10. FitsCaller(q, v, live, m)
  BY <1>1, <1>2, <1>3 DEF FitsCaller
<1> QED BY <1>7, <1>8, <1>9, <1>10 DEF Holding, Fits

(* The worker has no provider. *)
LEMMA StartFailsStands ==
  ASSUME NEW r, NEW d, NEW v, NEW live, NEW sc, NEW m,
         Sound(r, d, v, live, sc), r.pc = "start", m = sc \cup {"provider"}
  PROVE  Resting(d, v, live, m)
<1>1. r.op = "create"
  BY WorkerIsCreate DEF Sound, WorkerPc
<1>2. (\A kinds : Met(sc, kinds) => Met(m, kinds)) /\ Met(m, {"crash", "write", "provider"})
  BY MetGrows DEF Met
<1>3. /\ Consistent(d, v, live, sc) /\ FitsRecord(r, d, live, sc)
      /\ FitsCloud(r, d, live, sc) /\ FitsCaller(r, v, live, sc)
  BY DEF Sound, Holding, Fits
<1>4. d.server = r.server
  BY <1>3 DEF FitsRecord, Stored
<1>5. Rest(d, v, live, m)
  BY <1>1, <1>2, <1>3, <1>4 DEF Rest, FitsCloud, FitsCaller
<1> QED BY <1>3, <1>5, ConsistentKept DEF Resting

(* The attempt's server x is created. *)
LEMMA RunServerStands ==
  ASSUME NEW r, NEW d, NEW v, NEW live, NEW sc, NEW q, NEW x, NEW l,
         Sound(r, d, v, live, sc), r.pc = "run",
         Becomes(q, r, r.op, "configure", r.status, r.server, r.ip, x, r.detach),
         x # r.server, x # d.server, l = live \cup {x}
  PROVE  Holding(q, d, v, l, sc)
<1>1. /\ q.pc = "configure" /\ q.op = "create" /\ q.server = r.server /\ q.entity = x
      /\ r.op = "create"
  BY WorkerIsCreate DEF Sound, Becomes, WorkerPc
<1>2. /\ Consistent(d, v, live, sc) /\ FitsRecord(r, d, live, sc)
      /\ FitsCloud(r, d, live, sc) /\ FitsCaller(r, v, live, sc)
  BY DEF Sound, Holding, Fits
<1>3. Consistent(d, v, l, sc)
  BY <1>2, ConsistentKept
<1>4. FitsRecord(q, d, l, sc)
  BY <1>1, <1>2 DEF FitsRecord, Cleared, Attempting
<1>5. FitsCloud(q, d, l, sc)
  BY <1>1, <1>2 DEF FitsCloud, Beginning, Cleared
<1>6. FitsCaller(q, v, l, sc)
  BY <1>1, <1>2 DEF FitsCaller
<1> QED BY <1>3, <1>4, <1>5, <1>6 DEF Holding, Fits

(* The attempt has an address and an agent, or is to be cleaned up. *)
LEMMA ConfigureStands ==
  ASSUME NEW r, NEW d, NEW v, NEW live, NEW sc, NEW q,
         Sound(r, d, v, live, sc), r.pc = "configure",
         \/ Becomes(q, r, r.op, "finish", "SERVER_CREATED", r.entity, r.entity, Null, r.detach)
         \/ Becomes(q, r, r.op, "cleanup", r.status, r.entity, r.ip, r.entity, r.detach)
  PROVE  Holding(q, d, v, live, sc)
<1>1. /\ q.pc = "cleanup" \/ (q.pc = "finish" /\ q.status = "SERVER_CREATED")
      /\ q.op = "create" /\ q.server = r.entity /\ r.op = "create"
  BY WorkerIsCreate DEF Sound, Becomes, WorkerPc
<1>2. /\ Consistent(d, v, live, sc) /\ FitsRecord(r, d, live, sc)
      /\ FitsCloud(r, d, live, sc) /\ FitsCaller(r, v, live, sc)
  BY DEF Sound, Holding, Fits
<1>3. r.server \notin live \/ Met(sc, LeakScars)
  BY <1>2, ClearedLeaks DEF FitsCloud, Beginning
<1>4. FitsRecord(q, d, live, sc)
  BY <1>1, <1>2 DEF FitsRecord, Attempting
<1>5. FitsCloud(q, d, live, sc)
  BY <1>1, <1>2, <1>3 DEF FitsCloud, Beginning
<1>6. FitsCaller(q, v, live, sc)
  BY <1>1, <1>2 DEF FitsCaller
<1> QED BY <1>2, <1>4, <1>5, <1>6 DEF Holding, Fits

(* The end of createServer: nothing is left, or the caller is told. *)
LEMMA FinishStands ==
  ASSUME NEW r, NEW d, NEW v, NEW live, NEW sc, NEW q, NEW e, NEW m,
         Sound(r, d, v, live, sc), r.pc = "finish", Writes(d, sc, r, e, m),
         \/ r.ip = Null /\ q = FreeTask
         \/ /\ r.ip # Null
            /\ Becomes(q, r, r.op, "notify", r.status, r.server, r.ip, r.entity, r.detach)
  PROVE  Stands(q, e, v, live, m)
<1>1. /\ r.op = "create" /\ r.status \in {"RETRY", "SERVER_CREATED"}
      /\ r.ip = Null <=> r.status = "RETRY"
  BY WorkerIsCreate DEF Sound, WorkerPc, ShapedTask, ShapedDoc, Unready
<1>2. \A kinds : Met(sc, kinds) => Met(m, kinds)
  BY MetGrows, WritesFacts
<1>3. /\ Consistent(d, v, live, sc) /\ FitsRecord(r, d, live, sc)
      /\ FitsCloud(r, d, live, sc) /\ FitsCaller(r, v, live, sc)
  BY DEF Sound, Holding, Fits
<1>4. d.status \in Unready /\ Cleared(d.server, live, sc) /\ d # NoDoc
  BY <1>3 DEF FitsRecord, Attempting
<1>5. live \subseteq {r.server} \/ Met(m, LeakScars)
  BY <1>2, <1>3, <1>4, ClearedLeaks DEF FitsCloud
<1>6. Consistent(e, v, live, m)
  <2>1. CASE e = Stored(r)
    <3>1. e.status = r.status /\ e.server = r.server
      BY <2>1 DEF Stored
    <3> QED BY <1>1, <1>2, <1>3, <1>4, <3>1 DEF Consistent, FitsCloud, Cleared, Unready
  <2>2. CASE e = d
    BY <1>3, <2>2, ConsistentKept, WritesFacts
  <2> QED BY <2>1, <2>2 DEF Writes
<1>7. CASE r.ip = Null /\ q = FreeTask
  <2>1. Rest(e, v, live, m)
    BY <1>1, <1>2, <1>3, <1>5, <1>7, WritesFacts DEF Rest, FitsCaller
  <2> QED BY <1>6, <1>7, <2>1 DEF Stands, Resting
<1>8. CASE /\ r.ip # Null
           /\ Becomes(q, r, r.op, "notify", r.status, r.server, r.ip, r.entity, r.detach)
  <2>1. /\ q.op = "create" /\ q.pc = "notify" /\ q.server = r.server
        /\ q.status = "SERVER_CREATED" /\ r.status = "SERVER_CREATED"
    BY <1>1, <1>8 DEF Becomes
  <2>2. FitsRecord(q, e, live, m)
    BY <1>4, <2>1, WritesFacts DEF FitsRecord, Attempting
  <2>3. FitsCloud(q, e, live, m)
    BY <1>3, <1>5, <2>1 DEF FitsCloud, Beginning
  <2>4. FitsCaller(q, v, live, m)
    BY <1>1, <1>2, <1>3, <2>1 DEF FitsCaller
  <2> QED BY <1>6, <2>1, <2>2, <2>3, <2>4 DEF Stands, Holding, Fits
<1> QED BY <1>7, <1>8

(* The caller has the server, or refuses it, or cannot be reached. *)
LEMMA NotifyStands ==
  ASSUME NEW r, NEW d, NEW v, NEW live, NEW sc, NEW q, NEW w, NEW status,
         Sound(r, d, v, live, sc), r.pc = "notify",
         Becomes(q, r, r.op, "record", status, r.server, r.ip, r.entity, r.detach),
         \/ w = v /\ status \in {"MARKED_FOR_DELETION", "NOTIFICATION_FAILED"}
         \/ w = r.server
  PROVE  Holding(q, d, w, live, sc)
<1>1. q.pc = "record" /\ q.op = "create" /\ q.server = r.server /\ r.op = "create"
  BY WorkerIsCreate DEF Sound, Becomes, WorkerPc
<1>2. /\ Consistent(d, v, live, sc) /\ FitsRecord(r, d, live, sc)
      /\ FitsCloud(r, d, live, sc) /\ FitsCaller(r, v, live, sc)
  BY DEF Sound, Holding, Fits
<1>3. r.server \in live /\ (d.status = "SERVER_CREATED" \/ Met(sc, {"write"})) /\ d # NoDoc
  BY <1>2 DEF FitsCloud, FitsRecord
<1>4. Consistent(d, w, live, sc)
  BY <1>2, <1>3 DEF Consistent, Unready
<1>5. FitsRecord(q, d, live, sc)
  BY <1>1, <1>2 DEF FitsRecord, Attempting
<1>6. FitsCloud(q, d, live, sc)
  BY <1>1, <1>2, <1>3 DEF FitsCloud, Beginning
<1>7. FitsCaller(q, w, live, sc)
  BY <1>1, <1>2, <1>3 DEF FitsCaller, Becomes
<1> QED BY <1>4, <1>5, <1>6, <1>7 DEF Holding, Fits

(* The end of updateAndNotify. *)
LEMMA RecordStands ==
  ASSUME NEW r, NEW d, NEW v, NEW live, NEW sc, NEW e, NEW m,
         Sound(r, d, v, live, sc), r.pc = "record", Writes(d, sc, r, e, m)
  PROVE  Resting(e, v, live, m)
<1>1. /\ r.op = "create"
      /\ r.status \in {"SERVER_CREATED", "MARKED_FOR_DELETION", "NOTIFICATION_FAILED"}
  BY WorkerIsCreate DEF Sound, WorkerPc, ShapedTask
<1>2. \A kinds : Met(sc, kinds) => Met(m, kinds)
  BY MetGrows, WritesFacts
<1>3. /\ Consistent(d, v, live, sc) /\ FitsRecord(r, d, live, sc)
      /\ FitsCloud(r, d, live, sc) /\ FitsCaller(r, v, live, sc)
  BY DEF Sound, Holding, Fits
<1>4. Met(sc, {"write"}) => Met(sc, LeakScars)
  BY DEF Met, LeakScars
<1>5. live \subseteq {r.server} \/ Met(m, LeakScars)
  BY <1>2, <1>3, <1>4 DEF FitsCloud, FitsRecord
<1>6. Consistent(e, v, live, m)
  <2>1. CASE e = Stored(r)
    <3>1. e.status = r.status
      BY <2>1 DEF Stored
    <3> QED BY <1>1, <3>1 DEF Consistent, Unready
  <2>2. CASE e = d
    BY <1>3, <2>2, ConsistentKept, WritesFacts
  <2> QED BY <2>1, <2>2 DEF Writes
<1>7. Rest(e, v, live, m)
  BY <1>1, <1>2, <1>3, <1>5, WritesFacts DEF Rest, FitsCaller, FitsCloud
<1> QED BY <1>6, <1>7 DEF Resting

(* The caller gives the server up. *)
LEMMA DetachStands ==
  ASSUME NEW r, NEW d, NEW v, NEW live, NEW sc, NEW q, NEW w, NEW m,
         Sound(r, d, v, live, sc), r.detach, r.pc \in KillerPc,
         \/ r.pc = "gone" /\ q = FreeTask
         \/ /\ r.pc # "gone"
            /\ Becomes(q, r, r.op, r.pc, r.status, r.server, r.ip, r.entity, FALSE),
         \/ w = Null /\ m = sc
         \/ w \in {v, Null} /\ m = sc \cup {"notify"}
  PROVE  Stands(q, d, w, live, m)
<1>1. r.op \in {"retry", "delete"} /\ (r.pc = "gone" => r.op = "delete")
  BY DEF Sound, ShapedTask, TaskRec, Op, WorkerPc, KillerPc
<1>2. /\ \A kinds : Met(sc, kinds) => Met(m, kinds)
      /\ w = Null \/ (Met(m, {"notify"}) /\ Met(m, {"crash", "notify"}))
  BY MetGrows DEF Met
<1>3. /\ Consistent(d, v, live, sc) /\ FitsRecord(r, d, live, sc)
      /\ FitsCloud(r, d, live, sc) /\ FitsCaller(r, v, live, sc)
  BY DEF Sound, Holding, Fits
<1>4. Consistent(d, w, live, m)
  BY <1>2, <1>3 DEF Consistent, Cleared
<1>5. CASE r.pc = "gone" /\ q = FreeTask
  <2>1. Met(sc, {"list", "delete", "write"}) => Met(sc, LeakScars)
    BY DEF Met, LeakScars
  <2>2. Met(sc, {"provider", "write"}) => Met(sc, {"crash", "write", "provider"})
    BY DEF Met
  <2>3. live \subseteq {d.server} \/ Met(m, LeakScars)
    BY <1>2, <1>3, <1>5, <2>1 DEF FitsCloud
  <2>4. d.status # "SERVER_CREATED" \/ Met(m, {"crash", "write", "provider"})
    BY <1>2, <1>3, <1>5, <2>2 DEF FitsRecord, NoDoc
  <2>5. Rest(d, w, live, m)
    BY <1>2, <2>3, <2>4 DEF Rest
  <2> QED BY <1>4, <1>5, <2>5 DEF Stands, Resting
<1>6. CASE /\ r.pc # "gone"
           /\ Becomes(q, r, r.op, r.pc, r.status, r.server, r.ip, r.entity, FALSE)
  <2>1. /\ q.op = r.op /\ q.pc = r.pc /\ q.server = r.server /\ q.status = r.status
        /\ Stored(q) = Stored(r) /\ ~q.detach
    BY <1>6 DEF Becomes, Stored
  <2>2. FitsRecord(q, d, live, m)
    BY <1>2, <1>3, <1>6, <2>1 DEF FitsRecord, Attempting, KillerPc
  <2>3. FitsCloud(q, d, live, m)
    BY <1>2, <1>3, <1>6, <2>1 DEF FitsCloud, Beginning, Cleared, KillerPc
  <2>4. FitsCaller(q, w, live, m)
    BY <1>2, <1>3, <1>6, <2>1 DEF FitsCaller, KillerPc
  <2> QED BY <1>4, <2>1, <2>2, <2>3, <2>4 DEF Stands, Holding, Fits, KillerPc
<1> QED BY <1>5, <1>6

(* Going on without touching anything: to the channel, out of it, from the list
   of a round to the look-up, from the look-up to the kill and from one try of
   it to the next. *)
LEMMA MovesStands ==
  ASSUME NEW r, NEW d, NEW v, NEW live, NEW sc, NEW q, NEW op, NEW pc, NEW l,
         Sound(r, d, v, live, sc),
         Becomes(q, r, op, pc, r.status, r.server, r.ip, r.entity, r.detach),
         \/ r.pc = "send" /\ op = "create" /\ pc = "queued" /\ l = live
         \/ r.pc = "queued" /\ op = r.op /\ pc = "start" /\ l = live
         \/ r.pc = "listed" /\ op = r.op /\ pc = "lookup" /\ l = live
         \/ r.pc \in {"lookup", "kill"} /\ op = r.op /\ pc = "kill" /\ l \subseteq live,
         v \in live /\ r.op # "delete" => v \in l
  PROVE  Holding(q, d, v, l, sc)
<1>1. q.op = op /\ q.pc = pc /\ q.server = r.server /\ q.detach = r.detach
      /\ Stored(q) = Stored(r)
  BY DEF Becomes, Stored
<1>2. /\ Consistent(d, v, live, sc) /\ FitsRecord(r, d, live, sc)
      /\ FitsCloud(r, d, live, sc) /\ FitsCaller(r, v, live, sc) /\ ShapedTask(r)
  BY DEF Sound, Holding, Fits
<1>3. /\ r.pc \in {"send", "queued"} => r.op \in {"create", "retry"}
      /\ r.pc \in {"listed", "lookup", "kill"} => r.op \in {"retry", "marked", "delete"}
  BY DEF Sound, ShapedTask, TaskRec, Op, WorkerPc, KillerPc
<1>4. Consistent(d, v, l, sc)
  BY <1>2, ConsistentKept
<1>5. FitsRecord(q, d, l, sc)
  BY <1>1, <1>2, <1>3 DEF FitsRecord, Attempting
<1>6. FitsCloud(q, d, l, sc)
  BY <1>1, <1>2, <1>3 DEF FitsCloud, Beginning, Cleared
<1>7. FitsCaller(q, v, l, sc)
  BY <1>1, <1>2, <1>3 DEF FitsCaller
<1> QED BY <1>4, <1>5, <1>6, <1>7 DEF Holding, Fits

(* A request read from the record of an asset nobody holds. *)
LEMMA ReadStands ==
  ASSUME NEW q, NEW a, NEW d, NEW v, NEW live, NEW sc, NEW op, NEW pc, NEW detach,
         Reads(q, a, d, op, pc, detach), Resting(d, v, live, sc), d # NoDoc,
         \/ op = "delete" /\ pc = "lookup" /\ detach = TRUE
         \/ op = "retry" /\ pc = "listed" /\ d.status = "RETRY"
         \/ op = "marked" /\ pc = "listed"
  PROVE  Holding(q, d, v, live, sc)
<1>1. q.op = op /\ q.pc = pc /\ q.server = d.server /\ q.detach = detach /\ Stored(q) = d
  BY DEF Reads
<1>2. Consistent(d, v, live, sc) /\ Rest(d, v, live, sc)
  BY DEF Resting
<1>3. FitsRecord(q, d, live, sc)
  BY <1>1 DEF FitsRecord, Attempting
<1>4. FitsCloud(q, d, live, sc)
  BY <1>1, <1>2 DEF FitsCloud, Beginning, Consistent, Rest
<1>5. FitsCaller(q, v, live, sc)
  BY <1>1, <1>2 DEF FitsCaller, Rest
<1> QED BY <1>2, <1>3, <1>4, <1>5 DEF Holding, Fits

(* A crash, and the birth of an asset. *)
LEMMA CrashStands ==
  ASSUME NEW d, NEW v, NEW live, NEW sc, NEW m, Consistent(d, v, live, sc),
         m = sc \cup {"crash"}
  PROVE  Resting(d, v, live, m)
<1>1. /\ Met(m, {"crash", "notify"}) /\ Met(m, {"crash", "write", "provider"})
      /\ Met(m, LeakScars)
  BY DEF Met, LeakScars
<1> QED BY <1>1, ConsistentKept DEF Resting, Rest

(* It stands whether somebody holds it or not. *)
LEMMA InsertedStands ==
  ASSUME NEW d, Inserted(d), NEW sc
  PROVE  /\ Resting(d, Null, {}, sc)
         /\ \A q : q.op = "create" /\ q.pc = "send" /\ Stored(q) = d
                   => Holding(q, d, Null, {}, sc)
<1>1. Consistent(d, Null, {}, sc) /\ Rest(d, Null, {}, sc)
  BY DEF Inserted, Consistent, Rest
<1>2. ASSUME NEW q, q.op = "create", q.pc = "send", Stored(q) = d
      PROVE  Fits(q, d, Null, {}, sc)
  <2>1. FitsRecord(q, d, {}, sc)
    BY <1>2 DEF FitsRecord, Inserted, Attempting
  <2>2. FitsCloud(q, d, {}, sc)
    BY <1>2 DEF FitsCloud, Cleared
  <2>3. FitsCaller(q, Null, {}, sc)
    BY <1>2 DEF FitsCaller
  <2> QED BY <2>1, <2>2, <2>3 DEF Fits
<1> QED BY <1>1, <1>2 DEF Resting, Holding

-----------------------------------------------------------------------------
(* A step concerns one asset *)

(* Nothing happens to the other assets. *)
Away(a) ==
  \A b \in Asset : b # a =>
    /\ db'[b] = db[b] /\ vertex'[b] = vertex[b] /\ scars'[b] = scars[b]
    /\ Live(b)' = Live(b)

(* A step of task t, which holds asset a, changes a's affairs only. *)
AtHome(t, a) ==
  /\ task[t] \in TaskRec /\ task[t].id = a /\ Others(t)
  /\ task'[t] = FreeTask \/ (task'[t] \in TaskRec /\ task'[t].id = a)
  /\ Away(a) /\ scars[a] \subseteq scars'[a]
  /\ issued' = issued /\ \A s \in cloud' : owner'[s] # Null

(* The servers of an asset when one is created, one is deleted, or none. *)
LEMMA LiveSame ==
  ASSUME cloud' = cloud, owner' = owner
  PROVE  \A b : Live(b)' = Live(b)
BY DEF Live

(* Deleting a server of asset a, *)
LEMMA LiveGone ==
  ASSUME NEW a, NEW s, cloud' = cloud \ {s}, owner' = owner, s \in cloud => owner[s] = a
  PROVE  Live(a)' = Live(a) \ {s} /\ \A b : b # a => Live(b)' = Live(b)
BY DEF Live

(* and creating one. *)
LEMMA LiveMore ==
  ASSUME Typed, NEW a \in Asset, NEW s \in Server, owner[s] = Null,
         cloud' = cloud \cup {s}, owner' = [owner EXCEPT ![s] = a]
  PROVE  Live(a)' = Live(a) \cup {s} /\ \A b \in Asset : b # a => Live(b)' = Live(b)
<1>1. /\ cloud \subseteq Server /\ owner \in [Server -> Asset \cup {Null}]
      /\ owner'[s] = a /\ \A x \in Server : x # s => owner'[x] = owner[x]
  BY DEF Typed, TypeOK
<1> QED BY <1>1, NullAssumption DEF Live

(* Nothing happens to other assets where one record, one caller and one asset's servers
   change. *)
LEMMA MakeAway ==
  ASSUME Typed, NEW a \in Asset,
         (db' = db /\ scars' = scars) \/ Untouched(a),
         vertex' = vertex \/ (\E v : Told(a, v)),
         \A b \in Asset : b # a => Live(b)' = Live(b)
  PROVE  Away(a)
BY DEF Away, Untouched, Told, Typed, TypeOK

(* A worker changes what is its asset's only: the server it deletes is its own. *)
LEMMA WorkerAtHome ==
  ASSUME Typed, OwnServer, Unborn, NEW t \in Task, Worker(t)
  PROVE  AtHome(t, task[t].id)
<1> DEFINE r == task[t]
           q == task'[t]
           a == r.id
<1>1. r \in TaskRec /\ a \in Asset /\ \A s \in cloud : owner[s] # Null
  BY AtWork DEF Unborn
<1>2. ASSUME NEW s, s = r.server, s \in cloud PROVE owner[s] = a
  <2>1. r.pc # "free"
    BY <1>1 DEF TaskRec, Pc, WorkerPc, KillerPc
  <2>2. s # Null
    BY <1>2, NullAssumption DEF Typed, TypeOK
  <2> QED BY <1>2, <2>1, <2>2 DEF OwnServer, OwnedTask, Owned, Free
<1>3. /\ r.id = a /\ Others(t) /\ (q = FreeTask \/ (q \in TaskRec /\ q.id = a))
      /\ Away(a) /\ scars[a] \subseteq scars'[a]
      /\ issued' = issued /\ (\A s \in cloud' : owner'[s] # Null)
      => AtHome(t, a)
  BY <1>1 DEF AtHome
<1>4. cloud' = cloud /\ owner' = owner =>
        /\ \A b : Live(b)' = Live(b)
        /\ \A s \in cloud' : owner'[s] # Null
  BY <1>1, LiveSame
<1>5. ((db' = db /\ scars' = scars) \/ Untouched(a))
      /\ (vertex' = vertex \/ (\E v : Told(a, v))) /\ (\A b \in Asset : b # a => Live(b)' = Live(b))
      => Away(a)
  BY <1>1, MakeAway
<1>6. (\E kind : Blamed(a, kind)) \/ (\E x : Wrote(a, x)) => scars[a] \subseteq scars'[a]
  BY DEF Blamed, Wrote
<1>7. \A s : Retried(q, r, s) => q \in TaskRec /\ q.id = a
  BY DEF Retried, Becomes
<1>8. cloud' = cloud \ {r.server} /\ owner' = owner =>
        /\ \A b : b # a => Live(b)' = Live(b)
        /\ \A s \in cloud' : owner'[s] # Null
  BY <1>1, <1>2, LiveGone
<1> HIDE DEF r, q, a
<1>9. CASE SendRequest(t)
  <2>1. Others(t) /\ q \in TaskRec /\ q.id = a
        /\ UNCHANGED <<db, scars, vertex, cloud, owner, issued>>
    BY <1>9, SendRequestEffect DEF r, q, a, Becomes
  <2> QED BY <1>3, <1>4, <1>5, <2>1 DEF a, r
<1>10. CASE Start(t)
  <2>1. Others(t) /\ q \in TaskRec /\ q.id = a /\ Untouched(a) /\ (\E x : Wrote(a, x))
        /\ UNCHANGED <<vertex, cloud, owner, issued>>
    BY <1>10, StartEffect DEF r, q, a, Becomes
  <2> QED BY <1>3, <1>4, <1>5, <1>6, <2>1 DEF a, r
<1>11. CASE StartFails(t)
  <2>1. Others(t) /\ q = FreeTask /\ Untouched(a) /\ Blamed(a, "provider")
        /\ UNCHANGED <<vertex, cloud, owner, issued>>
    BY <1>11, StartFailsEffect DEF r, q, a
  <2> QED BY <1>3, <1>4, <1>5, <1>6, <2>1 DEF a, r
<1>12. ASSUME NEW s \in Server, RunServer(t, s) PROVE AtHome(t, a)
  <2>1. /\ Others(t) /\ q \in TaskRec /\ q.id = a /\ owner[s] = Null
        /\ owner' = [owner EXCEPT ![s] = a] /\ cloud' = cloud \cup {s}
        /\ UNCHANGED scars \/ (Blamed(a, "reply") /\ Untouched(a))
        /\ UNCHANGED <<db, vertex, issued>>
    BY <1>7, <1>12, RunServerEffect DEF r, q, a, Becomes
  <2>2. \A b \in Asset : b # a => Live(b)' = Live(b)
    BY <1>1, <2>1, LiveMore
  <2>3. \A x \in cloud' : owner'[x] # Null
    BY <1>1, <2>1, NullAssumption DEF Typed, TypeOK
  <2> QED BY <1>3, <1>5, <1>6, <2>1, <2>2, <2>3 DEF a, r
<1>13. CASE RunServerFails(t)
  <2>1. Others(t) /\ q \in TaskRec /\ q.id = a
        /\ UNCHANGED <<db, scars, vertex, cloud, owner, issued>>
    BY <1>7, <1>13, RunServerFailsEffect DEF r, q, a
  <2> QED BY <1>3, <1>4, <1>5, <2>1 DEF a, r
<1>14. CASE Configure(t)
  <2>1. Others(t) /\ q \in TaskRec /\ q.id = a
        /\ UNCHANGED <<db, scars, vertex, cloud, owner, issued>>
    BY <1>14, ConfigureEffect DEF r, q, a, Becomes
  <2> QED BY <1>3, <1>4, <1>5, <2>1 DEF a, r
<1>15. CASE ConfigureFails(t)
  <2>1. Others(t) /\ q \in TaskRec /\ q.id = a
        /\ UNCHANGED <<db, scars, vertex, cloud, owner, issued>>
    BY <1>15, ConfigureFailsEffect DEF r, q, a, Becomes
  <2> QED BY <1>3, <1>4, <1>5, <2>1 DEF a, r
<1>16. CASE DetailFails(t)
  <2>1. Others(t) /\ q \in TaskRec /\ q.id = a /\ Untouched(a) /\ Blamed(a, "detail")
        /\ UNCHANGED <<vertex, cloud, owner, issued>>
    BY <1>7, <1>16, DetailFailsEffect DEF r, q, a
  <2> QED BY <1>3, <1>4, <1>5, <1>6, <2>1 DEF a, r
<1>17. CASE Cleanup(t)
  <2>1. /\ Others(t) /\ q \in TaskRec /\ q.id = a
        /\ \/ cloud' = cloud \ {r.server} /\ UNCHANGED scars
           \/ UNCHANGED cloud /\ Blamed(a, "delete") /\ Untouched(a)
        /\ UNCHANGED <<db, vertex, owner, issued>>
    BY <1>7, <1>17, CleanupEffect DEF r, q, a
  <2> QED BY <1>3, <1>4, <1>5, <1>6, <1>8, <2>1 DEF a, r
<1>18. CASE Finish(t)
  <2>1. /\ Others(t) /\ (q = FreeTask \/ (q \in TaskRec /\ q.id = a))
        /\ Untouched(a) /\ (\E x : Wrote(a, x))
        /\ UNCHANGED <<vertex, cloud, owner, issued>>
    BY <1>18, FinishEffect DEF r, q, a, Becomes
  <2> QED BY <1>3, <1>4, <1>5, <1>6, <2>1 DEF a, r
<1>19. CASE Notify(t)
  <2>1. /\ Others(t) /\ q \in TaskRec /\ q.id = a
        /\ vertex' = vertex \/ Told(a, r.server)
        /\ UNCHANGED <<db, scars, cloud, owner, issued>>
    BY <1>19, NotifyEffect DEF r, q, a, Becomes
  <2> QED BY <1>3, <1>4, <1>5, <2>1 DEF a, r
<1>20. CASE Record(t)
  <2>1. /\ Others(t) /\ q = FreeTask /\ Untouched(a) /\ (\E x : Wrote(a, x))
        /\ UNCHANGED <<vertex, cloud, owner, issued>>
    BY <1>20, RecordEffect DEF r, q, a
  <2> QED BY <1>3, <1>4, <1>5, <1>6, <2>1 DEF a, r
<1> QED
  BY <1>9, <1>10, <1>11, <1>12, <1>13, <1>14, <1>15, <1>16, <1>17, <1>18, <1>19, <1>20
     DEF Worker, a, r

(* So does a termination, a detach call, and a step of the rescheduler. *)
LEMMA KillerAtHome ==
  ASSUME Typed, OwnServer, Unborn, NEW t \in Task, Killer(t) \/ Detach(t) \/ Take(t)
  PROVE  AtHome(t, task[t].id)
<1> DEFINE r == task[t]
           q == task'[t]
           a == r.id
<1>1. r \in TaskRec /\ a \in Asset /\ \A s \in cloud : owner[s] # Null
  BY AtWork DEF Unborn
<1>2. ASSUME NEW s, s = r.server, s \in cloud PROVE owner[s] = a
  <2>1. r.pc # "free"
    BY <1>1 DEF TaskRec, Pc, WorkerPc, KillerPc
  <2>2. s # Null
    BY <1>2, NullAssumption DEF Typed, TypeOK
  <2> QED BY <1>2, <2>1, <2>2 DEF OwnServer, OwnedTask, Owned, Free
<1>3. /\ r.id = a /\ Others(t) /\ (q = FreeTask \/ (q \in TaskRec /\ q.id = a))
      /\ Away(a) /\ scars[a] \subseteq scars'[a]
      /\ issued' = issued /\ (\A s \in cloud' : owner'[s] # Null)
      => AtHome(t, a)
  BY <1>1 DEF AtHome
<1>4. cloud' = cloud /\ owner' = owner =>
        /\ \A b : Live(b)' = Live(b)
        /\ \A s \in cloud' : owner'[s] # Null
  BY <1>1, LiveSame
<1>5. ((db' = db /\ scars' = scars) \/ Untouched(a))
      /\ (vertex' = vertex \/ (\E v : Told(a, v))) /\ (\A b \in Asset : b # a => Live(b)' = Live(b))
      => Away(a)
  BY <1>1, MakeAway
<1>6. (\E kind : Blamed(a, kind)) \/ (\E x : Wrote(a, x)) => scars[a] \subseteq scars'[a]
  BY DEF Blamed, Wrote
<1>7. Done(q, r) => q \in TaskRec /\ q.id = a
  BY DEF Done, Becomes
<1>17. Finished(q, r) => q = FreeTask \/ (q \in TaskRec /\ q.id = a)
  BY DEF Finished, Becomes
<1>8. cloud' = cloud \ {r.server} /\ owner' = owner =>
        /\ \A b : b # a => Live(b)' = Live(b)
        /\ \A s \in cloud' : owner'[s] # Null
  BY <1>1, <1>2, LiveGone
<1> HIDE DEF r, q, a
<1>9. CASE LookUp(t)
  <2>1. Others(t) /\ q \in TaskRec /\ q.id = a
        /\ UNCHANGED <<db, scars, vertex, cloud, owner, issued>>
    BY <1>7, <1>9, LookUpEffect DEF r, q, a, Becomes
  <2> QED BY <1>3, <1>4, <1>5, <2>1 DEF a, r
<1>10. CASE ListFails(t)
  <2>1. Others(t) /\ q \in TaskRec /\ q.id = a /\ Untouched(a) /\ Blamed(a, "list")
        /\ UNCHANGED <<vertex, cloud, owner, issued>>
    BY <1>7, <1>10, ListFailsEffect DEF r, q, a
  <2> QED BY <1>3, <1>4, <1>5, <1>6, <2>1 DEF a, r
<1>11. CASE LookUpFails(t)
  <2>1. /\ Others(t) /\ (q = FreeTask \/ (q \in TaskRec /\ q.id = a))
        /\ Untouched(a) /\ Blamed(a, "provider")
        /\ UNCHANGED <<vertex, cloud, owner, issued>>
    BY <1>7, <1>17, <1>11, LookUpFailsEffect DEF r, q, a
  <2> QED BY <1>3, <1>4, <1>5, <1>6, <2>1 DEF a, r
<1>12. CASE Kill(t)
  <2>1. /\ Others(t) /\ q \in TaskRec /\ q.id = a /\ cloud' = cloud \ {r.server}
        /\ UNCHANGED <<db, scars, vertex, owner, issued>>
    BY <1>7, <1>12, KillEffect DEF r, q, a
  <2> QED BY <1>3, <1>5, <1>8, <2>1 DEF a, r
<1>13. CASE KillFails(t)
  <2>1. /\ Others(t) /\ q \in TaskRec /\ q.id = a /\ cloud' \in {cloud, cloud \ {r.server}}
        /\ UNCHANGED scars \/ (Blamed(a, "delete") /\ Untouched(a))
        /\ UNCHANGED <<db, vertex, owner, issued>>
    BY <1>7, <1>13, KillFailsEffect DEF r, q, a, Becomes
  <2> QED BY <1>3, <1>4, <1>5, <1>6, <1>8, <2>1 DEF a, r
<1>14. CASE Remove(t)
  <2>1. /\ Others(t) /\ (q = FreeTask \/ (q \in TaskRec /\ q.id = a))
        /\ Untouched(a) /\ (\E x : Wrote(a, x))
        /\ UNCHANGED <<vertex, cloud, owner, issued>>
    BY <1>17, <1>14, RemoveEffect DEF r, q, a
  <2> QED BY <1>3, <1>4, <1>5, <1>6, <2>1 DEF a, r
<1>15. CASE Detach(t)
  <2>1. /\ Others(t) /\ (q = FreeTask \/ (q \in TaskRec /\ q.id = a))
        /\ vertex' = vertex \/ Told(a, Null)
        /\ UNCHANGED scars \/ (Blamed(a, "notify") /\ Untouched(a))
        /\ UNCHANGED <<db, cloud, owner, issued>>
    BY <1>15, DetachEffect DEF r, q, a, Becomes
  <2> QED BY <1>3, <1>4, <1>5, <1>6, <2>1 DEF a, r
<1>16. CASE Take(t)
  <2>1. Others(t) /\ q \in TaskRec /\ q.id = a
        /\ UNCHANGED <<db, scars, vertex, cloud, owner, issued>>
    BY <1>16, TakeEffect DEF r, q, a, Becomes
  <2> QED BY <1>3, <1>4, <1>5, <2>1 DEF a, r
<1> QED
  BY <1>9, <1>10, <1>11, <1>12, <1>13, <1>14, <1>15, <1>16 DEF Killer, a, r

(* So does the start of a worker. *)
LEMMA DispatchAtHome ==
  ASSUME Typed, Unborn, NEW t \in Task, task[t] \in TaskRec, Others(t),
         Becomes(task'[t], task[t], task[t].op, "start", task[t].status,
                 task[t].server, task[t].ip, task[t].entity, task[t].detach),
         UNCHANGED <<db, scars, vertex, cloud, owner, issued>>
  PROVE  AtHome(t, task[t].id)
<1>1. task[t].id \in Asset
  BY DEF TaskRec
<1>2. Away(task[t].id)
  BY <1>1, LiveSame, MakeAway
<1> QED BY <1>2 DEF AtHome, Becomes, Unborn

-----------------------------------------------------------------------------
(* A step of the task that holds an asset *)

(* Only a deletion of the asset is after a server the caller has. *)
LEMMA Spares ==
  ASSUME Typed, Shaped, Condemned, NEW t \in Task, NEW a \in Asset, vertex[a] \in Server,
         task[t].pc \in {"cleanup", "kill"}, task[t].op # "delete"
  PROVE  vertex[a] # task[t].server
<1>1. task[t] \in TaskRec /\ ShapedTask(task[t])
  BY ActiveTask DEF Typed, Shaped, Free
<1>2. task[t].status \in Unserved
  BY <1>1 DEF ShapedTask, TaskRec, Op, WorkerPc, Unserved, Unready
<1> QED BY <1>2 DEF Condemned, CondemnedBy, Doomed, Untold

(* A worker that holds its asset in good order leaves it so, action by action. *)
LEMMA WorkerStands ==
  ASSUME Typed, OwnServer, Shaped, Condemned, NEW t \in Task, Worker(t),
         NEW a \in Asset, a = task[t].id,
         Sound(task[t], db[a], vertex[a], Live(a), scars[a])
  PROVE  Stands(task'[t], db'[a], vertex'[a], Live(a)', scars'[a])
<1> DEFINE r == task[t]
           q == task'[t]
           d == db[a]
           e == db'[a]
           v == vertex[a]
           w == vertex'[a]
           live == Live(a)
           l == Live(a)'
           sc == scars[a]
           m == scars'[a]
<1>1. Sound(r, d, v, live, sc) /\ r.id = a
  OBVIOUS
<1>2. cloud' = cloud /\ owner' = owner => l = live
  BY LiveSame
<1>3. \A x : Wrote(a, Stored(x)) => Writes(d, sc, x, e, m)
  BY DEF Wrote, Writes
<1>4. q.pc # "free" /\ Holding(q, e, w, l, m) => Stands(q, e, w, l, m)
  BY DEF Stands
<1>5. q = FreeTask /\ Resting(e, w, l, m) => Stands(q, e, w, l, m)
  BY DEF Stands
<1>6. /\ db' = db => e = d
      /\ vertex' = vertex => w = v
      /\ scars' = scars => m = sc
      /\ \A kind : Blamed(a, kind) => m = sc \cup {kind}
  BY DEF Blamed
<1>7. \A x : Told(a, x) => w = x
  BY DEF Told, Typed, TypeOK
<1>8. live \subseteq cloud /\ live \subseteq Server
  BY DEF Live, Typed, TypeOK
<1>9. r.pc = "cleanup" /\ r.op # "delete" /\ v \in live => v # r.server
  BY <1>8, Spares
<1>10. \A s : cloud' = cloud \ {s} /\ owner' = owner /\ s = r.server => l = live \ {s}
  <2>1. ASSUME NEW s, s = r.server, s \in cloud PROVE owner[s] = a
    <3>1. r.pc # "free" /\ s # Null
      BY <2>1, NullAssumption DEF Sound, TaskRec, Pc, WorkerPc, KillerPc, Typed, TypeOK
    <3> QED BY <2>1, <3>1 DEF OwnServer, OwnedTask, Owned, Free
  <2> QED BY <2>1, LiveGone
<1>11. ASSUME NEW s \in Server, owner[s] = Null, owner' = [owner EXCEPT ![s] = a],
              cloud' = cloud \cup {s}
       PROVE  l = live \cup {s} /\ s # r.server /\ s # d.server
  <2>1. Unknown(s)
    BY <1>11, FreshIsUnknown
  <2>2. r.pc # "free"
    BY DEF Sound, TaskRec, Pc, WorkerPc, KillerPc
  <2> QED BY <1>11, <2>1, <2>2, LiveMore DEF Unknown
<1> SUFFICES Stands(q, e, w, l, m)
  OBVIOUS
<1> HIDE DEF r, q, d, e, v, w, live, l, sc, m
<1>12. /\ FitsRecord(r, d, live, sc) /\ FitsCloud(r, d, live, sc) /\ r \in TaskRec
       /\ ShapedTask(r)
  BY <1>1 DEF Sound, Holding, Fits
<1>13. CASE SendRequest(t)
  <2>1. /\ r.pc = "send" /\ e = d /\ w = v /\ l = live /\ m = sc
        /\ Becomes(q, r, "create", "queued", r.status, r.server, r.ip, r.entity, r.detach)
    BY <1>2, <1>6, <1>13, SendRequestEffect DEF r, q
  <2>2. q.pc # "free"
    BY <2>1 DEF Becomes
  <2> QED BY <1>1, <1>4, <2>1, <2>2, MovesStands
<1>14. CASE Start(t)
  <2>1. /\ r.pc = "start" /\ w = v /\ l = live /\ Writes(d, sc, q, e, m)
        /\ Becomes(q, r, r.op, "run", "BUILD", r.server, r.ip, r.entity, r.detach)
    BY <1>1, <1>2, <1>3, <1>6, <1>14, StartEffect DEF r, q
  <2>2. q.pc # "free"
    BY <2>1 DEF Becomes
  <2> QED BY <1>1, <1>4, <2>1, <2>2, StartStands
<1>15. CASE StartFails(t)
  <2>1. /\ r.pc = "start" /\ q = FreeTask /\ e = d /\ w = v /\ l = live
        /\ m = sc \cup {"provider"}
    BY <1>1, <1>2, <1>6, <1>15, StartFailsEffect DEF r, q
  <2> QED BY <1>1, <1>5, <2>1, StartFailsStands
<1>16. ASSUME NEW s \in Server, RunServer(t, s) PROVE Stands(q, e, w, l, m)
  <2>1. /\ r.pc = "run" /\ e = d /\ w = v /\ owner[s] = Null
        /\ owner' = [owner EXCEPT ![s] = a] /\ cloud' = cloud \cup {s}
        /\ \/ /\ Becomes(q, r, r.op, "configure", r.status, r.server, r.ip, s, r.detach)
              /\ m = sc
           \/ Retried(q, r, r.server) /\ m = sc \cup {"reply"}
    BY <1>1, <1>6, <1>16, RunServerEffect DEF r, q
  <2>2. l = live \cup {s} /\ s # r.server /\ s # d.server
    BY <1>11, <2>1
  <2>3. CASE /\ Becomes(q, r, r.op, "configure", r.status, r.server, r.ip, s, r.detach)
             /\ m = sc
    <3>1. q.pc # "free"
      BY <2>3 DEF Becomes
    <3> QED BY <1>1, <1>4, <2>1, <2>2, <2>3, <3>1, RunServerStands
  <2>4. CASE Retried(q, r, r.server) /\ m = sc \cup {"reply"}
    <3>1. q.pc # "free"
      BY <2>4 DEF Retried, Becomes
    <3>2. Cleared(r.server, l, m)
      BY <1>12, <2>1, <2>2, <2>4 DEF FitsCloud, Beginning, Cleared, Met
    <3>3. Met(m, LeakScars) /\ sc \subseteq m
      BY <2>4 DEF Met, LeakScars
    <3> QED BY <1>1, <1>4, <2>1, <2>2, <2>4, <3>1, <3>2, <3>3, RetriedStands
  <2> QED BY <2>1, <2>3, <2>4
<1>17. CASE RunServerFails(t)
  <2>1. r.pc = "run" /\ Retried(q, r, r.server) /\ e = d /\ w = v /\ l = live /\ m = sc
    BY <1>2, <1>6, <1>17, RunServerFailsEffect DEF r, q
  <2>2. q.pc # "free"
    BY <2>1 DEF Retried, Becomes
  <2>3. Cleared(r.server, l, m) /\ (l \subseteq {d.server, r.server} \/ Met(m, LeakScars))
    BY <1>12, <2>1 DEF FitsCloud, Beginning
  <2> QED BY <1>1, <1>4, <2>1, <2>2, <2>3, RetriedStands
<1>18. CASE Configure(t)
  <2>1. /\ r.pc = "configure" /\ e = d /\ w = v /\ l = live /\ m = sc
        /\ Becomes(q, r, r.op, "finish", "SERVER_CREATED", r.entity, r.entity, Null, r.detach)
    BY <1>2, <1>6, <1>18, ConfigureEffect DEF r, q
  <2>2. q.pc # "free"
    BY <2>1 DEF Becomes
  <2> QED BY <1>1, <1>4, <2>1, <2>2, ConfigureStands
<1>19. CASE ConfigureFails(t)
  <2>1. /\ r.pc = "configure" /\ e = d /\ w = v /\ l = live /\ m = sc
        /\ Becomes(q, r, r.op, "cleanup", r.status, r.entity, r.ip, r.entity, r.detach)
    BY <1>2, <1>6, <1>19, ConfigureFailsEffect DEF r, q
  <2>2. q.pc # "free"
    BY <2>1 DEF Becomes
  <2> QED BY <1>1, <1>4, <2>1, <2>2, ConfigureStands
<1>20. CASE DetailFails(t)
  <2>1. /\ r.pc = "configure" /\ Retried(q, r, r.entity) /\ e = d /\ w = v /\ l = live
        /\ m = sc \cup {"detail"}
    BY <1>1, <1>2, <1>6, <1>20, DetailFailsEffect DEF r, q
  <2>2. q.pc # "free"
    BY <2>1 DEF Retried, Becomes
  <2>3. Cleared(r.entity, l, m) /\ Met(m, LeakScars) /\ sc \subseteq m
    BY <2>1 DEF Cleared, Met, LeakScars
  <2> QED BY <1>1, <1>4, <2>1, <2>2, <2>3, RetriedStands
<1>21. CASE Cleanup(t)
  <2>1. /\ r.pc = "cleanup" /\ Retried(q, r, r.server) /\ e = d /\ w = v
        /\ \/ l = live \ {r.server} /\ m = sc
           \/ l = live /\ m = sc \cup {"delete"}
    BY <1>1, <1>2, <1>6, <1>10, <1>21, CleanupEffect DEF r, q
  <2>2. q.pc # "free"
    BY <2>1 DEF Retried, Becomes
  <2>3. Cleared(r.server, l, m) /\ sc \subseteq m /\ (m # sc => Met(m, LeakScars))
    BY <2>1 DEF Cleared, Met, LeakScars
  <2>4. v \in live => v \in l
    BY <1>9, <1>12, <2>1, WorkerIsCreate DEF WorkerPc
  <2>5. l \subseteq {d.server, r.server} \/ Met(m, LeakScars)
    BY <1>12, <2>1, <2>3 DEF FitsCloud
  <2> QED BY <1>1, <1>4, <2>1, <2>2, <2>3, <2>4, <2>5, RetriedStands
<1>22. CASE Finish(t)
  <2>1. /\ r.pc = "finish" /\ w = v /\ l = live /\ Writes(d, sc, r, e, m)
        /\ \/ r.ip = Null /\ q = FreeTask
           \/ /\ r.ip # Null
              /\ Becomes(q, r, r.op, "notify", r.status, r.server, r.ip, r.entity, r.detach)
    BY <1>1, <1>2, <1>3, <1>6, <1>22, FinishEffect DEF r, q
  <2> QED BY <1>1, <2>1, FinishStands
<1>23. CASE Notify(t)
  <2>1. PICK status \in {r.status, "MARKED_FOR_DELETION", "NOTIFICATION_FAILED"} :
          /\ r.pc = "notify" /\ e = d /\ l = live /\ m = sc
          /\ Becomes(q, r, r.op, "record", status, r.server, r.ip, r.entity, r.detach)
          /\ \/ w = v /\ status \in {"MARKED_FOR_DELETION", "NOTIFICATION_FAILED"}
             \/ w = r.server
    BY <1>1, <1>2, <1>6, <1>7, <1>23, NotifyEffect DEF r, q
  <2>2. q.pc # "free"
    BY <2>1 DEF Becomes
  <2> QED BY <1>1, <1>4, <2>1, <2>2, NotifyStands
<1>24. CASE Record(t)
  <2>1. /\ r.pc = "record" /\ q = FreeTask /\ w = v /\ l = live /\ Writes(d, sc, r, e, m)
    BY <1>1, <1>2, <1>3, <1>6, <1>24, RecordEffect DEF r, q
  <2> QED BY <1>1, <1>5, <2>1, RecordStands
<1> QED
  BY <1>13, <1>14, <1>15, <1>16, <1>17, <1>18, <1>19, <1>20, <1>21, <1>22, <1>23, <1>24
     DEF Worker

(* So does a termination, a detach call, and a step of the rescheduler. *)
LEMMA KillerStands ==
  ASSUME Typed, OwnServer, Shaped, Condemned, NEW t \in Task,
         Killer(t) \/ Detach(t) \/ Take(t),
         NEW a \in Asset, a = task[t].id,
         Sound(task[t], db[a], vertex[a], Live(a), scars[a])
  PROVE  Stands(task'[t], db'[a], vertex'[a], Live(a)', scars'[a])
<1> DEFINE r == task[t]
           q == task'[t]
           d == db[a]
           e == db'[a]
           v == vertex[a]
           w == vertex'[a]
           live == Live(a)
           l == Live(a)'
           sc == scars[a]
           m == scars'[a]
<1>1. Sound(r, d, v, live, sc) /\ r.id = a
  OBVIOUS
<1>2. cloud' = cloud /\ owner' = owner => l = live
  BY LiveSame
<1>3. q.pc # "free" /\ Holding(q, e, w, l, m) => Stands(q, e, w, l, m)
  BY DEF Stands
<1>4. /\ db' = db => e = d
      /\ vertex' = vertex => w = v
      /\ scars' = scars => m = sc
      /\ \A kind : Blamed(a, kind) => m = sc \cup {kind}
  BY DEF Blamed
<1>5. \A x : Told(a, x) => w = x
  BY DEF Told, Typed, TypeOK
<1>6. live \subseteq cloud /\ live \subseteq Server
  BY DEF Live, Typed, TypeOK
<1>7. r.pc = "kill" /\ r.op # "delete" /\ v \in live => v # r.server
  BY <1>6, Spares
<1>8. \A s : cloud' = cloud \ {s} /\ owner' = owner /\ s = r.server => l = live \ {s}
  <2>1. ASSUME NEW s, s = r.server, s \in cloud PROVE owner[s] = a
    <3>1. r.pc # "free" /\ s # Null
      BY <2>1, NullAssumption DEF Sound, TaskRec, Pc, WorkerPc, KillerPc, Typed, TypeOK
    <3> QED BY <2>1, <3>1 DEF OwnServer, OwnedTask, Owned, Free
  <2> QED BY <2>1, LiveGone
<1>9. Done(q, r) => q.pc # "free"
  BY DEF Done, Becomes
<1>10. r.server \notin cloud' /\ owner' = owner => r.server \notin l
  BY DEF Live
<1> SUFFICES Stands(q, e, w, l, m)
  OBVIOUS
<1> HIDE DEF r, q, d, e, v, w, live, l, sc, m
<1>11. CASE LookUp(t)
  <2>1. /\ r.pc = "lookup" /\ e = d /\ w = v /\ l = live /\ m = sc
        /\ \/ Becomes(q, r, r.op, "kill", r.status, r.server, r.ip, r.entity, r.detach)
           \/ r.server \notin l /\ Done(q, r)
    BY <1>2, <1>4, <1>10, <1>11, LookUpEffect DEF r, q
  <2>2. Becomes(q, r, r.op, "kill", r.status, r.server, r.ip, r.entity, r.detach)
        => q.pc # "free"
    BY DEF Becomes
  <2> QED BY <1>1, <1>3, <1>9, <2>1, <2>2, MovesStands, DoneStands
<1>12. CASE ListFails(t)
  <2>1. /\ r.pc = "lookup" /\ e = d /\ w = v /\ l = live /\ m = sc \cup {"list"}
        /\ Done(q, r)
    BY <1>1, <1>2, <1>4, <1>12, ListFailsEffect DEF r, q
  <2>2. Met(m, {"list", "delete"}) /\ sc \subseteq m
    BY <2>1 DEF Met
  <2> QED BY <1>1, <1>3, <1>9, <2>1, <2>2, DoneStands
<1>13. CASE LookUpFails(t)
  <2>1. /\ r.pc = "lookup" /\ e = d /\ w = v /\ l = live /\ m = sc \cup {"provider"}
        /\ \/ r.op = "retry" /\ Done(q, r)
           \/ r.op # "retry" /\ Finished(q, r)
    BY <1>1, <1>2, <1>4, <1>13, LookUpFailsEffect DEF r, q
  <2>2. CASE r.op = "retry" /\ Done(q, r)
    BY <1>1, <1>3, <1>9, <2>1, <2>2, DoneStands
  <2>3. CASE r.op # "retry" /\ Finished(q, r)
    BY <1>1, <2>1, <2>3, FinishedStands
  <2> QED BY <2>1, <2>2, <2>3
<1>14. CASE Kill(t)
  <2>1. r.pc = "kill" /\ e = d /\ w = v /\ l = live \ {r.server} /\ m = sc /\ Done(q, r)
    BY <1>4, <1>8, <1>14, KillEffect DEF r, q
  <2> QED BY <1>1, <1>3, <1>7, <1>9, <2>1, DoneStands
<1>15. CASE KillFails(t)
  <2>1. /\ r.pc = "kill" /\ e = d /\ w = v /\ (l = live \/ l = live \ {r.server})
        /\ \/ /\ Done(q, r)
              /\ \/ r.server \notin l /\ m = sc
                 \/ m = sc \cup {"delete"}
           \/ /\ Becomes(q, r, r.op, "kill", r.status, r.server, r.ip, r.entity, r.detach)
              /\ m = sc
    BY <1>1, <1>2, <1>4, <1>8, <1>10, <1>15, KillFailsEffect DEF r, q
  <2>2. l \subseteq live /\ (v \in live /\ r.op # "delete" => v \in l) /\ sc \subseteq m
    BY <1>7, <2>1
  <2>3. CASE Done(q, r)
    <3>1. r.server \notin l \/ Met(m, {"list", "delete"})
      BY <2>1, <2>3 DEF Met, Done, Becomes
    <3> QED BY <1>1, <1>3, <1>9, <2>1, <2>2, <2>3, <3>1, DoneStands
  <2>4. CASE /\ Becomes(q, r, r.op, "kill", r.status, r.server, r.ip, r.entity, r.detach)
             /\ m = sc
    <3>1. q.pc # "free"
      BY <2>4 DEF Becomes
    <3> QED BY <1>1, <1>3, <2>1, <2>2, <2>4, <3>1, MovesStands
  <2> QED BY <2>1, <2>3, <2>4
<1>16. CASE Remove(t)
  <2>1. /\ r.pc = "remove" /\ w = v /\ l = live /\ Finished(q, r)
        /\ \/ e = NoDoc /\ m = sc
           \/ e = d /\ m = sc \cup {"write"}
    BY <1>1, <1>2, <1>4, <1>16, RemoveEffect DEF r, q, d, e, sc, m, Wrote
  <2>2. r.op # "retry"
    BY <1>1, <2>1 DEF Sound, ShapedTask
  <2> QED BY <1>1, <2>1, <2>2, FinishedStands
<1>17. CASE Detach(t)
  <2>1. /\ r.detach /\ r.pc \in KillerPc /\ e = d /\ l = live
        /\ \/ r.pc = "gone" /\ q = FreeTask
           \/ /\ r.pc # "gone"
              /\ Becomes(q, r, r.op, r.pc, r.status, r.server, r.ip, r.entity, FALSE)
        /\ \/ w = Null /\ m = sc
           \/ w \in {v, Null} /\ m = sc \cup {"notify"}
    BY <1>1, <1>2, <1>4, <1>5, <1>17, DetachEffect DEF r, q
  <2> QED BY <1>1, <2>1, DetachStands
<1>18. CASE Take(t)
  <2>1. /\ r.pc = "listed" /\ e = d /\ w = v /\ l = live /\ m = sc
        /\ Becomes(q, r, r.op, "lookup", r.status, r.server, r.ip, r.entity, r.detach)
    BY <1>2, <1>4, <1>18, TakeEffect DEF r, q
  <2>2. q.pc # "free"
    BY <2>1 DEF Becomes
  <2> QED BY <1>1, <1>3, <2>1, <2>2, MovesStands
<1> QED
  BY <1>11, <1>12, <1>13, <1>14, <1>15, <1>16, <1>17, <1>18
     DEF Killer

-----------------------------------------------------------------------------
(* All assets *)

(* What Kept says of one asset. *)
KeptAt(a) ==
  Alone(a) =>
    /\ Consistent(db[a], vertex[a], Live(a), scars[a])
    /\ \A t \in Task : Holds(t, a) => Fits(task[t], db[a], vertex[a], Live(a), scars[a])
    /\ ~Busy(a) => Rest(db[a], vertex[a], Live(a), scars[a])
ExclusiveAt(a) == Alone(a) => \A t, u \in Task : Holds(t, a) /\ Holds(u, a) => t = u
UnbornAt(a) ==
  a \notin issued => ~Busy(a) /\ db[a] = NoDoc /\ vertex[a] = Null /\ Live(a) = {}

(* All that is said of single assets. *)
Orderly == Exclusive /\ Unborn /\ Kept

(* The three parts, asset by asset, *)
LEMMA OrderlyParts ==
  /\ Kept <=> \A a \in Asset : KeptAt(a)
  /\ Exclusive <=> \A a \in Asset : ExclusiveAt(a)
  /\ Unborn <=> (\A a \in Asset : UnbornAt(a)) /\ \A s \in cloud : owner[s] # Null
BY DEF Kept, KeptAt, Exclusive, ExclusiveAt, Unborn, UnbornAt

(* and after a step. *)
LEMMA OrderlyPartsNext ==
  /\ Kept' <=> \A a \in Asset : KeptAt(a)'
  /\ Exclusive' <=> \A a \in Asset : ExclusiveAt(a)'
  /\ Unborn' <=> (\A a \in Asset : UnbornAt(a)') /\ \A s \in cloud' : owner'[s] # Null
BY DEF Kept, KeptAt, Exclusive, ExclusiveAt, Unborn, UnbornAt

(* An asset that nothing happens to and whose tasks stay as they are. *)
LEMMA AssetKept ==
  ASSUME NEW b \in Asset, KeptAt(b), ExclusiveAt(b),
         db'[b] = db[b], vertex'[b] = vertex[b], scars'[b] = scars[b], Live(b)' = Live(b),
         \A u \in Task : task'[u] = task[u] \/ (~Holds(u, b) /\ ~Holds(u, b)')
  PROVE  KeptAt(b)' /\ ExclusiveAt(b)' /\ (Busy(b)' <=> Busy(b))
<1>1. \A u \in Task : /\ Holds(u, b)' <=> Holds(u, b)
                      /\ Holds(u, b)' => task'[u] = task[u]
  BY DEF Holds, Free
<1>2. Busy(b) <=> \E u \in Task : Holds(u, b)
  BY DEF Busy, Holds
<1>3. Busy(b)' <=> \E u \in Task : Holds(u, b)'
  BY DEF Busy, Holds
<1>4. Alone(b)' <=> Alone(b)
  BY DEF Alone
<1>5. Busy(b)' <=> Busy(b)
  BY <1>1, <1>2, <1>3
<1>6. ExclusiveAt(b)'
  BY <1>1, <1>4 DEF ExclusiveAt
<1>7. KeptAt(b)'
  BY <1>1, <1>4, <1>5 DEF KeptAt
<1> QED BY <1>5, <1>6, <1>7

(* The asset of the one task that takes a step. *)
LEMMA AssetStands ==
  ASSUME NEW a \in Asset, NEW t \in Task, Others(t), ExclusiveAt(a),
         Alone(a)' => Alone(a) /\ (\A u \in Task : Holds(u, a) => u = t),
         task'[t] = FreeTask \/ (task'[t] \in TaskRec /\ task'[t].id = a),
         Alone(a)' => Stands(task'[t], db'[a], vertex'[a], Live(a)', scars'[a])
  PROVE  KeptAt(a)' /\ ExclusiveAt(a)'
<1>1. CASE ~Alone(a)'
  BY <1>1 DEF KeptAt, ExclusiveAt
<1>2. CASE Alone(a)'
  <2>1. \A u \in Task : Holds(u, a)' => u = t
    BY <1>2 DEF Others, Holds, Free
  <2>2. \/ task'[t] = FreeTask /\ Resting(db'[a], vertex'[a], Live(a)', scars'[a])
        \/ task'[t].pc # "free" /\ Holding(task'[t], db'[a], vertex'[a], Live(a)', scars'[a])
    BY <1>2 DEF Stands
  <2>3. CASE task'[t] = FreeTask /\ Resting(db'[a], vertex'[a], Live(a)', scars'[a])
    <3>1. ~Holds(t, a)'
      BY <2>3 DEF Holds, Free, FreeTask
    <3> QED BY <2>1, <2>3, <3>1 DEF KeptAt, ExclusiveAt, Resting
  <2>4. CASE task'[t].pc # "free"
               /\ Holding(task'[t], db'[a], vertex'[a], Live(a)', scars'[a])
    <3>1. Busy(a)'
      BY <2>4 DEF Busy, Free, FreeTask
    <3> QED BY <2>1, <2>4, <3>1 DEF KeptAt, ExclusiveAt, Holding
  <2> QED BY <2>2, <2>3, <2>4
<1> QED BY <1>1, <1>2

(* A step of one task keeps everything in order if it does so for its asset. *)
LEMMA HomeKeeps ==
  ASSUME Orderly, NEW t \in Task, NEW a \in Asset, AtHome(t, a),
         Alone(a) => Stands(task'[t], db'[a], vertex'[a], Live(a)', scars'[a])
  PROVE  Orderly'
<1>1. /\ Holds(t, a) /\ Busy(a) /\ a \in issued
      /\ task[t].id = a /\ (task'[t] = FreeTask \/ (task'[t] \in TaskRec /\ task'[t].id = a))
      /\ \A u \in Task : u # t => task'[u] = task[u]
  BY DEF AtHome, Others, Holds, Busy, Free, TaskRec, Pc, WorkerPc, KillerPc, Orderly, Unborn
<1>2. /\ \A b \in Asset : KeptAt(b) /\ ExclusiveAt(b) /\ UnbornAt(b)
  BY OrderlyParts DEF Orderly
<1>3. ASSUME NEW b \in Asset, b # a PROVE KeptAt(b)' /\ ExclusiveAt(b)' /\ UnbornAt(b)'
  <2>1. db'[b] = db[b] /\ vertex'[b] = vertex[b] /\ scars'[b] = scars[b] /\ Live(b)' = Live(b)
    BY <1>3 DEF AtHome, Away
  <2>2. \A u \in Task : task'[u] = task[u] \/ (~Holds(u, b) /\ ~Holds(u, b)')
    BY <1>1, <1>3 DEF Holds, Free, FreeTask
  <2>3. KeptAt(b)' /\ ExclusiveAt(b)' /\ (Busy(b)' <=> Busy(b))
    BY <1>2, <2>1, <2>2, AssetKept
  <2> QED BY <1>2, <2>1, <2>3 DEF UnbornAt, AtHome
<1>4. Alone(a)' => Alone(a)
  BY DEF Alone, AtHome
<1>5. KeptAt(a)' /\ ExclusiveAt(a)'
  BY <1>1, <1>2, <1>4, AssetStands DEF Others, ExclusiveAt
<1>6. UnbornAt(a)' /\ (\A s \in cloud' : owner'[s] # Null)
  BY <1>1 DEF UnbornAt, AtHome
<1> QED BY <1>3, <1>5, <1>6, OrderlyPartsNext DEF Orderly

(* The task that holds an asset that is alone. *)
LEMMA HolderSound ==
  ASSUME Typed, Shaped, Kept, NEW t \in Task, task[t] \in TaskRec, NEW a \in Asset,
         task[t].id = a, Alone(a)
  PROVE  Sound(task[t], db[a], vertex[a], Live(a), scars[a])
<1>1. ~Free(t) /\ Holds(t, a)
  BY DEF Free, Holds, TaskRec, Pc, WorkerPc, KillerPc
<1> QED BY <1>1 DEF Shaped, Kept, Sound, Holding

(* A step of a task. *)
LEMMA TaskOrderly ==
  ASSUME Typed, OwnServer, Shaped, Condemned, Orderly, NEW t \in Task,
         Worker(t) \/ Killer(t) \/ Detach(t) \/ Take(t)
  PROVE  Orderly'
<1>0. PICK a \in Asset : a = task[t].id
  BY AtWork
<1>1. task[t] \in TaskRec
  BY AtWork
<1>2. AtHome(t, a)
  BY <1>0, WorkerAtHome, KillerAtHome DEF Orderly
<1>3. Alone(a) => Sound(task[t], db[a], vertex[a], Live(a), scars[a])
  BY <1>0, <1>1, HolderSound DEF Orderly
<1>4. Alone(a) => Stands(task'[t], db'[a], vertex'[a], Live(a)', scars'[a])
  BY <1>0, <1>3, WorkerStands, KillerStands
<1> QED BY <1>2, <1>4, HomeKeeps

(* The start of a worker. *)
LEMMA DispatchOrderly ==
  ASSUME Typed, Shaped, Orderly, Dispatch
  PROVE  Orderly'
<1>1. PICK t \in Task :
         /\ task[t] \in TaskRec /\ task[t].pc = "queued" /\ Others(t)
         /\ Becomes(task'[t], task[t], task[t].op, "start", task[t].status,
                    task[t].server, task[t].ip, task[t].entity, task[t].detach)
         /\ UNCHANGED <<db, scars, vertex, cloud, owner, issued>>
  BY DispatchEffect
<1> DEFINE r == task[t]
           q == task'[t]
<1>0. PICK a \in Asset : a = task[t].id
  BY <1>1 DEF TaskRec
<1>2. AtHome(t, a)
  BY <1>0, <1>1, DispatchAtHome DEF Orderly
<1>3. Alone(a) => Sound(r, db[a], vertex[a], Live(a), scars[a])
  BY <1>0, <1>1, HolderSound DEF Orderly
<1>4. /\ db'[a] = db[a] /\ vertex'[a] = vertex[a] /\ scars'[a] = scars[a]
      /\ Live(a)' = Live(a)
  BY <1>1, LiveSame
<1>5. /\ r.pc = "queued"
      /\ Becomes(q, r, r.op, "start", r.status, r.server, r.ip, r.entity, r.detach)
  BY <1>1
<1> HIDE DEF r, q
<1>6. q.pc = "start"
  BY <1>5 DEF Becomes
<1>7. Alone(a) => Holding(q, db[a], vertex[a], Live(a), scars[a])
  BY <1>3, <1>5, MovesStands
<1>8. Alone(a) => Stands(q, db'[a], vertex'[a], Live(a)', scars'[a])
  BY <1>4, <1>6, <1>7 DEF Stands
<1> QED BY <1>2, <1>8, HomeKeeps DEF q

-----------------------------------------------------------------------------
(* The handlers, a round of the rescheduler, a crash *)

(* An asset is busy if somebody holds it. *)
LEMMA BusyHolds ==
  /\ \A a : Busy(a) <=> \E u \in Task : Holds(u, a)
  /\ \A a : Busy(a)' <=> \E u \in Task : Holds(u, a)'
BY DEF Busy, Holds

(* A snapshot of a record somebody holds is an overlap. *)
LEMMA OverlapEffect ==
  ASSUME NEW as, NEW a \in Asset, scars' = Overlap(as)
  PROVE  /\ a \notin as \/ ~Busy(a) => scars'[a] = scars[a]
         /\ a \in as /\ Busy(a) => ~Alone(a)'
BY DEF Overlap, Alone

(* Rest is what Kept says of an asset nobody holds. *)
LEMMA RestingAt ==
  ASSUME NEW a \in Asset, KeptAt(a), Alone(a), ~Busy(a)
  PROVE  Resting(db[a], vertex[a], Live(a), scars[a])
BY DEF KeptAt, Resting

(* A new asset: nothing was known of it. *)
LEMMA CreateOrderly ==
  ASSUME Typed, Orderly, NEW a \in Asset, NEW t \in Task, CreateAsset(a, t)
  PROVE  Orderly'
<1>1. /\ a \notin issued /\ issued' = issued \cup {a}
      /\ task[t].pc = "free" /\ Others(t)
      /\ task'[t] \in TaskRec /\ task'[t].id = a /\ task'[t].op = "create"
      /\ task'[t].pc = "send" /\ Stored(task'[t]) = db'[a]
      /\ Inserted(db'[a]) /\ Untouched(a) /\ scars' = scars
      /\ UNCHANGED <<vertex, cloud, owner>>
  BY CreateEffect
<1>2. \A b \in Asset : KeptAt(b) /\ ExclusiveAt(b) /\ UnbornAt(b)
  BY OrderlyParts DEF Orderly
<1>3. \A b : Live(b)' = Live(b)
  BY <1>1, LiveSame
<1>4. ASSUME NEW b \in Asset, b # a PROVE KeptAt(b)' /\ ExclusiveAt(b)' /\ UnbornAt(b)'
  <2>1. db'[b] = db[b] /\ vertex'[b] = vertex[b] /\ scars'[b] = scars[b] /\ Live(b)' = Live(b)
    BY <1>1, <1>3, <1>4 DEF Untouched
  <2>2. \A u \in Task : task'[u] = task[u] \/ (~Holds(u, b) /\ ~Holds(u, b)')
    BY <1>1, <1>4 DEF Holds, Free, Others
  <2>3. KeptAt(b)' /\ ExclusiveAt(b)' /\ (Busy(b)' <=> Busy(b))
    BY <1>2, <2>1, <2>2, AssetKept
  <2> QED BY <1>1, <1>2, <2>1, <2>3 DEF UnbornAt
<1>5. ~Busy(a) /\ vertex'[a] = Null /\ Live(a)' = {}
  BY <1>1, <1>2, <1>3 DEF UnbornAt
<1>6. Stands(task'[t], db'[a], vertex'[a], Live(a)', scars'[a])
  BY <1>1, <1>5, InsertedStands DEF Stands
<1>7. \A u \in Task : ~Holds(u, a)
  BY <1>5, BusyHolds
<1>8. Alone(a)' => Alone(a)
  BY <1>1 DEF Alone
<1>9. KeptAt(a)' /\ ExclusiveAt(a)'
  BY <1>1, <1>2, <1>6, <1>7, <1>8, AssetStands
<1>10. UnbornAt(a)' /\ (\A s \in cloud' : owner'[s] # Null)
  BY <1>1 DEF UnbornAt, Orderly, Unborn
<1> QED BY <1>4, <1>9, <1>10, OrderlyPartsNext DEF Orderly

(* A new asset nobody holds, its insert's reply lost. *)
LEMMA CreateFailsOrderly ==
  ASSUME Typed, Orderly, NEW a \in Asset, CreateAssetFails(a)
  PROVE  Orderly'
<1>1. /\ a \notin issued /\ issued' = issued \cup {a}
      /\ Inserted(db'[a]) /\ Blamed(a, "write") /\ Untouched(a)
      /\ UNCHANGED <<task, vertex, cloud, owner>>
  BY CreateFailsEffect
<1>2. \A b \in Asset : KeptAt(b) /\ ExclusiveAt(b) /\ UnbornAt(b)
  BY OrderlyParts DEF Orderly
<1>3. \A b : Live(b)' = Live(b)
  BY <1>1, LiveSame
<1>4. ASSUME NEW b \in Asset, b # a PROVE KeptAt(b)' /\ ExclusiveAt(b)' /\ UnbornAt(b)'
  <2>1. db'[b] = db[b] /\ vertex'[b] = vertex[b] /\ scars'[b] = scars[b] /\ Live(b)' = Live(b)
    BY <1>1, <1>3, <1>4 DEF Untouched
  <2>2. KeptAt(b)' /\ ExclusiveAt(b)' /\ (Busy(b)' <=> Busy(b))
    BY <1>1, <1>2, <2>1, AssetKept
  <2> QED BY <1>1, <1>2, <2>1, <2>2 DEF UnbornAt
<1>5. ~Busy(a) /\ vertex'[a] = Null /\ Live(a)' = {}
  BY <1>1, <1>2, <1>3 DEF UnbornAt
<1>6. \A u \in Task : ~Holds(u, a) /\ ~Holds(u, a)'
  BY <1>1, <1>5, BusyHolds DEF Holds, Free
<1>7. Resting(db'[a], vertex'[a], Live(a)', scars'[a])
  BY <1>1, <1>5, InsertedStands
<1>8. KeptAt(a)' /\ ExclusiveAt(a)'
  BY <1>6, <1>7 DEF KeptAt, ExclusiveAt, Resting
<1>9. UnbornAt(a)' /\ (\A s \in cloud' : owner'[s] # Null)
  BY <1>1 DEF UnbornAt, Orderly, Unborn
<1> QED BY <1>4, <1>8, <1>9, OrderlyPartsNext DEF Orderly

(* A deletion: an overlap, or of an asset at rest. *)
LEMMA DestroyOrderly ==
  ASSUME Typed, Orderly, NEW a \in Asset, NEW t \in Task, DestroyAsset(a, t)
  PROVE  Orderly'
<1>1. /\ db[a] # NoDoc /\ task[t].pc = "free" /\ Others(t)
      /\ Reads(task'[t], a, db[a], "delete", "lookup", TRUE)
      /\ scars' = Overlap({a})
      /\ UNCHANGED <<db, vertex, cloud, owner, issued>>
  BY DestroyEffect
<1>2. \A b \in Asset : KeptAt(b) /\ ExclusiveAt(b) /\ UnbornAt(b)
  BY OrderlyParts DEF Orderly
<1>3. \A b : Live(b)' = Live(b)
  BY <1>1, LiveSame
<1>4. ASSUME NEW b \in Asset, b # a PROVE KeptAt(b)' /\ ExclusiveAt(b)' /\ UnbornAt(b)'
  <2>1. db'[b] = db[b] /\ vertex'[b] = vertex[b] /\ scars'[b] = scars[b] /\ Live(b)' = Live(b)
    BY <1>1, <1>3, <1>4, OverlapEffect
  <2>2. \A u \in Task : task'[u] = task[u] \/ (~Holds(u, b) /\ ~Holds(u, b)')
    BY <1>1, <1>4 DEF Holds, Free, Others, Reads
  <2>3. KeptAt(b)' /\ ExclusiveAt(b)' /\ (Busy(b)' <=> Busy(b))
    BY <1>2, <2>1, <2>2, AssetKept
  <2> QED BY <1>1, <1>2, <2>1, <2>3 DEF UnbornAt
<1>5. KeptAt(a)' /\ ExclusiveAt(a)'
  <2>1. CASE Busy(a)
    BY <1>1, <2>1, OverlapEffect DEF KeptAt, ExclusiveAt
  <2>2. CASE ~Busy(a)
    <3>1. /\ db'[a] = db[a] /\ vertex'[a] = vertex[a] /\ scars'[a] = scars[a]
          /\ Live(a)' = Live(a)
      BY <1>1, <1>3, <2>2, OverlapEffect
    <3>2. (Alone(a)' => Alone(a)) /\ \A u \in Task : ~Holds(u, a)
      BY <2>2, <3>1, BusyHolds DEF Alone
    <3>3. Alone(a) => Holding(task'[t], db[a], vertex[a], Live(a), scars[a])
      BY <1>1, <1>2, <2>2, RestingAt, ReadStands
    <3>4. Alone(a)' => Stands(task'[t], db'[a], vertex'[a], Live(a)', scars'[a])
      BY <1>1, <3>1, <3>2, <3>3 DEF Stands, Reads
    <3> QED BY <1>1, <1>2, <3>2, <3>4, AssetStands DEF Reads
  <2> QED BY <2>1, <2>2
<1>6. UnbornAt(a)' /\ (\A s \in cloud' : owner'[s] # Null)
  BY <1>1, <1>2 DEF UnbornAt, Orderly, Unborn
<1> QED BY <1>4, <1>5, <1>6, OrderlyPartsNext DEF Orderly

(* A round of the rescheduler: overlaps, and assets at rest that are held from now on. *)
LEMMA ScanOrderly ==
  ASSUME Typed, Orderly, Scan
  PROVE  Orderly'
<1>1. PICK slot : \A t \in Task :
           \/ task'[t] = task[t]
           \/ \E a \in Due : slot[a] = t /\ Rescheduled(t, a)
  BY ScanTasks
<1>2. scars' = Overlap(Due) /\ UNCHANGED <<db, vertex, cloud, owner, issued>>
  BY DEF Scan
<1>3. \A b \in Asset : KeptAt(b) /\ ExclusiveAt(b) /\ UnbornAt(b)
  BY OrderlyParts DEF Orderly
<1>4. \A b : Live(b)' = Live(b)
  BY <1>2, LiveSame
<1>5. \A u \in Task : \A b : Rescheduled(u, b) => task'[u].id = b /\ task[u].pc = "free"
  BY DEF Rescheduled, Reads
<1>6. ASSUME NEW b \in Asset, b \notin Due PROVE KeptAt(b)' /\ ExclusiveAt(b)' /\ UnbornAt(b)'
  <2>1. db'[b] = db[b] /\ vertex'[b] = vertex[b] /\ scars'[b] = scars[b] /\ Live(b)' = Live(b)
    BY <1>2, <1>4, <1>6, OverlapEffect
  <2>2. \A u \in Task : task'[u] = task[u] \/ (~Holds(u, b) /\ ~Holds(u, b)')
    BY <1>1, <1>5, <1>6 DEF Holds, Free
  <2>3. KeptAt(b)' /\ ExclusiveAt(b)' /\ (Busy(b)' <=> Busy(b))
    BY <1>3, <2>1, <2>2, AssetKept
  <2> QED BY <1>2, <1>3, <2>1, <2>3 DEF UnbornAt
<1>7. ASSUME NEW b \in Asset, b \in Due PROVE KeptAt(b)' /\ ExclusiveAt(b)' /\ UnbornAt(b)'
  <2>1. UnbornAt(b)'
    BY <1>2, <1>3, <1>7 DEF UnbornAt, Due, NoDoc
  <2>2. CASE Busy(b)
    BY <1>2, <1>7, <2>1, <2>2, OverlapEffect DEF KeptAt, ExclusiveAt
  <2>3. CASE ~Busy(b)
    <3>1. /\ db'[b] = db[b] /\ vertex'[b] = vertex[b] /\ scars'[b] = scars[b]
          /\ Live(b)' = Live(b)
      BY <1>2, <1>4, <2>3, OverlapEffect
    <3>2. (Alone(b)' => Alone(b)) /\ \A u \in Task : ~Holds(u, b)
      BY <2>3, <3>1, BusyHolds DEF Alone
    <3>3. \A u \in Task : Holds(u, b)' => slot[b] = u /\ Rescheduled(u, b)
      BY <1>1, <1>5, <3>2 DEF Holds, Free
    <3>4. ASSUME NEW u \in Task, Alone(b), Rescheduled(u, b)
          PROVE  Holding(task'[u], db[b], vertex[b], Live(b), scars[b])
      <4>1. Resting(db[b], vertex[b], Live(b), scars[b])
        BY <1>3, <2>3, <3>4, RestingAt
      <4> QED BY <3>4, <4>1, ReadStands DEF Rescheduled
    <3>5. Alone(b) => Resting(db[b], vertex[b], Live(b), scars[b])
      BY <1>3, <2>3, RestingAt
    <3>6. KeptAt(b)'
      BY <3>1, <3>2, <3>3, <3>4, <3>5 DEF KeptAt, Holding, Resting
    <3>7. ExclusiveAt(b)'
      BY <3>3 DEF ExclusiveAt
    <3> QED BY <2>1, <3>6, <3>7
  <2> QED BY <2>2, <2>3
<1>8. \A s \in cloud' : owner'[s] # Null
  BY <1>2 DEF Orderly, Unborn
<1> QED BY <1>6, <1>7, <1>8, OrderlyPartsNext DEF Orderly

(* A crash: all assets are at rest. *)
LEMMA CrashOrderly ==
  ASSUME Typed, Orderly, Crash
  PROVE  Orderly'
<1>1. /\ \A t \in Task : task'[t] = FreeTask
      /\ \A b \in Asset : scars'[b] = IF Busy(b) THEN scars[b] \cup {"crash"} ELSE scars[b]
      /\ UNCHANGED <<db, vertex, cloud, owner, issued>>
  BY DEF Crash, peervars
<1>2. \A b \in Asset : KeptAt(b) /\ ExclusiveAt(b) /\ UnbornAt(b)
  BY OrderlyParts DEF Orderly
<1>3. \A b : Live(b)' = Live(b)
  BY <1>1, LiveSame
<1>4. \A u \in Task : \A b : ~Holds(u, b)'
  BY <1>1 DEF Holds, Free, FreeTask
<1>5. ASSUME NEW b \in Asset PROVE KeptAt(b)' /\ ExclusiveAt(b)' /\ UnbornAt(b)'
  <2>1. db'[b] = db[b] /\ vertex'[b] = vertex[b] /\ Live(b)' = Live(b)
    BY <1>1, <1>3
  <2>2. ~Busy(b)'
    BY <1>4, BusyHolds
  <2>3. Alone(b)' => Alone(b)
    BY <1>1 DEF Alone
  <2>4. Alone(b) => Resting(db[b], vertex[b], Live(b), scars'[b])
    <3>1. CASE ~Busy(b)
      BY <1>1, <1>2, <3>1, RestingAt
    <3>2. CASE Busy(b)
      BY <1>1, <1>2, <3>2, CrashStands DEF KeptAt
    <3> QED BY <3>1, <3>2
  <2>5. KeptAt(b)' /\ ExclusiveAt(b)'
    BY <1>4, <2>1, <2>3, <2>4 DEF KeptAt, ExclusiveAt, Resting
  <2> QED BY <1>1, <1>2, <2>1, <2>2, <2>5 DEF UnbornAt
<1>6. \A s \in cloud' : owner'[s] # Null
  BY <1>1 DEF Orderly, Unborn
<1> QED BY <1>5, <1>6, OrderlyPartsNext DEF Orderly

(* Nothing happens. *)
LEMMA StillOrderly ==
  ASSUME Orderly, UNCHANGED <<db, task, scars, vertex, cloud, owner, issued>>
  PROVE  Orderly'
<1>1. \A b : Live(b)' = Live(b)
  BY LiveSame
<1>2. \A b : (Busy(b)' <=> Busy(b)) /\ (Alone(b)' <=> Alone(b))
             /\ \A u : Holds(u, b)' <=> Holds(u, b)
  BY DEF Busy, Alone, Holds, Free
<1>3. Kept' /\ Exclusive' /\ Unborn'
  BY <1>1, <1>2 DEF Orderly, Kept, Exclusive, Unborn
<1> QED BY <1>3 DEF Orderly

(* Every step keeps the assets in order. *)
LEMMA StepOrderly ==
  Typed /\ OwnServer /\ Shaped /\ Condemned /\ Orderly /\ [Next]_vars => Orderly'
<1> SUFFICES ASSUME Typed, OwnServer, Shaped, Condemned, Orderly, [Next]_vars PROVE Orderly'
  OBVIOUS
<1>1. CASE Handler
  BY <1>1, CreateOrderly, CreateFailsOrderly, DestroyOrderly DEF Handler
<1>2. CASE Dispatch
  BY <1>2, DispatchOrderly
<1>3. CASE Scan
  BY <1>3, ScanOrderly
<1>4. CASE RescheduleDies
  BY <1>4, StillOrderly DEF RescheduleDies, peervars, history
<1>5. CASE Crash
  BY <1>5, CrashOrderly
<1>6. CASE \E t \in Task : Worker(t) \/ Killer(t) \/ Detach(t) \/ Take(t)
  BY <1>6, TaskOrderly
<1>7. CASE UNCHANGED vars
  BY <1>7, StillOrderly DEF vars, sysvars, peervars, history
<1> QED BY <1>1, <1>2, <1>3, <1>4, <1>5, <1>6, <1>7 DEF Next

(* The assets are in order for ever. *)
LEMMA AlwaysOrderly == Spec => []Orderly
<1>1. Init => Orderly
  <2> SUFFICES ASSUME Init PROVE Orderly
    OBVIOUS
  <2>1. /\ \A a : ~Busy(a) /\ Live(a) = {}
        /\ \A t \in Task : \A a : ~Holds(t, a)
        /\ \A a \in Asset : db[a] = NoDoc /\ vertex[a] = Null /\ scars[a] = {}
        /\ cloud = {}
    BY DEF Init, Busy, Holds, Free, FreeTask, Live
  <2>2. ASSUME NEW sc PROVE Consistent(NoDoc, Null, {}, sc) /\ Rest(NoDoc, Null, {}, sc)
    BY DEF Consistent, Rest, NoDoc, Unready
  <2>3. Kept
    BY <2>1, <2>2 DEF Kept
  <2> QED BY <2>1, <2>3 DEF Orderly, Exclusive, Unborn
<1> QED BY <1>1, StepOrderly, AlwaysTyped, ServersStayWithTheirAsset, AlwaysShaped,
           AlwaysTelling, PTL DEF Spec

-----------------------------------------------------------------------------
(* Work in progress *)

(* The request is still to be built. *)
Unbuilt(d) == d.status \in {"NEW", "BUILD"}
Stranding == {"crash", "provider", "write"}

(* Task t leaves asset a's record built, goes on working on it, or a mishap
   has struck it. *)
Minded(t, a) ==
  \/ ~Unbuilt(db'[a])
  \/ Working(task'[t])
  \/ scars'[a] \cap Stranding # {}
  \/ db'[a] = db[a] /\ ~Working(task[t])

(* A step of one task that is minded keeps the work tended. *)
LEMMA HomeTends ==
  ASSUME Tended, NEW t \in Task, NEW a \in Asset, AtHome(t, a), Minded(t, a)
  PROVE  Tended'
<1>1. ASSUME NEW b \in Asset, Unbuilt(db'[b])
      PROVE  \/ \E u \in Task : Working(task'[u]) /\ task'[u].id = b
             \/ scars'[b] \cap Stranding # {}
  <2>1. CASE Working(task'[t]) /\ b = a
    <3>1. task'[t] # FreeTask
      BY <2>1 DEF Working, FreeTask, WorkerPc
    <3> QED BY <2>1, <3>1 DEF AtHome
  <2>2. CASE ~(Working(task'[t]) /\ b = a)
    <3>1. scars[b] \subseteq scars'[b]
      BY DEF AtHome, Away
    <3>2. (db'[b] = db[b] /\ (b = a => ~Working(task[t]))) \/ scars'[b] \cap Stranding # {}
      BY <1>1, <2>2 DEF AtHome, Away, Minded
    <3>3. CASE db'[b] = db[b] /\ (b = a => ~Working(task[t]))
      <4>1. \/ \E u \in Task : Working(task[u]) /\ task[u].id = b
            \/ scars[b] \cap Stranding # {}
        BY <1>1, <3>3 DEF Tended, Unbuilt, Excused, Stranding
      <4>2. \A u \in Task : Working(task[u]) /\ task[u].id = b => task'[u] = task[u]
        BY <3>3 DEF AtHome, Others
      <4> QED BY <3>1, <4>1, <4>2
    <3> QED BY <3>2, <3>3
  <2> QED BY <2>1, <2>2
<1> QED BY <1>1 DEF Tended, Unbuilt, Excused, Stranding

(* A worker leaves NEW and BUILD before it ends, or a mishap stops it. *)
LEMMA WorkerMinds ==
  ASSUME Typed, Shaped, NEW t \in Task, Worker(t)
  PROVE  Minded(t, task[t].id)
<1> DEFINE r == task[t]
           q == task'[t]
           a == r.id
           Works(x) == x.pc \in {"send", "queued"} \cup WorkerPc
<1>1. ShapedTask(r) /\ r.pc # "free"
  <2>1. r \in TaskRec
    BY AtWork
  <2> QED BY <2>1 DEF Shaped, Free, TaskRec, Pc, WorkerPc, KillerPc
<1>2. q.pc \in {"queued"} \cup WorkerPc => Minded(t, a)
  BY DEF Minded, Working
<1>3. \A k \in Stranding : Blamed(a, k) => Minded(t, a)
  BY DEF Minded, Blamed
<1>4. ASSUME r.status \notin {"NEW", "BUILD"}, Wrote(a, Stored(r)) PROVE Minded(t, a)
  BY <1>4 DEF Minded, Wrote, Stored, Unbuilt, Stranding
<1>5. \A s : Retried(q, r, s) => q.pc \in {"run", "finish"}
  BY DEF Retried, Becomes
<1>6. {"run", "configure", "cleanup", "finish", "notify", "record"} \subseteq WorkerPc
      /\ "provider" \in Stranding
  BY DEF WorkerPc, Stranding
<1>7. \A op, pc, st, s, ip, e, d : Becomes(q, r, op, pc, st, s, ip, e, d) => q.pc = pc
  BY DEF Becomes
<1> SUFFICES Minded(t, a)
  OBVIOUS
<1>8. CASE SendRequest(t)
  <2>1. q.pc = "queued"
    BY <1>8, SendRequestEffect DEF Becomes
  <2> QED BY <1>2, <2>1
<1>9. CASE Start(t)
  <2>1. q.pc = "run"
    BY <1>9, StartEffect DEF Becomes
  <2> QED BY <1>2, <1>6, <2>1
<1>10. CASE StartFails(t)
  BY <1>3, <1>6, <1>10, StartFailsEffect
<1>11. ASSUME NEW s \in Server, RunServer(t, s) PROVE Minded(t, a)
  <2>1. q.pc \in {"configure", "run", "finish"}
    BY <1>5, <1>11, RunServerEffect DEF Becomes
  <2> QED BY <1>2, <1>6, <2>1
<1>12. CASE RunServerFails(t) \/ DetailFails(t) \/ Cleanup(t)
  <2>1. q.pc \in {"run", "finish"}
    BY <1>5, <1>12, RunServerFailsEffect, DetailFailsEffect, CleanupEffect
  <2> QED BY <1>2, <1>6, <2>1
<1>13. CASE Configure(t) \/ ConfigureFails(t)
  <2>1. q.pc \in {"finish", "cleanup"}
    BY <1>13, ConfigureEffect, ConfigureFailsEffect DEF Becomes
  <2> QED BY <1>2, <1>6, <2>1
<1>14. CASE Finish(t)
  <2>1. r.status \notin {"NEW", "BUILD"}
    BY <1>1, <1>14, FinishEffect DEF ShapedTask
  <2> QED BY <1>4, <1>14, <2>1, FinishEffect
<1>15. CASE Notify(t)
  <2>1. q.pc = "record"
    BY <1>15, NotifyEffect DEF Becomes
  <2> QED BY <1>2, <1>6, <2>1
<1>16. CASE Record(t)
  <2>1. r.status \notin {"NEW", "BUILD"}
    BY <1>1, <1>16, RecordEffect DEF ShapedTask
  <2> QED BY <1>4, <1>16, <2>1, RecordEffect
<1> QED
  BY <1>8, <1>9, <1>10, <1>11, <1>12, <1>13, <1>14, <1>15, <1>16 DEF Worker

(* The others do not touch a worker's request. *)
LEMMA KillerMinds ==
  ASSUME Typed, NEW t \in Task, Killer(t) \/ Detach(t) \/ Take(t)
  PROVE  Minded(t, task[t].id)
<1> DEFINE a == task[t].id
<1>1. db' = db /\ ~Working(task[t]) => Minded(t, a)
  BY DEF Minded
<1>2. task[t].pc \in {"lookup", "kill", "remove", "gone", "listed"} => ~Working(task[t])
  BY DEF Working, WorkerPc
<1>3. CASE Remove(t)
  <2>1. Wrote(a, NoDoc)
    BY <1>3, RemoveEffect
  <2> QED BY <2>1 DEF Wrote, Minded, NoDoc, Unbuilt, Stranding
<1>4. CASE LookUp(t) \/ ListFails(t) \/ LookUpFails(t) \/ Kill(t) \/ KillFails(t)
           \/ Detach(t) \/ Take(t)
  <2>1. db' = db /\ task[t].pc \in {"lookup", "kill", "remove", "gone", "listed"}
    BY <1>4 DEF LookUp, LookingUp, ListFails, LookUpFails, Kill, KillFails, Detach, Take,
               KillerPc
  <2> QED BY <1>1, <1>2, <2>1
<1> QED BY <1>3, <1>4 DEF Killer

(* Nobody's work is ended, no record is written and no mishap forgotten. *)
LEMMA TendedKept ==
  ASSUME Tended, db' = db, \A b \in Asset : scars[b] \subseteq scars'[b],
         \A u \in Task : Working(task[u]) => task'[u] = task[u]
  PROVE  Tended'
BY DEF Tended, Excused

(* Every step keeps the work tended. *)
LEMMA StepTended ==
  Typed /\ OwnServer /\ Shaped /\ Orderly /\ Tended /\ [Next]_vars => Tended'
<1> SUFFICES ASSUME Typed, OwnServer, Shaped, Orderly, Tended, [Next]_vars PROVE Tended'
  OBVIOUS
<1>1. ASSUME NEW a \in Asset, NEW t \in Task, CreateAsset(a, t) PROVE Tended'
  <2>1. /\ task[t].pc = "free" /\ Others(t) /\ task'[t].id = a /\ task'[t].pc = "send"
        /\ Untouched(a) /\ scars' = scars
    BY <1>1, CreateEffect
  <2>2. Working(task'[t]) /\ ~Working(task[t])
    BY <2>1 DEF Working, WorkerPc
  <2> QED BY <2>1, <2>2 DEF Tended, Excused, Others, Untouched
<1>2. ASSUME NEW a \in Asset, CreateAssetFails(a) PROVE Tended'
  BY <1>2, CreateFailsEffect DEF Tended, Excused, Untouched, Blamed
<1>3. ASSUME NEW a \in Asset, NEW t \in Task, DestroyAsset(a, t) PROVE Tended'
  <2>1. task[t].pc = "free" /\ Others(t) /\ scars' = Overlap({a}) /\ db' = db
    BY <1>3, DestroyEffect
  <2>2. \A b \in Asset : scars[b] \subseteq scars'[b]
    BY <2>1 DEF Overlap
  <2>3. ~Working(task[t])
    BY <2>1 DEF Working, WorkerPc
  <2> QED BY <2>1, <2>2, <2>3, TendedKept DEF Others
<1>4. CASE Dispatch
  <2>1. PICK t \in Task :
         /\ task[t] \in TaskRec /\ task[t].pc = "queued" /\ Others(t)
         /\ Becomes(task'[t], task[t], task[t].op, "start", task[t].status,
                    task[t].server, task[t].ip, task[t].entity, task[t].detach)
         /\ UNCHANGED <<db, scars, vertex, cloud, owner, issued>>
    BY <1>4, DispatchEffect
  <2>2. AtHome(t, task[t].id) /\ task[t].id \in Asset
    BY <2>1, DispatchAtHome DEF Orderly, TaskRec
  <2>3. Minded(t, task[t].id)
    BY <2>1 DEF Minded, Working, Becomes, WorkerPc
  <2> QED BY <2>2, <2>3, HomeTends
<1>5. CASE Scan
  <2>1. PICK slot : \A t \in Task :
           \/ task'[t] = task[t]
           \/ \E a \in Due : slot[a] = t /\ Rescheduled(t, a)
    BY <1>5, ScanTasks
  <2>2. \A u \in Task : \A b : Rescheduled(u, b) => ~Working(task[u])
    BY DEF Rescheduled, Working, WorkerPc
  <2>3. \A b \in Asset : scars[b] \subseteq scars'[b]
    BY <1>5 DEF Scan, Overlap
  <2> QED BY <1>5, <2>1, <2>2, <2>3, TendedKept DEF Scan
<1>6. CASE RescheduleDies \/ UNCHANGED vars
  BY <1>6, TendedKept DEF RescheduleDies, vars, sysvars, history
<1>7. CASE Crash
  <2>1. \A u \in Task : Working(task[u]) => ~Free(u)
    BY DEF Working, WorkerPc, Free
  <2>2. \A b \in Asset : scars'[b] = IF Busy(b) THEN scars[b] \cup {"crash"} ELSE scars[b]
    BY <1>7 DEF Crash
  <2>3. db' = db
    BY <1>7 DEF Crash
  <2>4. ASSUME NEW b \in Asset, Unbuilt(db[b]) PROVE scars'[b] \cap Stranding # {}
    <3>1. CASE Busy(b)
      BY <2>2, <3>1 DEF Stranding
    <3>2. CASE ~Busy(b)
      <4>1. scars[b] \cap Stranding # {} /\ scars'[b] = scars[b]
        BY <2>1, <2>2, <2>4, <3>2 DEF Tended, Excused, Busy, Unbuilt, Stranding
      <4> QED BY <4>1
    <3> QED BY <3>1, <3>2
  <2> QED BY <2>3, <2>4 DEF Tended, Excused, Unbuilt, Stranding
<1>8. ASSUME NEW t \in Task, Worker(t) \/ Killer(t) \/ Detach(t) \/ Take(t) PROVE Tended'
  <2>1. AtHome(t, task[t].id) /\ task[t].id \in Asset
    BY <1>8, AtWork, WorkerAtHome, KillerAtHome DEF Orderly
  <2>2. Minded(t, task[t].id)
    BY <1>8, WorkerMinds, KillerMinds
  <2> QED BY <2>1, <2>2, HomeTends
<1> QED
  BY <1>1, <1>2, <1>3, <1>4, <1>5, <1>6, <1>7, <1>8 DEF Next, Handler

(* No request is without somebody at work on it, mishaps aside. *)
LEMMA AlwaysTended == Spec => []Tended
<1>1. Init => Tended
  BY DEF Init, Tended, NoDoc
<1> QED BY <1>1, StepTended, AlwaysTyped, ServersStayWithTheirAsset, AlwaysShaped,
           AlwaysOrderly, PTL DEF Spec

-----------------------------------------------------------------------------
(* The promises of the engine *)

(* An asset's servers are those its record and its task know. *)
LEMMA NoOrphanFollows == Typed /\ Orderly => NoOrphan
<1> SUFFICES ASSUME Typed, Orderly, NEW s \in cloud
             PROVE  Referenced(s) \/ Excused(owner[s], LeakScars)
  BY DEF NoOrphan
<1>1. PICK a \in Asset : a = owner[s]
  BY DEF Orderly, Unborn, Typed, TypeOK
<1>2. s \in Live(a)
  BY <1>1 DEF Live
<1>3. CASE ~Alone(a)
  BY <1>1, <1>3 DEF Alone, Excused, LeakScars
<1>4. CASE Alone(a) /\ Busy(a)
  <2>1. PICK t \in Task : Holds(t, a)
    BY <1>4, BusyHolds
  <2>2. \/ s \in {db[a].server, task[t].server, task[t].entity}
        \/ Met(scars[a], LeakScars)
    BY <1>2, <1>4, <2>1 DEF Orderly, Kept, Fits, FitsCloud
  <2> QED BY <1>1, <2>1, <2>2 DEF Referenced, Holds, Met, Excused
<1>5. CASE Alone(a) /\ ~Busy(a)
  <2>1. s = db[a].server \/ Met(scars[a], LeakScars)
    BY <1>2, <1>5 DEF Orderly, Kept, Rest
  <2> QED BY <1>1, <2>1 DEF Referenced, Met, Excused
<1> QED BY <1>3, <1>4, <1>5

(* No server is left running that nothing knows of, unless its asset met one of seven
   mishaps (createServer's cleanup, terminateInstance). *)
THEOREM NothingLeaks == Spec => []NoOrphan
BY NoOrphanFollows, AlwaysTyped, AlwaysOrderly, PTL

(* What Consistent says of a RETRY record. *)
LEMMA RetryIsCleanFollows == Typed /\ OwnServer /\ Shaped /\ Orderly => RetryIsClean
<1> SUFFICES ASSUME Typed, OwnServer, Shaped, Orderly, NEW a \in Asset,
                    db[a].status = "RETRY", ~Excused(a, {"overlap", "write", "detail", "delete"})
             PROVE  db[a].ip = Null /\ vertex[a] = Null /\ db[a].server \notin cloud
  BY DEF RetryIsClean
<1>1. Alone(a) /\ ~Met(scars[a], {"write", "detail", "delete"}) /\ ~Met(scars[a], {"write"})
  BY DEF Alone, Excused, Met
<1>2. Consistent(db[a], vertex[a], Live(a), scars[a])
  BY <1>1 DEF Orderly, Kept
<1>3. db[a].ip = Null
  BY DEF Shaped, ShapedDoc, Unready
<1>4. vertex[a] = Null /\ db[a].server \notin Live(a)
  BY <1>1, <1>2 DEF Consistent, Cleared, Unready
<1>5. db[a].server \notin cloud
  BY <1>4, NullAssumption DEF OwnServer, OwnedRecord, Owned, Live, Typed, TypeOK
<1> QED BY <1>3, <1>4, <1>5

(* A RETRY record has no address and no running server, and its caller nothing attached
   (createServer 143-146 and 158-162). *)
THEOREM RetriesStartClean == Spec => []RetryIsClean
BY RetryIsCleanFollows, AlwaysTyped, ServersStayWithTheirAsset, AlwaysShaped, AlwaysOrderly, PTL

(* What Rest says of the record and of the caller. *)
LEMMA RestFollows ==
  Shaped /\ Orderly => ReadyIsReal /\ CallerNotMisled
<1> SUFFICES ASSUME Shaped, Orderly PROVE ReadyIsReal /\ CallerNotMisled
  OBVIOUS
<1>1. ASSUME NEW a \in Asset, db[a].status = "SERVER_CREATED", ~Busy(a),
             ~Excused(a, {"overlap", "crash", "write", "provider"})
      PROVE  db[a].server \in cloud /\ db[a].ip = db[a].server /\ vertex[a] = db[a].server
  <2>1. Alone(a) /\ ~Met(scars[a], {"crash", "write", "provider"})
    BY <1>1 DEF Alone, Excused, Met
  <2>2. db[a].server \in Live(a) /\ vertex[a] = db[a].server
    BY <1>1, <2>1 DEF Orderly, Kept, Rest
  <2>3. db[a].ip = db[a].server
    BY <1>1 DEF Shaped, ShapedDoc
  <2> QED BY <2>2, <2>3 DEF Live
<1>2. ASSUME NEW a \in Asset, vertex[a] # Null, ~Busy(a)
      PROVE  vertex[a] \in cloud \/ Excused(a, {"overlap", "crash", "notify"})
  <2>1. CASE Alone(a)
    <3>1. vertex[a] \in Live(a) \/ Met(scars[a], {"crash", "notify"})
      BY <1>2, <2>1 DEF Orderly, Kept, Rest
    <3> QED BY <3>1 DEF Live, Met, Excused
  <2>2. CASE ~Alone(a)
    BY <2>2 DEF Alone, Excused
  <2> QED BY <2>1, <2>2
<1> QED BY <1>1, <1>2 DEF ReadyIsReal, CallerNotMisled

(* A SERVER_CREATED record nobody holds describes a running server its caller was told
   of (createServer, updateAndNotify). *)
THEOREM ReadyServersServe == Spec => []ReadyIsReal
BY RestFollows, AlwaysShaped, AlwaysOrderly, PTL

(* A caller has no instance attached that does not run, mishaps aside (the
   DelNotification consumer, terminateFailedResource). *)
THEOREM CallersAreToldTheTruth == Spec => []CallerNotMisled
BY RestFollows, AlwaysShaped, AlwaysOrderly, PTL

(* Only a crash, a missing provider or a lost write strands a request in NEW or BUILD
   (RescheduleOldRequests 265). *)
THEOREM RequestsAreTended == Spec => []NothingStranded
<1>1. Tended => NothingStranded
  BY DEF Tended, NothingStranded, Busy, Free, Working, WorkerPc
<1> QED BY <1>1, AlwaysTended, PTL

(* A task that finds its record removed has shared the asset, unless only its detach
   call is left. *)
LEMMA TaskRevives ==
  ASSUME Typed, OwnServer, Orderly, NEW t \in Task,
         Worker(t) \/ Killer(t) \/ Detach(t) \/ Take(t),
         NEW a \in Asset, db[a] = NoDoc, db'[a] # NoDoc
  PROVE  Excused(a, {"overlap"})
<1>1. AtHome(t, task[t].id) /\ task[t] \in TaskRec
  BY AtWork, WorkerAtHome, KillerAtHome DEF Orderly
<1>2. task[t].id = a
  BY <1>1 DEF AtHome, Away
<1>3. task[t].pc # "gone"
  <2> SUFFICES ASSUME task[t].pc = "gone" PROVE db' = db
    OBVIOUS
  <2>1. ~Worker(t)
    BY DEF Worker, SendRequest, Start, StartFails, RunServer, RunServerFails, Configure,
           ConfigureFails, DetailFails, Cleanup, Finish, Notify, Record
  <2>2. ~Killer(t) /\ ~Take(t)
    BY DEF Killer, LookUp, LookingUp, ListFails, LookUpFails, Kill, KillFails, Remove, Take
  <2> QED BY <2>1, <2>2 DEF Detach
<1>4. Holds(t, a)
  BY <1>1, <1>2 DEF Holds, Free, TaskRec, Pc, WorkerPc, KillerPc
<1>5. ~Alone(a)
  BY <1>3, <1>4 DEF Orderly, Kept, Fits, FitsRecord
<1> QED BY <1>5 DEF Alone, Excused

(* A deleted record comes back only if two tasks held the asset together (the upsert of
   Connection.Update). *)
THEOREM DeletedStaysDeleted == Spec => StaysDeleted
<1> DEFINE Revives(a) == a \in issued /\ db[a] = NoDoc /\ db'[a] # NoDoc
<1>1. ASSUME Typed, OwnServer, Orderly, [Next]_vars, NEW a \in Asset, Revives(a)
      PROVE  Excused(a, {"overlap"})
  <2>1. CASE Handler
    <3>1. db' = db \/ \E b \in Asset : b \notin issued /\ Untouched(b)
      BY <1>1, <2>1, CreateEffect, CreateFailsEffect, DestroyEffect DEF Handler
    <3> QED BY <1>1, <3>1 DEF Untouched
  <2>2. CASE Dispatch \/ Scan \/ RescheduleDies \/ Crash \/ UNCHANGED vars
    BY <1>1, <2>2 DEF Dispatch, Scan, RescheduleDies, Crash, vars, sysvars
  <2>3. CASE \E t \in Task : Worker(t) \/ Killer(t) \/ Detach(t) \/ Take(t)
    BY <1>1, <2>3, TaskRevives
  <2> QED BY <1>1, <2>1, <2>2, <2>3 DEF Next
<1>2. Typed /\ OwnServer /\ Orderly /\ [Next]_vars
      => [\A a \in Asset : a \in issued /\ db[a] = NoDoc /\ db'[a] # NoDoc
                           => Excused(a, {"overlap"})]_vars
  BY <1>1
<1> QED BY <1>2, AlwaysTyped, ServersStayWithTheirAsset, AlwaysOrderly, PTL DEF Spec, StaysDeleted

(* The inductive invariant, whole: the one sched_faults checks. *)
THEOREM EngineStaysInOrder == Spec => []IInv
BY AlwaysShaped, AlwaysTelling, AlwaysOrderly, AlwaysTended, PTL DEF IInv, Orderly

-----------------------------------------------------------------------------
(* The engine keeps the contract of AssetContract: every step of it is one action of
   the contract, or none.  A step that strikes an asset is Suffer for the assets that
   are struck; any other is that of a task which holds its asset alone, and IInv says
   what it then finds. *)

(* How far the assets are: the contract's variable. *)
Phases == [a \in Asset |-> PhaseOf(a)]

(* How far an asset is that nothing went wrong with, by its record d, the instance v
   its caller has, and whether it is being deleted. *)
Stage(d, v, deleted) ==
  IF d = NoDoc THEN "gone"
  ELSE IF d.status = "MARKED_FOR_DELETION" \/ deleted THEN "ending"
  ELSE IF v # Null THEN "served" ELSE "pending"

Deleted(a) == \E t \in Task : task[t].op = "delete" /\ task[t].id = a

LEMMA PhaseIsStage ==
  ASSUME NEW a
  PROVE  /\ scars[a] # {} => PhaseOf(a) = "troubled"
         /\ scars[a] = {} /\ a \notin issued => PhaseOf(a) = "unknown"
         /\ scars[a] = {} /\ a \in issued => PhaseOf(a) = Stage(db[a], vertex[a], Deleted(a))
BY DEF PhaseOf, Stage, Leaving, Deleted

LEMMA PhaseIsStageNext ==
  ASSUME NEW a
  PROVE  /\ scars'[a] # {} => PhaseOf(a)' = "troubled"
         /\ scars'[a] = {} /\ a \notin issued' => PhaseOf(a)' = "unknown"
         /\ scars'[a] = {} /\ a \in issued' =>
              PhaseOf(a)' = Stage(db'[a], vertex'[a], Deleted(a)')
BY DEF PhaseOf, Stage, Leaving, Deleted

(* An asset that nothing happens to is as far as it was. *)
LEMMA PhaseStays ==
  ASSUME NEW b, db'[b] = db[b], vertex'[b] = vertex[b], scars'[b] = scars[b],
         b \in issued' <=> b \in issued, Deleted(b)' <=> Deleted(b)
  PROVE  PhaseOf(b)' = PhaseOf(b)
BY PhaseIsStage, PhaseIsStageNext DEF Stage

(* One asset moves on. *)
LEMMA PhaseMoves ==
  ASSUME NEW a \in Asset, \A b \in Asset : b # a => PhaseOf(b)' = PhaseOf(b)
  PROVE  Phases' = [Phases EXCEPT ![a] = PhaseOf(a)']
BY DEF Phases

LEMMA PhasesStay ==
  ASSUME \A b \in Asset : PhaseOf(b)' = PhaseOf(b)
  PROVE  Phases' = Phases
BY DEF Phases

Bystanders(a) == \A b \in Asset : b # a => PhaseOf(b)' = PhaseOf(b)

(* The actions of the contract, in the engine's words. *)
LEMMA Stutters ==
  ASSUME NEW a \in Asset, Bystanders(a), PhaseOf(a)' = PhaseOf(a),
         UNCHANGED <<vertex, cloud, owner>>
  PROVE  [Contract!ContractNext]_(Contract!cvars)
<1>1. Phases' = Phases
  BY PhasesStay DEF Bystanders
<1> QED BY <1>1 DEF Contract!cvars, Phases

LEMMA Accepts ==
  ASSUME NEW a \in Asset, Bystanders(a), PhaseOf(a) = "unknown", PhaseOf(a)' = "pending",
         UNCHANGED <<vertex, cloud, owner>>
  PROVE  [Contract!ContractNext]_(Contract!cvars)
<1>1. Phases' = [Phases EXCEPT ![a] = "pending"] /\ Phases[a] = "unknown"
  BY PhaseMoves DEF Bystanders, Phases
<1>2. Contract!Accept(a)
  BY <1>1 DEF Contract!Accept, Contract!Move, Phases
<1> QED BY <1>2 DEF Contract!ContractNext

LEMMA Builds ==
  ASSUME NEW a \in Asset, NEW s \in Server, Bystanders(a), PhaseOf(a) = "pending",
         PhaseOf(a)' = PhaseOf(a), owner[s] = Null, owner' = [owner EXCEPT ![s] = a],
         cloud' = cloud \cup {s}, UNCHANGED vertex
  PROVE  [Contract!ContractNext]_(Contract!cvars)
<1>1. Phases' = Phases /\ Phases[a] = "pending"
  BY PhasesStay DEF Bystanders, Phases
<1>2. Contract!Build(a, s)
  BY <1>1 DEF Contract!Build, Phases
<1> QED BY <1>2 DEF Contract!ContractNext

LEMMA Scraps ==
  ASSUME NEW a \in Asset, NEW s \in Server, Bystanders(a), PhaseOf(a) \in {"pending", "ending"},
         PhaseOf(a)' = PhaseOf(a), s \in Live(a),
         cloud' = cloud \ {s}, UNCHANGED <<vertex, owner>>
  PROVE  [Contract!ContractNext]_(Contract!cvars)
<1>1. Phases' = Phases /\ Phases[a] \in {"pending", "ending"}
  BY PhasesStay DEF Bystanders, Phases
<1>2. Contract!Scrap(a, s)
  BY <1>1 DEF Contract!Scrap, Contract!Own, Live, Phases
<1> QED BY <1>2 DEF Contract!ContractNext

LEMMA Serves ==
  ASSUME NEW a \in Asset, NEW s \in Server, Bystanders(a), PhaseOf(a) = "pending",
         PhaseOf(a)' = "served", Live(a) = {s}, Told(a, s), UNCHANGED <<cloud, owner>>
  PROVE  [Contract!ContractNext]_(Contract!cvars)
<1>1. Phases' = [Phases EXCEPT ![a] = "served"] /\ Phases[a] = "pending"
  BY PhaseMoves DEF Bystanders, Phases
<1>2. Contract!Serve(a, s)
  BY <1>1 DEF Contract!Serve, Contract!Move, Contract!Own, Live, Told, Phases
<1> QED BY <1>2 DEF Contract!ContractNext

LEMMA Closes ==
  ASSUME NEW a \in Asset, Bystanders(a), PhaseOf(a) \in {"pending", "served"},
         PhaseOf(a)' = "ending", UNCHANGED <<vertex, cloud, owner>>
  PROVE  [Contract!ContractNext]_(Contract!cvars)
<1>1. Phases' = [Phases EXCEPT ![a] = "ending"] /\ Phases[a] \in {"pending", "served"}
  BY PhaseMoves DEF Bystanders, Phases
<1>2. Contract!Close(a)
  BY <1>1 DEF Contract!Close, Contract!Move, Phases
<1> QED BY <1>2 DEF Contract!ContractNext

LEMMA Releases ==
  ASSUME NEW a \in Asset, Bystanders(a), PhaseOf(a) \in {"ending", "gone"},
         PhaseOf(a)' = PhaseOf(a), Told(a, Null), UNCHANGED <<cloud, owner>>
  PROVE  [Contract!ContractNext]_(Contract!cvars)
<1>1. Phases' = Phases /\ Phases[a] \in {"ending", "gone"}
  BY PhasesStay DEF Bystanders, Phases
<1>2. Contract!Release(a)
  BY <1>1 DEF Contract!Release, Told, Phases
<1> QED BY <1>2 DEF Contract!ContractNext

LEMMA Forgets ==
  ASSUME NEW a \in Asset, Bystanders(a), PhaseOf(a) = "ending", PhaseOf(a)' = "gone",
         Live(a) = {}, UNCHANGED <<vertex, cloud, owner>>
  PROVE  [Contract!ContractNext]_(Contract!cvars)
<1>1. Phases' = [Phases EXCEPT ![a] = "gone"] /\ Phases[a] = "ending"
  BY PhaseMoves DEF Bystanders, Phases
<1>2. Contract!Forget(a)
  BY <1>1 DEF Contract!Forget, Contract!Move, Contract!Own, Live, Phases
<1> QED BY <1>2 DEF Contract!ContractNext

(* Servers: no one comes back or changes hands, and those that are new are for these
   assets. *)
Lawful(as) ==
  /\ \A s \in Server : owner'[s] = owner[s] \/ (owner[s] = Null /\ owner'[s] \in as)
  /\ \A s \in cloud' : s \in cloud \/ owner[s] = Null

(* Something is wrong with these assets, and the others are as they were. *)
LEMMA Suffers ==
  ASSUME Typed', OwnServer', NEW as, as \subseteq Asset, Lawful(as),
         \A a \in as : scars'[a] # {},
         \A b \in Asset \ as : /\ PhaseOf(b)' = PhaseOf(b) /\ vertex'[b] = vertex[b]
                               /\ Live(b)' = Live(b)
  PROVE  [Contract!ContractNext]_(Contract!cvars)
<1>1. Phases' = [a \in Asset |-> IF a \in as THEN "troubled" ELSE Phases[a]]
  BY PhaseIsStageNext DEF Phases
<1>2. vertex' \in [Asset -> Server \cup {Null}]
  BY DEF Typed, TypeOK
<1>3. \A a \in as : vertex'[a] = Null \/ owner'[vertex'[a]] = a
  BY DEF OwnServer, OwnedRecord, Owned
<1>4. Contract!Suffer(as)
  BY <1>1, <1>2, <1>3 DEF Contract!Suffer, Contract!Own, Live, Lawful, Phases
<1> QED BY <1>4 DEF Contract!ContractNext

(* A step of the task that holds asset a leaves the others as far as they were; *)
LEMMA HomeElsewhere ==
  ASSUME NEW t \in Task, NEW a \in Asset, AtHome(t, a)
  PROVE  Bystanders(a)
<1> SUFFICES ASSUME NEW b \in Asset, b # a PROVE PhaseOf(b)' = PhaseOf(b)
  BY DEF Bystanders
<1>1. db'[b] = db[b] /\ vertex'[b] = vertex[b] /\ scars'[b] = scars[b] /\ issued' = issued
  BY DEF AtHome, Away
<1>2. task[t].id # b /\ task'[t].id # b
  BY NullAssumption DEF AtHome, FreeTask
<1>3. Deleted(b)' <=> Deleted(b)
  BY <1>2 DEF AtHome, Others, Deleted
<1> QED BY <1>1, <1>3, PhaseStays

(* and tells whether its own is being deleted. *)
LEMMA HomeDeleted ==
  ASSUME Typed, NEW t \in Task, NEW a \in Asset, AtHome(t, a),
         \A u \in Task : Holds(u, a) => u = t
  PROVE  /\ Deleted(a) <=> task[t].op = "delete"
         /\ Deleted(a)' <=> task'[t].op = "delete"
<1>1. ASSUME NEW u \in Task, task[u].id = a PROVE u = t
  <2>1. task[u] # FreeTask
    BY <1>1, NullAssumption DEF FreeTask
  <2>2. task[u] \in TaskRec
    BY <2>1 DEF Typed, TypeOK
  <2>3. Holds(u, a)
    BY <1>1, <2>2 DEF Holds, Free, TaskRec, Pc, WorkerPc, KillerPc
  <2> QED BY <2>3
<1>2. task[t].id = a /\ (task'[t].op = "delete" => task'[t].id = a)
  BY DEF AtHome, FreeTask
<1> QED BY <1>1, <1>2 DEF Deleted, AtHome, Others

(* No step of a task brings a server back, or makes one for another asset. *)
LEMMA TaskLawful ==
  ASSUME Typed, NEW t \in Task, Worker(t) \/ Killer(t) \/ Detach(t) \/ Take(t)
  PROVE  Lawful({task[t].id})
<1>1. owner' = owner /\ cloud' \subseteq cloud => Lawful({task[t].id})
  BY DEF Lawful
<1>2. ASSUME NEW s \in Server, RunServer(t, s) PROVE Lawful({task[t].id})
  <2>1. /\ owner[s] = Null /\ owner' = [owner EXCEPT ![s] = task[t].id]
        /\ cloud' = cloud \cup {s} /\ owner \in [Server -> Asset \cup {Null}]
    BY <1>2, RunServerEffect DEF Typed, TypeOK
  <2> QED BY <2>1 DEF Lawful
<1>3. CASE \E s \in Server : RunServer(t, s)
  BY <1>2, <1>3
<1>4. CASE ~\E s \in Server : RunServer(t, s)
  <2>1. owner' = owner /\ cloud' \subseteq cloud
    BY <1>4 DEF Worker, Killer, Detach, Take, SendRequest, Start, StartFails, RunServerFails,
       Configure, ConfigureFails, DetailFails, Cleanup, Finish, Notify, Record, LookUp,
       ListFails, LookUpFails, Kill, KillFails, Remove, peervars, history
  <2> QED BY <1>1, <2>1
<1> QED BY <1>3, <1>4

-----------------------------------------------------------------------------
(* The task r that holds an asset nothing went wrong with tells how far it is. *)
Smooth(r, d, v, live) == Sound(r, d, v, live, {})

LEMMA NoneMet == \A kinds : ~Met({}, kinds)
BY DEF Met

LEMMA SmoothParts ==
  ASSUME NEW r, NEW d, NEW v, NEW live, Smooth(r, d, v, live)
  PROVE  /\ r \in TaskRec /\ ShapedTask(r) /\ Consistent(d, v, live, {})
         /\ FitsRecord(r, d, live, {}) /\ FitsCloud(r, d, live, {}) /\ FitsCaller(r, v, live, {})
BY DEF Smooth, Sound, Holding, Fits

(* A worker is about to begin, or in an attempt, *)
LEMMA PendingFacts ==
  ASSUME NEW r, NEW d, NEW v, NEW live, Smooth(r, d, v, live),
         r.pc \in Attempting \cup {"start"}
  PROVE  /\ d.status \in Unready /\ d # NoDoc /\ r.op = "create" /\ v = Null
         /\ Stage(d, v, FALSE) = "pending"
<1>1. /\ r \in TaskRec /\ ShapedTask(r) /\ Consistent(d, v, live, {})
      /\ FitsRecord(r, d, live, {})
  BY SmoothParts
<1>2. r.op = "create"
  BY <1>1, WorkerIsCreate DEF Attempting, WorkerPc
<1>3. d.status \in Unready
  BY <1>1 DEF FitsRecord, ShapedTask, Stored, Attempting, Unready
<1>4. d # NoDoc
  BY <1>1 DEF FitsRecord, Attempting
<1>5. v = Null
  BY <1>1, <1>3, NoneMet DEF Consistent
<1>6. Stage(d, v, FALSE) = "pending"
  BY <1>3, <1>4, <1>5 DEF Stage, Unready
<1> QED BY <1>2, <1>3, <1>4, <1>5, <1>6

(* is over, *)
LEMMA BuiltFacts ==
  ASSUME NEW r, NEW d, NEW v, NEW live, Smooth(r, d, v, live), r.pc \in {"notify", "record"}
  PROVE  /\ d.status = "SERVER_CREATED" /\ d.server = r.server /\ d # NoDoc
         /\ r.op = "create" /\ (v = Null \/ v \in live)
         /\ live \subseteq {r.server} /\ (r.pc = "notify" => live = {r.server})
<1>1. /\ r \in TaskRec /\ ShapedTask(r)
      /\ FitsRecord(r, d, live, {}) /\ FitsCloud(r, d, live, {}) /\ FitsCaller(r, v, live, {})
  BY SmoothParts
<1>2. r.op = "create"
  BY <1>1, WorkerIsCreate DEF WorkerPc
<1>3. d.status = "SERVER_CREATED" /\ d.server = r.server /\ d # NoDoc
  BY <1>1, NoneMet DEF FitsRecord
<1>4. live \subseteq {r.server} /\ (r.pc = "notify" => r.server \in live)
  BY <1>1, <1>3, NoneMet DEF FitsCloud
<1>5. v = Null \/ v \in live
  BY <1>1, <1>2, NoneMet DEF FitsCaller
<1> QED BY <1>2, <1>3, <1>4, <1>5

(* or the asset is terminated: it has an end to come to, or a retry that hits nothing. *)
LEMMA EndingFacts ==
  ASSUME NEW r, NEW d, NEW v, NEW live, Smooth(r, d, v, live), r.pc \in KillerPc
  PROVE  \/ r.op = "retry" /\ r.server \notin live /\ v = Null /\ r.pc # "remove"
         \/ /\ r.op \in {"marked", "delete"} /\ r.pc # "gone"
            /\ Stage(d, v, r.op = "delete") = "ending" /\ d.server = r.server
         \/ r.op = "delete" /\ r.pc = "gone" /\ d = NoDoc
<1>1. /\ r \in TaskRec /\ ShapedTask(r) /\ Consistent(d, v, live, {})
      /\ FitsRecord(r, d, live, {}) /\ FitsCloud(r, d, live, {})
  BY SmoothParts
<1>2. r.op \in {"retry", "marked", "delete"}
  BY <1>1 DEF ShapedTask, TaskRec, Op, KillerPc, WorkerPc
<1>3. r.pc # "gone" => d # NoDoc
  BY <1>1 DEF FitsRecord
<1>4. CASE r.op = "retry"
  <2>1. d.status = "RETRY" /\ r.pc # "remove"
    BY <1>1, <1>4 DEF FitsRecord, ShapedTask, Stored
  <2>2. r.server \notin live
    BY <1>1, <1>4, NoneMet DEF FitsCloud, Beginning, Cleared
  <2>3. v = Null
    BY <1>1, <2>1, NoneMet DEF Consistent, Unready
  <2> QED BY <1>4, <2>1, <2>2, <2>3
<1>5. CASE r.op = "marked"
  <2>1. d.status = "MARKED_FOR_DELETION" /\ d.server = r.server /\ r.pc # "gone"
    BY <1>1, <1>5 DEF FitsRecord, ShapedTask, Stored
  <2> QED BY <1>3, <1>5, <2>1 DEF Stage
<1>6. CASE r.op = "delete" /\ r.pc # "gone"
  <2>1. d.server = r.server
    BY <1>1, <1>6 DEF FitsRecord, Stored
  <2> QED BY <1>3, <1>6, <2>1 DEF Stage
<1>7. CASE r.op = "delete" /\ r.pc = "gone"
  BY <1>1, <1>7, NoneMet DEF FitsRecord
<1> QED BY <1>2, <1>4, <1>5, <1>6, <1>7

(* When its record is to be removed, nothing of it runs. *)
LEMMA RemovedFacts ==
  ASSUME NEW r, NEW d, NEW v, NEW live, Smooth(r, d, v, live), r.pc = "remove"
  PROVE  Stage(d, v, r.op = "delete") = "ending" /\ live = {}
<1>1. d.server = r.server /\ Stage(d, v, r.op = "delete") = "ending"
  BY EndingFacts DEF KillerPc
<1>2. FitsCloud(r, d, live, {})
  BY SmoothParts
<1>3. live = {}
  BY <1>1, <1>2, NoneMet DEF FitsCloud
<1> QED BY <1>1, <1>3

(* Task t, which takes a step, holds asset a alone; nothing goes wrong with it. *)
SmoothHome(t, a) ==
  /\ a = task[t].id /\ AtHome(t, a) /\ Bystanders(a)
  /\ Smooth(task[t], db[a], vertex[a], Live(a))
  /\ scars[a] = {} /\ scars'[a] = {}
  /\ PhaseOf(a) = Stage(db[a], vertex[a], task[t].op = "delete")
  /\ PhaseOf(a)' = Stage(db'[a], vertex'[a], task'[t].op = "delete")

(* A mishap shows, and a write that is no mishap takes place. *)
LEMMA SmoothWrites ==
  ASSUME NEW t, NEW a, SmoothHome(t, a)
  PROVE  /\ \A kind : ~Blamed(a, kind)
         /\ \A x : Wrote(a, x) => db'[a] = x
BY DEF SmoothHome, Blamed, Wrote

(* As far as the record, the caller and the servers go, nothing happens. *)
LEMMA SmoothStill ==
  ASSUME NEW t, NEW a \in Asset, SmoothHome(t, a), UNCHANGED <<vertex, cloud, owner>>,
         Stage(db'[a], vertex'[a], task'[t].op = "delete")
           = Stage(db[a], vertex[a], task[t].op = "delete")
  PROVE  [Contract!ContractNext]_(Contract!cvars)
BY Stutters DEF SmoothHome

LEMMA SmoothRead ==
  ASSUME NEW t, NEW a \in Asset, SmoothHome(t, a), UNCHANGED <<db, vertex, cloud, owner>>,
         task'[t].op = "delete" <=> task[t].op = "delete"
  PROVE  [Contract!ContractNext]_(Contract!cvars)
<1>1. Stage(db'[a], vertex'[a], task'[t].op = "delete")
        = Stage(db[a], vertex[a], task[t].op = "delete")
  BY DEF Stage
<1> QED BY <1>1, SmoothStill

(* A server of the asset is deleted, if it is there. *)
LEMMA SmoothScrap ==
  ASSUME Typed, OwnServer, NEW t \in Task, NEW a \in Asset, SmoothHome(t, a),
         UNCHANGED <<db, vertex, owner>>,
         cloud' = cloud \/ cloud' = cloud \ {task[t].server},
         task'[t].op = "delete" <=> task[t].op = "delete",
         \/ task[t].server \notin Live(a)
         \/ Stage(db[a], vertex[a], task[t].op = "delete") \in {"pending", "ending"}
  PROVE  [Contract!ContractNext]_(Contract!cvars)
<1> DEFINE s == task[t].server
<1>1. task[t] \in TaskRec /\ task[t].id = a
  BY DEF SmoothHome, AtHome
<1>2. s \in cloud => s \in Live(a) /\ s \in Server
  <2>1. task[t].pc # "free"
    BY <1>1 DEF TaskRec, Pc, WorkerPc, KillerPc
  <2>2. s \in cloud => s # Null /\ s \in Server
    BY NullAssumption DEF Typed, TypeOK
  <2> QED BY <1>1, <2>1, <2>2 DEF OwnServer, OwnedTask, Owned, Free, Live
<1>3. CASE cloud' = cloud
  BY <1>3, SmoothRead
<1>4. CASE cloud' # cloud
  <2>1. s \in Live(a) /\ s \in Server /\ cloud' = cloud \ {s}
    BY <1>2, <1>4
  <2>2. PhaseOf(a)' = PhaseOf(a) /\ PhaseOf(a) \in {"pending", "ending"} /\ Bystanders(a)
    BY <2>1 DEF SmoothHome, Stage
  <2> HIDE DEF s
  <2> QED BY <2>1, <2>2, Scraps
<1> QED BY <1>3, <1>4

(* What a worker does to an asset all is well with is in the contract, *)
LEMMA WorkerContract ==
  ASSUME Typed, OwnServer, Promised, NEW t \in Task, Worker(t), NEW a \in Asset,
         SmoothHome(t, a)
  PROVE  [Contract!ContractNext]_(Contract!cvars)
<1> DEFINE r == task[t]
           q == task'[t]
           d == db[a]
           e == db'[a]
           v == vertex[a]
           w == vertex'[a]
           live == Live(a)
           Goal == [Contract!ContractNext]_(Contract!cvars)
<1>1. /\ a = r.id /\ Smooth(r, d, v, live) /\ Bystanders(a)
      /\ PhaseOf(a) = Stage(d, v, r.op = "delete")
      /\ PhaseOf(a)' = Stage(e, w, q.op = "delete")
  BY DEF SmoothHome
<1>2. /\ \A kind : ~Blamed(a, kind)
      /\ \A x : Wrote(a, x) => e = x
  BY SmoothWrites
<1>3. r \in TaskRec /\ ShapedTask(r)
  BY <1>1, SmoothParts
<1>4. (q.op = "delete" <=> r.op = "delete") /\ UNCHANGED <<db, vertex, cloud, owner>> => Goal
  BY SmoothRead
<1>5. \A s : Retried(q, r, s) => q.op = r.op
  BY DEF Retried, Becomes
<1>6. Stage(e, w, q.op = "delete") = Stage(d, v, r.op = "delete")
        /\ UNCHANGED <<vertex, cloud, owner>> => Goal
  BY SmoothStill
<1>7. FreeTask.op = "create"
  BY DEF FreeTask
<1>8. vertex' = vertex => w = v
  OBVIOUS
<1>21. \A x : Told(a, x) => w = x
  BY DEF Told, Typed, TypeOK
<1>22. Live(a) \subseteq Server
  BY DEF Live, Typed, TypeOK
<1> SUFFICES Goal
  OBVIOUS
<1> HIDE DEF Goal, d, e, v, w, live, r, q
<1>9. CASE SendRequest(t)
  <2>1. q.op = "create" /\ r.op # "delete" /\ UNCHANGED <<db, vertex, cloud, owner>>
    BY <1>3, <1>9, SendRequestEffect DEF r, q, Becomes, ShapedTask, KillerPc
  <2> QED BY <1>4, <2>1
<1>10. CASE Start(t)
  <2>1. /\ r.pc = "start" /\ q.op = r.op /\ q.status = "BUILD" /\ e = Stored(q)
        /\ UNCHANGED <<vertex, cloud, owner>>
    BY <1>1, <1>2, <1>10, StartEffect DEF r, q, e, Becomes
  <2>2. Stage(d, v, FALSE) = "pending" /\ v = Null /\ r.op = "create"
    BY <1>1, <2>1, PendingFacts DEF Attempting
  <2>3. e.status = "BUILD" /\ e # NoDoc
    BY <2>1 DEF Stored, NoDoc
  <2>4. Stage(e, w, FALSE) = "pending"
    BY <1>8, <2>1, <2>2, <2>3 DEF Stage
  <2> QED BY <1>6, <2>1, <2>2, <2>4
<1>11. CASE StartFails(t) \/ DetailFails(t)
  BY <1>1, <1>2, <1>11, StartFailsEffect, DetailFailsEffect DEF r
<1>12. ASSUME NEW s \in Server, RunServer(t, s) PROVE Goal
  <2>1. /\ r.pc = "run" /\ owner[s] = Null
        /\ owner' = [owner EXCEPT ![s] = a] /\ cloud' = cloud \cup {s}
        /\ q.op = r.op /\ UNCHANGED <<db, vertex>>
    BY <1>1, <1>5, <1>12, RunServerEffect DEF r, q, Becomes
  <2>2. Stage(d, v, FALSE) = "pending" /\ r.op = "create"
    BY <1>1, <2>1, PendingFacts DEF Attempting
  <2>3. PhaseOf(a) = "pending" /\ PhaseOf(a)' = PhaseOf(a)
    BY <1>1, <2>1, <2>2 DEF d, e, v, w
  <2> QED BY <1>1, <2>1, <2>3, Builds DEF Goal
<1>13. CASE RunServerFails(t) \/ Configure(t) \/ ConfigureFails(t)
  <2>1. q.op = r.op /\ UNCHANGED <<db, vertex, cloud, owner>>
    BY <1>5, <1>13, RunServerFailsEffect, ConfigureEffect, ConfigureFailsEffect
       DEF r, q, Becomes
  <2> QED BY <1>4, <2>1
<1>14. CASE Cleanup(t)
  <2>1. /\ r.pc = "cleanup" /\ q.op = r.op /\ UNCHANGED <<db, vertex, owner>>
        /\ cloud' = cloud \/ cloud' = cloud \ {r.server}
    BY <1>5, <1>14, CleanupEffect DEF r, q
  <2>2. Stage(d, v, FALSE) = "pending" /\ r.op = "create"
    BY <1>1, <2>1, PendingFacts DEF Attempting
  <2> QED BY <2>1, <2>2, SmoothScrap DEF Goal, r, q, d, v
<1>15. CASE Finish(t)
  <2>1. /\ r.pc = "finish" /\ e = Stored(r) /\ q.op \in {r.op, "create"}
        /\ UNCHANGED <<vertex, cloud, owner>>
    BY <1>1, <1>2, <1>7, <1>15, FinishEffect DEF r, q, e, Becomes
  <2>2. /\ Stage(d, v, FALSE) = "pending" /\ d.status \in Unready /\ d # NoDoc
        /\ r.op = "create"
    BY <1>1, <2>1, PendingFacts DEF Attempting
  <2>3. e.status \in {"RETRY", "SERVER_CREATED"} /\ e # NoDoc
    BY <1>3, <2>1 DEF Stored, NoDoc, ShapedTask
  <2>4. Stage(e, w, FALSE) = "pending"
    BY <1>8, <2>1, <2>2, <2>3 DEF Stage, Unready
  <2> QED BY <1>6, <2>1, <2>2, <2>4
<1>16. CASE Notify(t)
  <2>1. /\ r.pc = "notify" /\ q.op = r.op /\ UNCHANGED <<db, cloud, owner>>
        /\ vertex' = vertex \/ Told(a, r.server)
    BY <1>1, <1>16, NotifyEffect DEF r, q, Becomes
  <2>2. /\ d.status = "SERVER_CREATED" /\ d # NoDoc /\ r.op = "create"
        /\ live = {r.server} /\ (v = Null \/ v = r.server)
    BY <1>1, <2>1, BuiltFacts
  <2>3. r.server \in Server /\ r.server # Null
    BY <1>22, <2>2, NullAssumption DEF live
  <2>4. v = Null
    <3>1. r.status = "SERVER_CREATED"
      BY <1>3, <2>1 DEF ShapedTask
    <3>2. Teller(task[t], r.server)
      BY <2>1, <3>1 DEF Teller, r
    <3>3. Untold(r.server)
      BY <2>3, <3>2 DEF Promised
    <3> QED BY <2>2, <3>3 DEF Untold, v
  <2>5. CASE vertex' = vertex
    BY <1>4, <2>1, <2>5
  <2>6. CASE Told(a, r.server)
    <3>1. PhaseOf(a) = "pending"
      BY <1>1, <2>2, <2>4 DEF Stage
    <3>2. e = d /\ w = r.server
      BY <1>21, <2>1, <2>6 DEF e, d
    <3>3. PhaseOf(a)' = "served"
      BY <1>1, <2>1, <2>2, <2>3, <3>2 DEF Stage
    <3> QED BY <1>1, <2>1, <2>2, <2>3, <2>6, <3>1, <3>3, Serves DEF Goal, live
  <2> QED BY <2>1, <2>5, <2>6
<1>17. CASE Record(t)
  <2>1. /\ r.pc = "record" /\ e = Stored(r) /\ q = FreeTask
        /\ UNCHANGED <<vertex, cloud, owner>>
    BY <1>1, <1>2, <1>17, RecordEffect DEF r, q, e
  <2>2. d.status = "SERVER_CREATED" /\ d # NoDoc /\ r.op = "create"
    BY <1>1, <2>1, BuiltFacts
  <2>3. /\ e.status \in {"SERVER_CREATED", "MARKED_FOR_DELETION", "NOTIFICATION_FAILED"}
        /\ e # NoDoc
    BY <1>3, <2>1 DEF Stored, NoDoc, ShapedTask
  <2>4. Stage(d, v, FALSE) \in {"pending", "served"}
    BY <2>2 DEF Stage
  <2>5. CASE e.status = "MARKED_FOR_DELETION"
    <3>1. Stage(e, w, FALSE) = "ending"
      BY <2>3, <2>5 DEF Stage
    <3> QED BY <1>1, <1>7, <2>1, <2>2, <2>4, <3>1, Closes DEF Goal
  <2>6. CASE e.status # "MARKED_FOR_DELETION"
    <3>1. Stage(e, w, FALSE) = Stage(d, v, FALSE)
      BY <1>8, <2>1, <2>2, <2>3, <2>6 DEF Stage
    <3> QED BY <1>6, <1>7, <2>1, <2>2, <3>1
  <2> QED BY <2>5, <2>6
<1> QED
  BY <1>9, <1>10, <1>11, <1>12, <1>13, <1>14, <1>15, <1>16, <1>17 DEF Worker

(* and so is what a termination, a detach call, and the rescheduler do. *)
LEMMA KillerContract ==
  ASSUME Typed, OwnServer, NEW t \in Task, Killer(t) \/ Detach(t) \/ Take(t),
         NEW a \in Asset, SmoothHome(t, a)
  PROVE  [Contract!ContractNext]_(Contract!cvars)
<1> DEFINE r == task[t]
           q == task'[t]
           d == db[a]
           e == db'[a]
           v == vertex[a]
           w == vertex'[a]
           live == Live(a)
           Goal == [Contract!ContractNext]_(Contract!cvars)
<1>1. /\ a = r.id /\ Smooth(r, d, v, live) /\ Bystanders(a)
      /\ PhaseOf(a) = Stage(d, v, r.op = "delete")
      /\ PhaseOf(a)' = Stage(e, w, q.op = "delete")
  BY DEF SmoothHome
<1>2. /\ \A kind : ~Blamed(a, kind)
      /\ \A x : Wrote(a, x) => e = x
  BY SmoothWrites
<1>3. r \in TaskRec /\ ShapedTask(r)
  BY <1>1, SmoothParts
<1>4. (q.op = "delete" <=> r.op = "delete") /\ UNCHANGED <<db, vertex, cloud, owner>> => Goal
  BY SmoothRead
<1>5. Done(q, r) => q.op = r.op
  BY DEF Done, Becomes
<1>6. Stage(e, w, q.op = "delete") = Stage(d, v, r.op = "delete")
        /\ UNCHANGED <<vertex, cloud, owner>> => Goal
  BY SmoothStill
<1>7. \A deleted : Stage(NoDoc, w, deleted) = "gone" /\ Stage(NoDoc, v, deleted) = "gone"
  BY DEF Stage
<1>8. \A x : Told(a, x) => w = x
  BY DEF Told, Typed, TypeOK
<1>9. db' = db => e = d
  OBVIOUS
<1> SUFFICES Goal
  OBVIOUS
<1> HIDE DEF Goal, d, e, v, w, live, r, q
<1>10. CASE LookUp(t) \/ Take(t)
  <2>1. q.op = r.op /\ UNCHANGED <<db, vertex, cloud, owner>>
    BY <1>5, <1>10, LookUpEffect, TakeEffect DEF r, q, Becomes
  <2> QED BY <1>4, <2>1
<1>11. CASE ListFails(t) \/ LookUpFails(t)
  BY <1>1, <1>2, <1>11, ListFailsEffect, LookUpFailsEffect DEF r
<1>12. CASE Kill(t) \/ KillFails(t)
  <2>1. /\ r.pc = "kill" /\ q.op = r.op /\ UNCHANGED <<db, vertex, owner>>
        /\ cloud' = cloud \/ cloud' = cloud \ {r.server}
    BY <1>5, <1>12, KillEffect, KillFailsEffect DEF r, q, Becomes
  <2>2. r.server \notin live \/ Stage(d, v, r.op = "delete") = "ending"
    BY <1>1, <2>1, EndingFacts DEF KillerPc
  <2> QED BY <2>1, <2>2, SmoothScrap DEF Goal, r, q, d, v, live
<1>13. CASE Remove(t)
  <2>1. r.pc = "remove" /\ e = NoDoc /\ UNCHANGED <<vertex, cloud, owner>>
    BY <1>1, <1>2, <1>13, RemoveEffect DEF r
  <2>2. PhaseOf(a) = "ending" /\ live = {}
    BY <1>1, <2>1, RemovedFacts
  <2>3. PhaseOf(a)' = "gone"
    BY <1>1, <1>7, <2>1
  <2> QED BY <1>1, <2>1, <2>2, <2>3, Forgets DEF Goal, live
<1>14. CASE Detach(t)
  <2>1. /\ r.detach /\ r.pc \in KillerPc /\ Told(a, Null) /\ UNCHANGED <<db, cloud, owner>>
        /\ r.pc # "gone" => q.op = r.op
    BY <1>1, <1>2, <1>14, DetachEffect DEF r, q, Becomes
  <2>2. w = Null /\ e = d
    BY <1>8, <1>9, <2>1
  <2>3. r.op # "marked"
    BY <1>3, <2>1 DEF ShapedTask
  <2>7. \/ r.op = "retry" /\ v = Null
        \/ r.op = "delete" /\ r.pc # "gone" /\ Stage(d, v, TRUE) = "ending"
        \/ r.op = "delete" /\ r.pc = "gone" /\ d = NoDoc
    BY <1>1, <2>1, <2>3, EndingFacts
  <2>4. CASE r.op = "retry" /\ v = Null
    <3>1. vertex' = vertex
      BY <2>1, <2>4 DEF Told, v, Typed, TypeOK
    <3>2. r.pc # "gone"
      BY <1>3, <2>4 DEF ShapedTask
    <3> QED BY <1>4, <2>1, <3>1, <3>2
  <2>5. CASE r.op = "delete" /\ r.pc # "gone" /\ Stage(d, v, TRUE) = "ending"
    <3>1. Stage(d, w, TRUE) = "ending"
      BY <2>5 DEF Stage
    <3>2. PhaseOf(a) = "ending" /\ PhaseOf(a)' = PhaseOf(a)
      BY <1>1, <2>1, <2>2, <2>5, <3>1
    <3> QED BY <1>1, <2>1, <3>2, Releases DEF Goal
  <2>6. CASE r.op = "delete" /\ r.pc = "gone" /\ d = NoDoc
    <3>1. PhaseOf(a) = "gone" /\ PhaseOf(a)' = PhaseOf(a)
      BY <1>1, <1>7, <2>2, <2>6
    <3> QED BY <1>1, <2>1, <3>1, Releases DEF Goal
  <2> QED BY <2>4, <2>5, <2>6, <2>7
<1> QED
  BY <1>10, <1>11, <1>12, <1>13, <1>14 DEF Killer

(* The task that takes a step with an asset nothing goes wrong with holds it alone. *)
LEMMA HomeIsSmooth ==
  ASSUME Typed, Shaped, Orderly, NEW t \in Task, NEW a \in Asset, a = task[t].id,
         AtHome(t, a), scars'[a] = {}
  PROVE  SmoothHome(t, a)
<1>1. task[t] \in TaskRec /\ scars[a] = {} /\ issued' = issued
  BY DEF AtHome
<1>2. Alone(a)
  BY <1>1 DEF Alone
<1>3. Sound(task[t], db[a], vertex[a], Live(a), scars[a])
  BY <1>1, <1>2, HolderSound DEF Orderly
<1>4. Holds(t, a) /\ Busy(a)
  BY <1>1 DEF Holds, Busy, Free, TaskRec, Pc, WorkerPc, KillerPc
<1>5. (\A u \in Task : Holds(u, a) => u = t) /\ a \in issued
  BY <1>2, <1>4 DEF Orderly, Exclusive, Unborn
<1>6. /\ Deleted(a) <=> task[t].op = "delete"
      /\ Deleted(a)' <=> task'[t].op = "delete"
  BY <1>5, HomeDeleted
<1>7. PhaseOf(a) = Stage(db[a], vertex[a], task[t].op = "delete")
  BY <1>1, <1>5, <1>6, PhaseIsStage DEF Stage
<1>8. PhaseOf(a)' = Stage(db'[a], vertex'[a], task'[t].op = "delete")
  BY <1>1, <1>5, <1>6, PhaseIsStageNext DEF Stage
<1> QED BY <1>1, <1>3, <1>7, <1>8, HomeElsewhere DEF SmoothHome, Smooth

(* A step of a task. *)
LEMMA TaskContract ==
  ASSUME Typed, OwnServer, Shaped, Promised, Orderly, Typed', OwnServer', NEW t \in Task,
         Worker(t) \/ Killer(t) \/ Detach(t) \/ Take(t)
  PROVE  [Contract!ContractNext]_(Contract!cvars)
<1>0. PICK a \in Asset : a = task[t].id
  BY AtWork
<1>1. AtHome(t, a) /\ Lawful({a})
  BY <1>0, WorkerAtHome, KillerAtHome, TaskLawful DEF Orderly
<1>2. CASE scars'[a] # {}
  <2>1. \A b \in Asset \ {a} : /\ PhaseOf(b)' = PhaseOf(b) /\ vertex'[b] = vertex[b]
                               /\ Live(b)' = Live(b)
    BY <1>1, HomeElsewhere DEF AtHome, Away, Bystanders
  <2> QED BY <1>1, <1>2, <2>1, Suffers
<1>3. CASE scars'[a] = {}
  <2>1. SmoothHome(t, a)
    BY <1>0, <1>1, <1>3, HomeIsSmooth
  <2> QED BY <2>1, WorkerContract, KillerContract
<1> QED BY <1>2, <1>3

(* Nothing the contract speaks of changes. *)
LEMMA StillContract ==
  ASSUME \A b \in Asset : Deleted(b)' <=> Deleted(b),
         UNCHANGED <<db, vertex, scars, issued, cloud, owner>>
  PROVE  [Contract!ContractNext]_(Contract!cvars)
<1>1. \A b \in Asset : PhaseOf(b)' = PhaseOf(b)
  BY PhaseStays
<1> QED BY <1>1, PhasesStay DEF Contract!cvars, Phases

(* A worker starts. *)
LEMMA DispatchContract ==
  ASSUME Typed, Dispatch
  PROVE  [Contract!ContractNext]_(Contract!cvars)
<1>1. PICK t \in Task :
         /\ Others(t)
         /\ Becomes(task'[t], task[t], task[t].op, "start", task[t].status,
                    task[t].server, task[t].ip, task[t].entity, task[t].detach)
         /\ UNCHANGED <<db, scars, vertex, cloud, owner, issued>>
  BY DispatchEffect
<1>2. \A b \in Asset : Deleted(b)' <=> Deleted(b)
  BY <1>1 DEF Deleted, Others, Becomes
<1> QED BY <1>1, <1>2, StillContract

(* Somebody who is to delete an asset holds it. *)
LEMMA DeletedIsBusy ==
  ASSUME Typed, NEW a \in Asset, Deleted(a)
  PROVE  Busy(a)
<1>1. PICK t \in Task : task[t].op = "delete" /\ task[t].id = a
  BY DEF Deleted
<1>2. task[t] \in TaskRec
  BY <1>1, NullAssumption DEF Typed, TypeOK, FreeTask
<1> QED BY <1>1, <1>2 DEF Busy, Free, TaskRec, Pc, WorkerPc, KillerPc

(* A free task deletes nothing. *)
LEMMA FreeDeletes ==
  ASSUME Typed, NEW t \in Task, task[t].pc = "free"
  PROVE  task[t] = FreeTask /\ task[t].op = "create" /\ task[t].id \notin Asset
<1>1. task[t] = FreeTask
  BY DEF Typed, TypeOK, TaskRec, Pc, WorkerPc, KillerPc
<1> QED BY <1>1, NullAssumption DEF FreeTask

(* A new request. *)
LEMMA CreateContract ==
  ASSUME Typed, Orderly, Typed', OwnServer', NEW a \in Asset, NEW t \in Task, CreateAsset(a, t)
  PROVE  [Contract!ContractNext]_(Contract!cvars)
<1>1. /\ a \notin issued /\ issued' = issued \cup {a} /\ task[t].pc = "free" /\ Others(t)
      /\ task'[t].id = a /\ task'[t].op = "create"
      /\ Inserted(db'[a]) /\ Untouched(a) /\ scars' = scars
      /\ UNCHANGED <<vertex, cloud, owner>>
  BY CreateEffect
<1>2. \A b \in Asset : Deleted(b)' <=> Deleted(b)
  BY <1>1, FreeDeletes DEF Deleted, Others
<1>3. Bystanders(a)
  BY <1>1, <1>2, PhaseStays DEF Bystanders, Untouched
<1>4. vertex[a] = Null /\ ~Deleted(a)
  BY <1>1, DeletedIsBusy DEF Orderly, Unborn
<1>5. CASE scars[a] = {}
  <2>1. PhaseOf(a) = "unknown"
    BY <1>1, <1>5, PhaseIsStage
  <2>2. PhaseOf(a)' = "pending"
    BY <1>1, <1>2, <1>4, <1>5, PhaseIsStageNext DEF Stage, Inserted
  <2> QED BY <1>1, <1>3, <2>1, <2>2, Accepts
<1>6. CASE scars[a] # {}
  <2>1. PhaseOf(a)' = PhaseOf(a)
    BY <1>1, <1>6, PhaseIsStage, PhaseIsStageNext
  <2> QED BY <1>1, <1>3, <2>1, Stutters
<1> QED BY <1>5, <1>6

(* A new request whose insert's reply is lost. *)
LEMMA CreateFailsContract ==
  ASSUME Typed, Typed', OwnServer', NEW a \in Asset, CreateAssetFails(a)
  PROVE  [Contract!ContractNext]_(Contract!cvars)
<1>1. /\ issued' = issued \cup {a} /\ Blamed(a, "write") /\ Untouched(a)
      /\ UNCHANGED <<task, vertex, cloud, owner>>
  BY CreateFailsEffect
<1>2. \A b : (Deleted(b)' <=> Deleted(b)) /\ Live(b)' = Live(b)
  BY <1>1, LiveSame DEF Deleted
<1>3. \A b \in Asset \ {a} : /\ PhaseOf(b)' = PhaseOf(b) /\ vertex'[b] = vertex[b]
                             /\ Live(b)' = Live(b)
  BY <1>1, <1>2, PhaseStays DEF Untouched
<1>4. scars'[a] # {} /\ Lawful({a})
  BY <1>1 DEF Blamed, Lawful
<1> QED BY <1>3, <1>4, Suffers

(* A deletion is accepted. *)
LEMMA DestroyContract ==
  ASSUME Typed, Orderly, Typed', OwnServer', NEW a \in Asset, NEW t \in Task, DestroyAsset(a, t)
  PROVE  [Contract!ContractNext]_(Contract!cvars)
<1> /\ db[a] # NoDoc /\ task[t].pc = "free" /\ Others(t)
    /\ Reads(task'[t], a, db[a], "delete", "lookup", TRUE)
    /\ scars' = Overlap({a})
    /\ UNCHANGED <<db, vertex, cloud, owner, issued>>
  BY DestroyEffect
<1>0. task'[t].id = a /\ task'[t].op = "delete"
  BY DEF Reads
<1>1. /\ db[a] # NoDoc /\ task[t].pc = "free" /\ Others(t)
      /\ task'[t].id = a /\ task'[t].op = "delete" /\ scars' = Overlap({a})
      /\ UNCHANGED <<db, vertex, cloud, owner, issued>>
  BY <1>0
<1>2. \A b \in Asset : b # a => scars'[b] = scars[b] /\ (Deleted(b)' <=> Deleted(b))
  BY <1>1, FreeDeletes, OverlapEffect DEF Deleted, Others
<1>3. Bystanders(a)
  BY <1>1, <1>2, PhaseStays DEF Bystanders
<1>4. CASE scars'[a] # {}
  <2>1. \A b \in Asset \ {a} : /\ PhaseOf(b)' = PhaseOf(b) /\ vertex'[b] = vertex[b]
                               /\ Live(b)' = Live(b)
    BY <1>1, <1>3, LiveSame DEF Bystanders
  <2>2. Lawful({a})
    BY <1>1 DEF Lawful
  <2> QED BY <1>4, <2>1, <2>2, Suffers
<1>5. CASE scars'[a] = {}
  <2>1. scars[a] = {} /\ ~Deleted(a)
    BY <1>1, <1>5, DeletedIsBusy DEF Overlap
  <2>2. a \in issued
    BY <1>1 DEF Orderly, Unborn
  <2>3. PhaseOf(a) = Stage(db[a], vertex[a], FALSE)
    BY <2>1, <2>2, PhaseIsStage DEF Stage
  <2>4. PhaseOf(a)' = "ending"
    BY <1>1, <1>5, <2>2, PhaseIsStageNext DEF Stage, Deleted
  <2>5. CASE db[a].status = "MARKED_FOR_DELETION"
    <3>1. PhaseOf(a)' = PhaseOf(a)
      BY <1>1, <2>3, <2>4, <2>5 DEF Stage
    <3> QED BY <1>1, <1>3, <3>1, Stutters
  <2>6. CASE db[a].status # "MARKED_FOR_DELETION"
    <3>1. PhaseOf(a) \in {"pending", "served"}
      BY <1>1, <2>3, <2>6 DEF Stage
    <3> QED BY <1>1, <1>3, <2>4, <3>1, Closes
  <2> QED BY <2>5, <2>6
<1> QED BY <1>4, <1>5

(* A round of the rescheduler. *)
LEMMA ScanContract ==
  ASSUME Typed, Typed', OwnServer', Scan
  PROVE  [Contract!ContractNext]_(Contract!cvars)
<1> DEFINE as == {a \in Due : Busy(a)}
<1>1. PICK slot : \A t \in Task :
           \/ task'[t] = task[t]
           \/ \E a \in Due : slot[a] = t /\ Rescheduled(t, a)
  BY ScanTasks
<1>2. scars' = Overlap(Due) /\ UNCHANGED <<db, vertex, cloud, owner, issued>>
  BY DEF Scan
<1>3. \A t \in Task : task'[t] # task[t] => task[t].op = "create" /\ task'[t].op # "delete"
  BY <1>1, FreeDeletes DEF Rescheduled, Reads
<1>4. \A b : Deleted(b)' <=> Deleted(b)
  BY <1>3 DEF Deleted
<1>5. \A b \in Asset \ as : scars'[b] = scars[b]
  BY <1>2 DEF Overlap
<1>6. \A b \in Asset \ as : /\ PhaseOf(b)' = PhaseOf(b) /\ vertex'[b] = vertex[b]
                            /\ Live(b)' = Live(b)
  BY <1>2, <1>4, <1>5, PhaseStays, LiveSame
<1>7. as \subseteq Asset /\ \A a \in as : scars'[a] # {}
  BY <1>2 DEF Overlap, Due
<1>8. Lawful(as)
  BY <1>2 DEF Lawful
<1> HIDE DEF as
<1> QED BY <1>6, <1>7, <1>8, Suffers

(* A crash. *)
LEMMA CrashContract ==
  ASSUME Typed, Typed', OwnServer', Crash
  PROVE  [Contract!ContractNext]_(Contract!cvars)
<1> DEFINE as == {a \in Asset : Busy(a)}
<1>1. /\ \A t \in Task : task'[t] = FreeTask
      /\ \A b \in Asset : scars'[b] = IF Busy(b) THEN scars[b] \cup {"crash"} ELSE scars[b]
      /\ UNCHANGED <<db, vertex, cloud, owner, issued>>
  BY DEF Crash, peervars
<1>2. \A b \in Asset \ as : (Deleted(b)' <=> Deleted(b)) /\ scars'[b] = scars[b]
  <2>1. \A b \in Asset \ as : ~Busy(b) /\ ~Deleted(b)
    BY DeletedIsBusy
  <2>2. \A b : ~Deleted(b)'
    BY <1>1 DEF Deleted, FreeTask
  <2> QED BY <1>1, <2>1, <2>2
<1>3. \A b \in Asset \ as : /\ PhaseOf(b)' = PhaseOf(b) /\ vertex'[b] = vertex[b]
                            /\ Live(b)' = Live(b)
  BY <1>1, <1>2, PhaseStays, LiveSame
<1>4. as \subseteq Asset /\ \A a \in as : scars'[a] # {}
  BY <1>1
<1>5. Lawful(as)
  BY <1>1 DEF Lawful
<1> HIDE DEF as
<1> QED BY <1>3, <1>4, <1>5, Suffers

LEMMA StepContract ==
  Typed /\ OwnServer /\ Shaped /\ Promised /\ Orderly /\ Typed' /\ OwnServer' /\ [Next]_vars
    => [Contract!ContractNext]_(Contract!cvars)
<1> SUFFICES ASSUME Typed, OwnServer, Shaped, Promised, Orderly, Typed', OwnServer', [Next]_vars
             PROVE  [Contract!ContractNext]_(Contract!cvars)
  OBVIOUS
<1>1. CASE Handler
  BY <1>1, CreateContract, CreateFailsContract, DestroyContract DEF Handler
<1>2. CASE Dispatch
  BY <1>2, DispatchContract
<1>3. CASE Scan
  BY <1>3, ScanContract
<1>4. CASE Crash
  BY <1>4, CrashContract
<1>5. CASE RescheduleDies \/ UNCHANGED vars
  <2>1. UNCHANGED <<db, task, vertex, scars, issued, cloud, owner>>
    BY <1>5 DEF RescheduleDies, vars, sysvars, peervars, history
  <2> QED BY <2>1, StillContract DEF Deleted
<1>6. CASE \E t \in Task : Worker(t) \/ Killer(t) \/ Detach(t) \/ Take(t)
  BY <1>6, TaskContract
<1> QED BY <1>1, <1>2, <1>3, <1>4, <1>5, <1>6 DEF Next

(* What createAsset, createServer, updateAndNotify and terminateInstance do, beside the
   rescheduler and restarts, is for every asset without a mishap what its owner was
   promised: the engine implements AssetContract. *)
THEOREM EngineKeepsContract == Spec => KeepsContract
<1>1. Init => Contract!ContractInit
  <2> SUFFICES ASSUME Init PROVE Contract!ContractInit
    OBVIOUS
  <2>1. \A a \in Asset : PhaseOf(a) = "unknown"
    BY DEF Init, PhaseOf
  <2> QED BY <2>1 DEF Init, Contract!ContractInit
<1> QED BY <1>1, StepContract, AlwaysTyped, ServersStayWithTheirAsset, AlwaysShaped,
           AlwaysTelling, AlwaysOrderly, PTL DEF Spec, KeepsContract, Contract!ContractSpec
=============================================================================
