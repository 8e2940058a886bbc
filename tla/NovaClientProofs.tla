-------------------------- MODULE NovaClientProofs --------------------------
(***************************************************************************)
(* Proofs about the nova client and its double, for any callers, requests, *)
(* hooks and bounds.                                                       *)
(***************************************************************************)
EXTENDS NovaClient, SequenceTheorems, TLAPS

USE DEF Creates, OnGroup, OnIP, Reading, HasBody
-----------------------------------------------------------------------------
(* The double's bookkeeping: what its maps are, and that nothing is kept under
   an id that was not given out yet. *)
Counters == [server : Nat, group : Nat, rule : Nat, ip : Nat]

ServersBooked ==
  /\ servers \subseteq ServerId
  /\ \A s \in servers : s <= next.server
  /\ serverGroups = [s \in ServerId |-> serverGroups[s]]
  /\ serverIPs = [s \in ServerId |-> serverIPs[s]]
  /\ \A s \in ServerId : s > next.server => serverGroups[s] = {} /\ serverIPs[s] = {}

GroupsBooked ==
  /\ groups = [g \in GroupId |-> groups[g]]
  /\ rules = [r \in RuleId |-> rules[r]]
  /\ \A r \in RuleId : r > next.rule => rules[r] = Null

IPsBooked ==
  /\ floatingIPs = [i \in IPId |-> floatingIPs[i]]
  /\ \A i \in IPId : i > next.ip => floatingIPs[i] = Null

Book == next \in Counters /\ ServersBooked /\ GroupsBooked /\ IPsBooked

(* What a request must be for the double to find its way in the maps. *)
WellAsked(q) ==
  /\ q.op = "CreateSecurityGroup" => q.n \in GroupName
  /\ q.op \in {"DeleteSecurityGroup", "CreateSecurityGroupRule"} => q.g \in GroupId
  /\ q.op = "CreateSecurityGroupRule" => q.m \in Match
  /\ q.op = "DeleteSecurityGroupRule" => q.r \in RuleId
  /\ q.op = "DeleteFloatingIP" => q.i \in IPId

LEMMA RequestsAreWellAsked ==
  ASSUME NEW q \in Request
  PROVE  WellAsked(q)
  <1>1. CASE q \in GroupRequest
    BY <1>1 DEF GroupRequest, With, WellAsked
  <1>2. CASE q \in RuleRequest
    BY <1>2 DEF RuleRequest, With, WellAsked
  <1>3. CASE q \in AddressRequest
    BY <1>3 DEF AddressRequest, With, WellAsked
  <1>4. CASE q \in ListRequest \cup ServerRequest \cup RunRequest \cup RenameRequest
               \cup AccessRequest \cup NameRequest \cup GroupAction \cup AddressAction
    <2>1. q.op \notin {"CreateSecurityGroup", "DeleteSecurityGroup", "DeleteFloatingIP",
                       "CreateSecurityGroupRule", "DeleteSecurityGroupRule"}
      BY <1>4 DEF ListRequest, ServerRequest, RunRequest, RenameRequest, AccessRequest,
                  NameRequest, GroupAction, AddressAction, With
    <2> QED BY <2>1 DEF WellAsked
  <1> QED BY <1>1, <1>2, <1>3, <1>4 DEF Request

LEMMA BookStands ==
  ASSUME Book, UNCHANGED store
  PROVE  Book'
  BY DEF store, Book, ServersBooked, GroupsBooked, IPsBooked

(* A server comes with the next id, and may have been given groups. *)
LEMMA RunKeepsBook ==
  ASSUME Book, NEW names, NEW f, NEW code, RunServer(names, f, code)
  PROVE  Book'
  <1> DEFINE s == next.server + 1
  <1>1. /\ next.server < MaxServers
        /\ next' = [next EXCEPT !.server = s]
        /\ servers' \subseteq servers \cup {s}
        /\ \/ serverGroups' = serverGroups
           \/ \E S : serverGroups' = [serverGroups EXCEPT ![s] = S]
        /\ UNCHANGED <<groups, rules, floatingIPs, serverIPs>>
    <2> HIDE DEF s
    <2>1. /\ next.server < MaxServers
          /\ next' = [next EXCEPT !.server = next.server + 1]
          /\ UNCHANGED <<groups, rules, floatingIPs, serverIPs>>
          /\ \/ UNCHANGED <<servers, serverGroups>>
             \/ \E ids : AddServer(ids, f, code)
      BY DEF RunServer
    <2>2. ASSUME NEW ids, AddServer(ids, f, code)
          PROVE  /\ servers' \subseteq servers \cup {s}
                 /\ \/ serverGroups' = serverGroups
                    \/ \E S : serverGroups' = [serverGroups EXCEPT ![s] = S]
      BY <2>2 DEF AddServer, NewServer, s
    <2> QED BY <2>1, <2>2 DEF s
  <1>2. /\ s \in ServerId
        /\ next' \in Counters
        /\ next'.server = s /\ next'.rule = next.rule /\ next'.ip = next.ip
    BY <1>1, NovaAssumption DEF Book, Counters, ServerId
  <1>3. next.server \in Nat
    BY DEF Book, Counters
  <1> HIDE DEF s
  <1>4. s = next.server + 1
    BY DEF s
  <1>5. serverGroups' = [t \in ServerId |-> serverGroups'[t]]
        /\ \A t \in ServerId : t # s => serverGroups'[t] = serverGroups[t]
    BY <1>1 DEF Book, ServersBooked
  <1>6. ServersBooked'
    BY <1>1, <1>2, <1>3, <1>4, <1>5 DEF Book, ServersBooked, ServerId
  <1>7. GroupsBooked' /\ IPsBooked'
    BY <1>1, <1>2 DEF Book, GroupsBooked, IPsBooked
  <1> QED BY <1>2, <1>6, <1>7 DEF Book

LEMMA ServersKeepBook ==
  ASSUME Book, NEW q, NEW f, NEW code, HandleServers(q, f, code)
  PROVE  Book'
  <1>1. CASE UNCHANGED store
    BY <1>1, BookStands
  <1>2. CASE RunServer(q.names, f, code)
    BY <1>2, RunKeepsBook
  <1>3. CASE ~UNCHANGED store /\ ~RunServer(q.names, f, code)
    <2>1. /\ UNCHANGED <<groups, rules, next>>
          /\ servers' \subseteq servers
          /\ \/ serverGroups' = serverGroups
             \/ \E S : serverGroups' = [serverGroups EXCEPT ![q.s] = S] /\ q.s \in servers
          /\ \/ serverIPs' = serverIPs
             \/ \E S : serverIPs' = [serverIPs EXCEPT ![q.s] = S] /\ q.s \in servers
          /\ \/ floatingIPs' = floatingIPs
             \/ /\ \E v : floatingIPs' = [floatingIPs EXCEPT ![q.i] = v]
                /\ floatingIPs[q.i] # Null
      <3>1. CASE DeleteServer(q.s, f, code)
        BY <1>3, <3>1 DEF DeleteServer, Say, Refuse
      <3>2. CASE AddServerSecurityGroup(q.s, q.n, f, code)
        BY <1>3, <3>2 DEF AddServerSecurityGroup, HasServer, Say, Refuse
      <3>3. CASE RemoveServerSecurityGroup(q.s, q.n, f, code)
        BY <1>3, <3>3 DEF RemoveServerSecurityGroup, HasServer, Say, Refuse
      <3>4. CASE AddServerFloatingIP(q.s, q.i, f, code)
        BY <1>3, <3>4 DEF AddServerFloatingIP, HasServer, Say, Refuse
      <3>5. CASE RemoveServerFloatingIP(q.s, q.i, f, code)
        BY <1>3, <3>5 DEF RemoveServerFloatingIP, HasServer, HasServerIP, Unlinked, Say, Refuse
      <3> QED BY <1>3, <3>1, <3>2, <3>3, <3>4, <3>5 DEF HandleServers
    <2>2. /\ serverGroups' = [t \in ServerId |-> serverGroups'[t]]
          /\ \A t \in ServerId \ servers : serverGroups'[t] = serverGroups[t]
      BY <2>1 DEF Book, ServersBooked
    <2>3. /\ serverIPs' = [t \in ServerId |-> serverIPs'[t]]
          /\ \A t \in ServerId \ servers : serverIPs'[t] = serverIPs[t]
      BY <2>1 DEF Book, ServersBooked
    <2>4. \A t \in servers : ~(t > next.server)
      <3> SUFFICES ASSUME NEW t \in servers PROVE ~(t > next.server)
        OBVIOUS
      <3>1. t \in Nat /\ t <= next.server /\ next.server \in Nat
        BY NovaAssumption DEF Book, ServersBooked, ServerId, Counters
      <3> QED BY <3>1
    <2>5. ServersBooked'
      BY <2>1, <2>2, <2>3, <2>4 DEF Book, ServersBooked
    <2>6. IPsBooked'
      BY <2>1 DEF Book, IPsBooked
    <2> QED BY <2>1, <2>5, <2>6 DEF Book, GroupsBooked
  <1> QED BY <1>1, <1>2, <1>3

LEMMA AccountKeepsBook ==
  ASSUME Book, NEW q, WellAsked(q), NEW f, NEW code, HandleAccount(q, f, code)
  PROVE  Book'
  <1>1. CASE UNCHANGED store
    BY <1>1, BookStands
  <1> SUFFICES ASSUME ~UNCHANGED store PROVE Book'
    BY <1>1
  <1>2. CASE q.op = "CreateSecurityGroup" /\ CreateSecurityGroup(q.n, f, code)
    <2>1. /\ next' = [next EXCEPT !.group = next.group + 1]
          /\ groups' = groups \/ \E v : groups' = [groups EXCEPT ![next.group + 1] = v]
          /\ UNCHANGED <<servers, rules, serverGroups, floatingIPs, serverIPs>>
      BY <1>2 DEF CreateSecurityGroup, Say
    <2>2. /\ next' \in Counters /\ next'.server = next.server
          /\ next'.rule = next.rule /\ next'.ip = next.ip
      BY <2>1 DEF Book, Counters
    <2> QED BY <2>1, <2>2 DEF Book, ServersBooked, GroupsBooked, IPsBooked
  <1>3. CASE q.op = "DeleteSecurityGroup" /\ DeleteSecurityGroup(q.g, f, code)
    BY <1>3 DEF DeleteSecurityGroup, Say, Refuse, Book, ServersBooked, GroupsBooked, IPsBooked
  <1>4. CASE q.op = "CreateSecurityGroupRule"
               /\ CreateSecurityGroupRule(q.g, q.m, q.src, f, code)
    <2>1. /\ next' = [next EXCEPT !.rule = next.rule + 1]
          /\ groups' = groups \/ \E v : groups' = [groups EXCEPT ![q.g] = v]
          /\ rules' = rules \/ \E v : rules' = [rules EXCEPT ![next.rule + 1] = v]
          /\ UNCHANGED <<servers, serverGroups, floatingIPs, serverIPs>>
      BY <1>4 DEF CreateSecurityGroupRule, AddRule, Say
    <2>2. /\ next' \in Counters /\ next'.server = next.server
          /\ next'.rule = next.rule + 1 /\ next'.ip = next.ip /\ next.rule \in Nat
      BY <2>1 DEF Book, Counters
    <2>3. \A r \in RuleId : r > next'.rule => r > next.rule /\ r # next.rule + 1
      BY <2>2, NovaAssumption DEF RuleId
    <2>4. rules' = [r \in RuleId |-> rules'[r]]
          /\ \A r \in RuleId : r # next.rule + 1 => rules'[r] = rules[r]
      BY <2>1 DEF Book, GroupsBooked
    <2>5. GroupsBooked'
      BY <2>1, <2>3, <2>4 DEF Book, GroupsBooked
    <2> QED BY <2>1, <2>2, <2>5 DEF Book, ServersBooked, IPsBooked
  <1>5. CASE q.op = "DeleteSecurityGroupRule" /\ DeleteSecurityGroupRule(q.r, f, code)
    <2>1. /\ rules' = [rules EXCEPT ![q.r] = Null]
          /\ groups' = groups \/ \E g : groups' = Unfiled(g, q.r)
          /\ UNCHANGED <<servers, serverGroups, floatingIPs, serverIPs, next>>
      BY <1>5 DEF DeleteSecurityGroupRule, Say, Refuse
    <2> QED BY <2>1 DEF Unfiled, Book, ServersBooked, GroupsBooked, IPsBooked
  <1>6. CASE q.op = "AllocateFloatingIP" /\ AllocateFloatingIP(f, code)
    <2>1. /\ next' = [next EXCEPT !.ip = next.ip + 1]
          /\ floatingIPs' = floatingIPs
               \/ floatingIPs' = [floatingIPs EXCEPT ![next.ip + 1] = Free]
          /\ UNCHANGED <<servers, groups, rules, serverGroups, serverIPs>>
      BY <1>6 DEF AllocateFloatingIP
    <2>2. /\ next' \in Counters /\ next'.server = next.server
          /\ next'.rule = next.rule /\ next'.ip = next.ip + 1 /\ next.ip \in Nat
      BY <2>1 DEF Book, Counters
    <2>3. \A i \in IPId : i > next'.ip => i > next.ip /\ i # next.ip + 1
      BY <2>2, NovaAssumption DEF IPId
    <2>4. IPsBooked'
      BY <2>1, <2>3 DEF Book, IPsBooked
    <2> QED BY <2>1, <2>2, <2>4 DEF Book, ServersBooked, GroupsBooked
  <1>7. CASE q.op = "DeleteFloatingIP" /\ DeleteFloatingIP(q.i, f, code)
    BY <1>7 DEF DeleteFloatingIP, Say, Book, ServersBooked, GroupsBooked, IPsBooked
  <1> QED BY <1>2, <1>3, <1>4, <1>5, <1>6, <1>7 DEF HandleAccount

LEMMA HandlersKeepBook ==
  ASSUME Book, NEW k, WellAsked(k.req), NEW f, NEW code, Handle(k, f, code)
  PROVE  Book'
  <1>1. CASE HandleEmpty(k.req, code) \/ HandleRead(k.req, f, code)
    <2>1. UNCHANGED store
      BY <1>1 DEF HandleEmpty, HandleRead, Found, Say
    <2> QED BY <2>1, BookStands
  <1>2. CASE HandleServers(k.req, f, code)
    BY <1>2, ServersKeepBook
  <1>3. CASE HandleAccount(k.req, f, code)
    BY <1>3, AccountKeepsBook
  <1> QED BY <1>1, <1>2, <1>3 DEF Handle
-----------------------------------------------------------------------------
(* What a handler may do: nothing to the double's contents, unless the request
   creates something or is answered as its method expects. *)
Effect(op, code) ==
  \/ Content' = Content
  \/ op \in Creates \/ (op \notin Reading /\ code \in Expected(op))

(* Every handler that runs does what its request may do; one whose request has
   lost its body does nothing. *)
LEMMA HandlersAnswer ==
  ASSUME NEW k, NEW f, NEW code, Handle(k, f, code)
  PROVE  /\ Effect(k.req.op, code)
         /\ BodyRead(k) => Content' = Content
  <1>1. UNCHANGED store => Content' = Content
    BY DEF store, Content
  <1>2. CASE BodyRead(k)
    BY <1>1, <1>2 DEF Handle, HandleEmpty, Say, Effect
  <1>3. CASE ~BodyRead(k) /\ k.req.op \in Reading /\ HandleRead(k.req, f, code)
    <2>1. UNCHANGED store
      BY <1>3 DEF HandleRead, Found, Say
    <2> QED BY <1>1, <1>3, <2>1 DEF Effect
  <1>4. CASE ~BodyRead(k) /\ HandleServers(k.req, f, code)
    <2> DEFINE q == k.req
    <2>1. CASE q.op = "RunServer"
      BY <1>4, <2>1 DEF Effect
    <2>2. CASE q.op = "DeleteServer" /\ DeleteServer(q.s, f, code)
      BY <1>1, <1>4, <2>2 DEF DeleteServer, Say, Refuse, Effect, Expected
    <2>3. CASE q.op = "AddServerSecurityGroup" /\ AddServerSecurityGroup(q.s, q.n, f, code)
      BY <1>1, <1>4, <2>3 DEF AddServerSecurityGroup, Say, Refuse, Effect, Expected
    <2>4. CASE q.op = "RemoveServerSecurityGroup"
                 /\ RemoveServerSecurityGroup(q.s, q.n, f, code)
      BY <1>1, <1>4, <2>4 DEF RemoveServerSecurityGroup, Say, Refuse, Effect, Expected
    <2>5. CASE q.op = "AddServerFloatingIP" /\ AddServerFloatingIP(q.s, q.i, f, code)
      BY <1>1, <1>4, <2>5 DEF AddServerFloatingIP, Say, Refuse, Effect, Expected
    <2>6. CASE q.op = "RemoveServerFloatingIP" /\ RemoveServerFloatingIP(q.s, q.i, f, code)
      BY <1>1, <1>4, <2>6 DEF RemoveServerFloatingIP, Say, Refuse, Effect, Expected
    <2> QED BY <1>4, <2>1, <2>2, <2>3, <2>4, <2>5, <2>6 DEF HandleServers
  <1>5. CASE ~BodyRead(k) /\ HandleAccount(k.req, f, code)
    <2> DEFINE q == k.req
    <2>1. CASE q.op \in {"CreateSecurityGroup", "CreateSecurityGroupRule"}
      BY <1>5, <2>1 DEF Effect
    <2>2. CASE q.op = "DeleteSecurityGroup" /\ DeleteSecurityGroup(q.g, f, code)
      BY <1>1, <1>5, <2>2 DEF DeleteSecurityGroup, Say, Refuse, Effect, Expected
    <2>3. CASE q.op = "DeleteSecurityGroupRule" /\ DeleteSecurityGroupRule(q.r, f, code)
      BY <1>1, <1>5, <2>3 DEF DeleteSecurityGroupRule, Say, Refuse, Effect, Expected
    <2>4. CASE q.op = "AllocateFloatingIP" /\ AllocateFloatingIP(f, code)
      BY <1>5, <2>4 DEF AllocateFloatingIP, Content, Effect, Expected
    <2>5. CASE q.op = "DeleteFloatingIP" /\ DeleteFloatingIP(q.i, f, code)
      BY <1>1, <1>5, <2>5 DEF DeleteFloatingIP, Say, Effect, Expected
    <2> QED BY <1>5, <2>1, <2>2, <2>3, <2>4, <2>5 DEF HandleAccount
  <1> QED BY <1>2, <1>3, <1>4, <1>5 DEF Handle
(* The answers an error with a code is made of. *)
Telling == {"404", "403", "400 duplicate"}

(* A hook's error is an answer of no use to the caller: only the two kinds
   that addFloatingIP may fail with have a status of their own. *)
LEMMA HooksTellNothing ==
  ASSUME NEW f \in Fault
  PROVE  /\ ErrAnswer(f) \in {"413 retry", "413", "404", "500"}
         /\ f.at \in {"addServer", "addServerSecurityGroup", "server", "securityGroup",
                      "addSecurityGroup", "addSecurityGroupRule", "securityGroupRule"} =>
              ErrAnswer(f) \in {"413 retry", "500"}
  <1>1. ErrAnswer(f) \in {"413 retry", "413", "404", "500"}
    BY DEF ErrAnswer
  <1>2. CASE f = NoFault
    <2>1. f.err = f.at
      BY <1>2 DEF NoFault
    <2> QED BY <1>1, <2>1 DEF ErrAnswer
  <1>3. CASE f \in [at : Hooked, err : Errs]
    BY <1>3, NovaAssumption DEF ErrAnswer
  <1>4. CASE f \in [at : Hooked \cap {"addFloatingIP"}, err : {"full", "none"}]
    BY <1>1, <1>4
  <1> QED BY <1>2, <1>3, <1>4 DEF Fault

LEMMA EntryChanges ==
  ASSUME NEW F, NEW D, F = [x \in D |-> F[x]], NEW a \in D, NEW v, v # F[a]
  PROVE  [F EXCEPT ![a] = v] # F
  <1>1. [F EXCEPT ![a] = v][a] = v
    OBVIOUS
  <1> QED BY <1>1

(* What a request that changes something and is answered as expected has
   changed, one handler at a time. *)
LEMMA RunServerActs ==
  ASSUME Book, NEW names, NEW f \in Fault, NEW code, RunServer(names, f, code)
  PROVE  /\ code = "202" => servers' # servers
         /\ servers' # servers \/ serverGroups' # serverGroups =>
              code \in {"202", "500", "413 retry"}
  <1>1. PICK wanted : 
    \/ code = "400" /\ UNCHANGED <<servers, serverGroups>>
    \/ code = ErrAnswer(f) /\ UNCHANGED <<servers, serverGroups>>
    \/ \E ids \in [wanted -> GroupId] : AddServer(ids, f, code)
    BY DEF RunServer
  <1>2. next.server + 1 \notin servers
    <2>1. servers \subseteq Nat /\ next.server \in Nat
      BY NovaAssumption DEF Book, ServersBooked, ServerId, Counters
    <2> QED BY <2>1 DEF Book, ServersBooked
  <1>3. CASE UNCHANGED <<servers, serverGroups>> /\ (code = "400" \/ code = ErrAnswer(f))
    BY <1>3, HooksTellNothing
  <1>4. ASSUME NEW ids, AddServer(ids, f, code)
        PROVE  servers' # servers /\ code \in {"202", "500", "413 retry"}
    <2>1. servers' = servers \cup {next.server + 1}
      BY <1>4 DEF AddServer, NewServer
    <2>2. code \in {"202", "500", "413 retry"}
      <3>1. CASE Trips(f, {"addServerSecurityGroup", "server", "securityGroup"})
                   /\ code = ErrAnswer(f)
        BY <3>1, HooksTellNothing DEF Trips
      <3> QED BY <1>4, <3>1 DEF AddServer
    <2> QED BY <1>2, <2>1, <2>2
  <1> QED BY <1>1, <1>3, <1>4

LEMMA ServersAct ==
  ASSUME Book, NEW q, NEW f \in Fault, NEW code, HandleServers(q, f, code)
  PROVE  /\ code \in Expected(q.op) => Content' # Content
         /\ Content' # Content /\ code \notin Expected(q.op) => code \notin Telling
  <1>0. UNCHANGED store => Content' = Content
    BY DEF store, Content
  <1>e. ErrAnswer(f) \in {"413 retry", "413", "404", "500"}
    BY HooksTellNothing
  <1>1. CASE q.op = "RunServer" /\ RunServer(q.names, f, code)
    <2>1. UNCHANGED <<groups, rules, floatingIPs, serverIPs>>
      BY <1>1 DEF RunServer
    <2> QED BY <1>1, <2>1, RunServerActs DEF Content, Expected, Telling
  <1>2. CASE q.op = "DeleteServer" /\ DeleteServer(q.s, f, code)
    <2>1. \/ UNCHANGED store /\ (code = "404" \/ code = ErrAnswer(f))
          \/ code = "204" /\ q.s \in servers /\ servers' = servers \ {q.s}
      BY <1>2 DEF DeleteServer, Say, Refuse, HasServer
    <2> QED BY <1>0, <1>2, <1>e, <2>1 DEF Content, Expected
  <1>3. CASE q.op = "AddServerSecurityGroup" /\ AddServerSecurityGroup(q.s, q.n, f, code)
    <2>1. \/ UNCHANGED store /\ (code = "404" \/ code = ErrAnswer(f))
          \/ /\ code = "202" /\ q.s \in servers
             /\ \E g : g \notin serverGroups[q.s]
                       /\ serverGroups' = [serverGroups EXCEPT ![q.s] = @ \cup {g}]
      <3>1. ASSUME NEW g \in GroupNamed(q.n, f), HasServer(q.s, f), ~Belongs(q.s, g, f),
                   ~Trips(f, {"addServerSecurityGroup", "securityGroup"})
            PROVE  g \notin serverGroups[q.s]
        BY <3>1 DEF GroupNamed, Belongs, HasGroup, Trips
      <3>2. \/ Say("404", code) \/ Refuse(f, code)
            \/ \E g \in GroupNamed(q.n, f) :
                 /\ HasServer(q.s, f) /\ ~Belongs(q.s, g, f) /\ code = "202"
                 /\ ~Trips(f, {"addServerSecurityGroup", "securityGroup"})
                 /\ serverGroups' = [serverGroups EXCEPT ![q.s] = @ \cup {g}]
        BY <1>3 DEF AddServerSecurityGroup
      <3> QED BY <3>1, <3>2 DEF Say, Refuse, HasServer
    <2>2. code = "202" => serverGroups' # serverGroups
      <3> SUFFICES ASSUME code = "202" PROVE serverGroups' # serverGroups
        OBVIOUS
      <3>1. PICK g : /\ q.s \in servers /\ g \notin serverGroups[q.s]
                    /\ serverGroups' = [serverGroups EXCEPT ![q.s] = @ \cup {g}]
        BY <1>e, <2>1
      <3>2. serverGroups[q.s] \cup {g} # serverGroups[q.s] /\ q.s \in ServerId
        BY <3>1 DEF Book, ServersBooked
      <3> QED BY <3>1, <3>2, EntryChanges DEF Book, ServersBooked
    <2>3. Expected(q.op) = {"202"}
      BY <1>3 DEF Expected
    <2> QED BY <1>0, <1>e, <2>1, <2>2, <2>3 DEF Content
  <1>4. CASE q.op = "RemoveServerSecurityGroup" /\ RemoveServerSecurityGroup(q.s, q.n, f, code)
    <2>1. \/ UNCHANGED store /\ (code = "404" \/ code = ErrAnswer(f))
          \/ /\ code = "202" /\ q.s \in servers
             /\ \E g \in serverGroups[q.s] :
                   serverGroups' = [serverGroups EXCEPT ![q.s] = @ \ {g}]
      BY <1>4 DEF RemoveServerSecurityGroup, Belongs, HasServer, Say, Refuse
    <2>2. code = "202" => serverGroups' # serverGroups
      <3> SUFFICES ASSUME code = "202" PROVE serverGroups' # serverGroups
        OBVIOUS
      <3>1. PICK g : /\ q.s \in servers /\ g \in serverGroups[q.s]
                    /\ serverGroups' = [serverGroups EXCEPT ![q.s] = @ \ {g}]
        BY <1>e, <2>1
      <3>2. serverGroups[q.s] \ {g} # serverGroups[q.s] /\ q.s \in ServerId
        BY <3>1 DEF Book, ServersBooked
      <3> QED BY <3>1, <3>2, EntryChanges DEF Book, ServersBooked
    <2>3. Expected(q.op) = {"202"}
      BY <1>4 DEF Expected
    <2> QED BY <1>0, <1>e, <2>1, <2>2, <2>3 DEF Content
  <1>5. CASE q.op = "AddServerFloatingIP" /\ AddServerFloatingIP(q.s, q.i, f, code)
    <2>1. \/ UNCHANGED store /\ (code = "404" \/ code = ErrAnswer(f))
          \/ /\ code = "202" /\ q.s \in servers /\ q.i \notin serverIPs[q.s]
             /\ serverIPs' = [serverIPs EXCEPT ![q.s] = @ \cup {q.i}]
      BY <1>5 DEF AddServerFloatingIP, HasServerIP, HasServer, Say, Refuse
    <2>2. code = "202" => serverIPs' # serverIPs
      <3> SUFFICES ASSUME code = "202" PROVE serverIPs' # serverIPs
        OBVIOUS
      <3>1. /\ q.s \in servers /\ q.i \notin serverIPs[q.s]
            /\ serverIPs' = [serverIPs EXCEPT ![q.s] = @ \cup {q.i}]
        BY <1>e, <2>1
      <3>2. serverIPs[q.s] \cup {q.i} # serverIPs[q.s] /\ q.s \in ServerId
        BY <3>1 DEF Book, ServersBooked
      <3> QED BY <3>1, <3>2, EntryChanges DEF Book, ServersBooked
    <2>3. Expected(q.op) = {"202"}
      BY <1>5 DEF Expected
    <2> QED BY <1>0, <1>e, <2>1, <2>2, <2>3 DEF Content
  <1>6. CASE q.op = "RemoveServerFloatingIP" /\ RemoveServerFloatingIP(q.s, q.i, f, code)
    <2>1. \/ UNCHANGED store /\ (code = "404" \/ code = ErrAnswer(f))
          \/ /\ code = "202" /\ q.s \in servers /\ q.i \in serverIPs[q.s]
             /\ serverIPs' = [serverIPs EXCEPT ![q.s] = @ \ {q.i}]
      BY <1>6 DEF RemoveServerFloatingIP, HasServerIP, HasServer, Say, Refuse
    <2>2. code = "202" => serverIPs' # serverIPs
      <3> SUFFICES ASSUME code = "202" PROVE serverIPs' # serverIPs
        OBVIOUS
      <3>1. /\ q.s \in servers /\ q.i \in serverIPs[q.s]
            /\ serverIPs' = [serverIPs EXCEPT ![q.s] = @ \ {q.i}]
        BY <1>e, <2>1
      <3>2. serverIPs[q.s] \ {q.i} # serverIPs[q.s] /\ q.s \in ServerId
        BY <3>1 DEF Book, ServersBooked
      <3> QED BY <3>1, <3>2, EntryChanges DEF Book, ServersBooked
    <2>3. Expected(q.op) = {"202"}
      BY <1>6 DEF Expected
    <2> QED BY <1>0, <1>e, <2>1, <2>2, <2>3 DEF Content
  <1> QED BY <1>1, <1>2, <1>3, <1>4, <1>5, <1>6 DEF HandleServers

LEMMA AccountActs ==
  ASSUME Book, NEW q, WellAsked(q), NEW f \in Fault, NEW code, HandleAccount(q, f, code)
  PROVE  /\ code \in Expected(q.op) => Content' # Content
         /\ Content' # Content /\ code \notin Expected(q.op) => code \notin Telling
  <1>0. UNCHANGED store => Content' = Content
    BY DEF store, Content
  <1>e. ErrAnswer(f) \in {"413 retry", "413", "404", "500"}
    BY HooksTellNothing
  <1>1. CASE q.op = "CreateSecurityGroup" /\ CreateSecurityGroup(q.n, f, code)
    <2> DEFINE g == next.group + 1
               v == [name |-> q.n, rules |-> {}]
    <2>1. \/ UNCHANGED store /\ code = "400 duplicate"
          \/ UNCHANGED <<servers, groups, rules, serverGroups, floatingIPs, serverIPs>>
               /\ (code = ErrAnswer(f) \/ code = "500")
          \/ /\ g \in GroupId /\ groups' = [groups EXCEPT ![g] = v]
             /\ \/ f.at = "securityGroup" /\ code = ErrAnswer(f)
                \/ groups[g] = Null /\ code = "200"
      <3>1. next.group < MaxGroups => g \in GroupId
        BY NovaAssumption DEF Book, Counters, GroupId
      <3> QED BY <1>1, <3>1 DEF CreateSecurityGroup, HasGroup, Trips, Say
    <2>2. Expected(q.op) = {"200"}
      BY <1>1 DEF Expected
    <2>3. code = "200" => groups' # groups
      <3>1. v # Null
        BY <1>1, NovaAssumption DEF WellAsked
      <3> HIDE DEF g, v
      <3>2. code = "200" => /\ g \in GroupId /\ v # groups[g]
                            /\ groups' = [groups EXCEPT ![g] = v]
        BY <1>e, <2>1, <3>1
      <3> QED BY <3>2, EntryChanges DEF Book, GroupsBooked
    <2> QED BY <1>0, <1>e, <2>1, <2>2, <2>3, HooksTellNothing DEF Content, Telling
  <1>2. CASE q.op = "DeleteSecurityGroup" /\ DeleteSecurityGroup(q.g, f, code)
    <2>1. \/ UNCHANGED store /\ (code = "404" \/ code = ErrAnswer(f))
          \/ code = "202" /\ groups[q.g] # Null /\ groups' = [groups EXCEPT ![q.g] = Null]
      BY <1>2 DEF DeleteSecurityGroup, HasGroup, Say, Refuse
    <2>2. Expected(q.op) = {"202"} /\ q.g \in GroupId
      BY <1>2 DEF Expected, WellAsked
    <2>3. code = "202" => groups' # groups
      BY <1>e, <2>1, <2>2, EntryChanges DEF Book, GroupsBooked
    <2> QED BY <1>0, <1>e, <2>1, <2>2, <2>3 DEF Content
  <1>3. CASE q.op = "CreateSecurityGroupRule"
               /\ CreateSecurityGroupRule(q.g, q.m, q.src, f, code)
    <2> DEFINE r == next.rule + 1
               v == [parent |-> q.g, match |-> q.m]
    <2>1. \/ /\ UNCHANGED <<servers, groups, rules, serverGroups, floatingIPs, serverIPs>>
             /\ code = ErrAnswer(f) \/ code = "500" \/ code = "400 duplicate"
          \/ /\ r \in RuleId /\ rules' = [rules EXCEPT ![r] = v]
             /\ \/ f.at = "securityGroupRule" /\ code = ErrAnswer(f)
                \/ code = "200"
      <3>1. next.rule < MaxRules => r \in RuleId
        BY NovaAssumption DEF Book, Counters, RuleId
      <3> QED BY <1>3, <3>1 DEF CreateSecurityGroupRule, AddRule, Trips, Say, store
    <2>2. Expected(q.op) = {"200"} /\ v # Null
      BY <1>3, NovaAssumption DEF Expected, WellAsked
    <2>3. code = "200" => rules' # rules
      <3>1. r > next.rule
        BY DEF Book, Counters
      <3> HIDE DEF r, v
      <3>2. code = "200" => /\ r \in RuleId /\ v # rules[r]
                            /\ rules' = [rules EXCEPT ![r] = v]
        BY <1>e, <2>1, <2>2, <3>1 DEF Book, GroupsBooked
      <3> QED BY <3>2, EntryChanges DEF Book, GroupsBooked
    <2> QED BY <1>0, <1>e, <2>1, <2>2, <2>3, HooksTellNothing DEF Content, Telling
  <1>4. CASE q.op = "DeleteSecurityGroupRule" /\ DeleteSecurityGroupRule(q.r, f, code)
    <2>1. \/ UNCHANGED store /\ (code = "404" \/ code = ErrAnswer(f))
          \/ code = "202" /\ rules[q.r] # Null /\ rules' = [rules EXCEPT ![q.r] = Null]
      BY <1>4 DEF DeleteSecurityGroupRule, HasRule, Say, Refuse
    <2>2. Expected(q.op) = {"202"} /\ q.r \in RuleId
      BY <1>4 DEF Expected, WellAsked
    <2>3. code = "202" => rules' # rules
      BY <1>e, <2>1, <2>2, EntryChanges DEF Book, GroupsBooked
    <2> QED BY <1>0, <1>e, <2>1, <2>2, <2>3 DEF Content
  <1>5. CASE q.op = "AllocateFloatingIP" /\ AllocateFloatingIP(f, code)
    <2> DEFINE i == next.ip + 1
    <2>1. \/ /\ UNCHANGED <<servers, groups, rules, serverGroups, floatingIPs, serverIPs>>
             /\ code = ErrAnswer(f)
          \/ i \in IPId /\ code = "200" /\ floatingIPs' = [floatingIPs EXCEPT ![i] = Free]
      <3>1. next.ip < MaxIPs => i \in IPId
        BY NovaAssumption DEF Book, Counters, IPId
      <3> QED BY <1>5, <3>1 DEF AllocateFloatingIP
    <2>2. Expected(q.op) = {"200"}
      BY <1>5 DEF Expected
    <2>3. i \in IPId => floatingIPs[i] # Free
      BY NovaAssumption DEF Book, IPsBooked, Counters, Free
    <2> HIDE DEF i
    <2>4. code = "200" => floatingIPs' # floatingIPs
      BY <1>e, <2>1, <2>3, EntryChanges DEF Book, IPsBooked
    <2> QED BY <1>e, <2>1, <2>2, <2>4 DEF Content
  <1>6. CASE q.op = "DeleteFloatingIP" /\ DeleteFloatingIP(q.i, f, code)
    <2>1. \/ UNCHANGED store /\ code = "404"
          \/ /\ code = "202" /\ floatingIPs[q.i] # Null
             /\ floatingIPs' = [floatingIPs EXCEPT ![q.i] = Null]
      BY <1>6 DEF DeleteFloatingIP, HasIP, Say
    <2>2. Expected(q.op) = {"202"} /\ q.i \in IPId
      BY <1>6 DEF Expected, WellAsked
    <2>3. code = "202" => floatingIPs' # floatingIPs
      BY <2>1, <2>2, EntryChanges DEF Book, IPsBooked
    <2> QED BY <1>0, <2>1, <2>2, <2>3 DEF Content
  <1> QED BY <1>1, <1>2, <1>3, <1>4, <1>5, <1>6 DEF HandleAccount

(* An answer tells what was done: the one a method expects, that the request
   took effect, and the ones an error with a code is made of, that it did not. *)
LEMMA AnswersTell ==
  ASSUME Book, NEW k, WellAsked(k.req), NEW f \in Fault, NEW code, Handle(k, f, code)
  PROVE  /\ code \in Expected(k.req.op) /\ k.req.op \notin Reading =>
              ~BodyRead(k) /\ Content' # Content
         /\ k.req.op \in Creates /\ BodyRead(k) => code \notin Telling
         /\ Content' # Content /\ code \notin Expected(k.req.op) => code \notin Telling
  <1>1. CASE BodyRead(k)
    <2>1. code = IF k.req.op \in Creates \cup {"RenameServer"} THEN "400" ELSE "404"
      BY <1>1 DEF Handle, HandleEmpty, Say
    <2>2. Content' = Content
      BY <1>1, HandlersAnswer
    <2>3. k.req.op \in HasBody
      BY <1>1 DEF BodyRead
    <2>4. code \in Expected(k.req.op) => k.req.op \in Reading
      BY <2>1, <2>3 DEF Expected
    <2>5. k.req.op \in Creates => code \notin Telling
      BY <2>1 DEF Telling
    <2> QED BY <2>2, <2>4, <2>5
  <1>2. CASE ~BodyRead(k) /\ k.req.op \in Reading /\ HandleRead(k.req, f, code)
    <2>1. UNCHANGED store
      BY <1>2 DEF HandleRead, Found, Say
    <2>2. Content' = Content
      BY <2>1 DEF store, Content
    <2> QED BY <1>2, <2>2
  <1>3. CASE ~BodyRead(k) /\ (HandleServers(k.req, f, code) \/ HandleAccount(k.req, f, code))
    BY <1>3, ServersAct, AccountActs
  <1> QED BY <1>1, <1>2, <1>3 DEF Handle
-----------------------------------------------------------------------------
(* A call is a record; what it has done so far and may do yet. *)
IsCall(k) ==
  /\ k = [pc |-> k.pc, req |-> k.req, attempt |-> k.attempt, effects |-> k.effects,
          lost |-> k.lost, err |-> k.err]
  /\ k.attempt \in Nat /\ k.effects \in {0, 1}

(* A request that was carried out is sent again only when it creates something,
   and then without its body; a result tells what was done, as EffectTold says. *)
Accounted(k) ==
  /\ IsCall(k)
  /\ k.pc = "sent" => k.attempt >= 1 /\ WellAsked(k.req)
  /\ k.pc = "sent" /\ k.effects = 1 => k.req.op \in Creates /\ k.attempt > 1
  /\ k.pc = "ok" => (k.effects = 1 <=> k.req.op \notin Reading)
  /\ k.pc = "failed" /\ Code(k.err) # Unspecified => k.effects = 0
  /\ FailureUndone(k)

AllAccounted ==
  /\ call = [c \in Caller |-> call[c]]
  /\ \A c \in Caller : Accounted(call[c])

(* A request sent for the first time. *)
LEMMA BegunCall ==
  ASSUME NEW k, IsCall(k), k.effects = 0, NEW q, WellAsked(q)
  PROVE  Accounted([k EXCEPT !.pc = "sent", !.req = q, !.attempt = 1])
  <1>1. PICK p, q0, a, n, l, x :
          k = [pc |-> p, req |-> q0, attempt |-> a, effects |-> n, lost |-> l, err |-> x]
    BY DEF IsCall
  <1> DEFINE k1 == [k EXCEPT !.pc = "sent"]
             k2 == [k1 EXCEPT !.req = q]
             r  == [pc |-> "sent", req |-> q, attempt |-> 1, effects |-> n,
                    lost |-> l, err |-> x]
  <1>2. k1 = [pc |-> "sent", req |-> q0, attempt |-> a, effects |-> n, lost |-> l, err |-> x]
    BY <1>1
  <1>3. [k EXCEPT !.pc = "sent", !.req = q, !.attempt = 1] = [k2 EXCEPT !.attempt = 1]
    OBVIOUS
  <1> HIDE DEF k1
  <1>4. k2 = [pc |-> "sent", req |-> q, attempt |-> a, effects |-> n, lost |-> l, err |-> x]
    BY <1>2
  <1> HIDE DEF k2
  <1>5. [k2 EXCEPT !.attempt = 1] = r
    BY <1>4
  <1>6. n = 0
    BY <1>1
  <1>7. Accounted(r)
    BY <1>6 DEF Accounted, IsCall, FailureUndone
  <1> QED BY <1>3, <1>5, <1>7

(* A call that ends keeps its method and what it has done. *)
LEMMA EndedCall ==
  ASSUME NEW k, IsCall(k), NEW pc, NEW e
  PROVE  LET r == Done(k, pc, e)
         IN  /\ IsCall(r) /\ r.effects = k.effects /\ r.lost = k.lost
             /\ r.pc = pc /\ r.req.op = k.req.op /\ r.err = e
  <1> DEFINE r == [pc |-> pc, req |-> [op |-> k.req.op], attempt |-> k.attempt,
                   effects |-> k.effects, lost |-> k.lost, err |-> e]
  <1>1. Done(k, pc, e) = r
    <2>1. PICK p, q, a, n, l, x :
            k = [pc |-> p, req |-> q, attempt |-> a, effects |-> n, lost |-> l, err |-> x]
      BY DEF IsCall
    <2> DEFINE k1 == [k EXCEPT !.pc = pc]
               k2 == [k1 EXCEPT !.err = e]
    <2>2. k1 = [pc |-> pc, req |-> q, attempt |-> a, effects |-> n, lost |-> l, err |-> x]
      BY <2>1
    <2>3. Done(k, pc, e) = [k2 EXCEPT !.req = [op |-> q.op]]
      BY <2>1 DEF Done
    <2> HIDE DEF k1
    <2>4. k2 = [pc |-> pc, req |-> q, attempt |-> a, effects |-> n, lost |-> l, err |-> e]
      BY <2>2
    <2> HIDE DEF k2
    <2> QED BY <2>1, <2>3, <2>4
  <1>2. /\ IsCall(r) /\ r.effects = k.effects /\ r.lost = k.lost
        /\ r.pc = pc /\ r.req.op = k.req.op /\ r.err = e
    BY DEF IsCall
  <1> QED BY <1>1, <1>2

(* After an answer, or without one: what a refusal makes of a call. *)
LEMMA RefusedCall ==
  ASSUME NEW k, IsCall(k), k.pc = "sent", NEW e
  PROVE  LET r == Refused(k, e)
         IN  /\ IsCall(r) /\ r.effects = k.effects /\ r.lost = k.lost
             /\ \/ /\ r.pc = "failed" /\ r.req.op = k.req.op
                   /\ k.req.op \in Reading \/ r.err = Newf(e)
                \/ /\ r.pc = "sent" /\ r.attempt >= 1
                   /\ r.req.op \in Reading /\ k.req.op \in Reading
  <1>1. CASE k.req.op = "GetServerSecurityGroups" /\ IsNotFound(e)
    <2> DEFINE r == [pc |-> "sent", req |-> [op |-> "Fallback", s |-> k.req.s],
                     attempt |-> 1, effects |-> k.effects, lost |-> k.lost, err |-> k.err]
    <2>1. Refused(k, e) = r
      BY <1>1 DEF Refused, IsCall
    <2>2. IsCall(r) /\ r.req.op = "Fallback"
      BY DEF IsCall
    <2> QED BY <1>1, <2>1, <2>2
  <1>2. CASE ~(k.req.op = "GetServerSecurityGroups" /\ IsNotFound(e))
    <2>1. PICK d : /\ Refused(k, e) = Done(k, "failed", d)
                   /\ k.req.op \in Reading \/ d = Newf(e)
      <3>1. CASE k.req.op = "Fallback"
        BY <1>2, <3>1 DEF Refused, Fail
      <3>2. CASE k.req.op # "Fallback"
        BY <1>2, <3>2 DEF Refused, Fail
      <3> QED BY <3>1, <3>2
    <2> QED BY <2>1, EndedCall
  <1> QED BY <1>1, <1>2

(* The errors without a code. *)
LEMMA VagueErrors ==
  Code(Newf(<<>>)) = Unspecified /\ Code(Newf(Newf(<<>>))) = Unspecified
  <1> DEFINE Vague == Seq({Unspecified})
  <1>1. ASSUME NEW e \in Vague PROVE Newf(e) \in Vague
    BY ConcatProperties DEF Newf
  <1>2. ASSUME NEW e \in Vague PROVE Code(e) = Unspecified
    <2>1. \A k \in DOMAIN e : e[k] = Unspecified
      OBVIOUS
    <2> QED BY <2>1 DEF Code
  <1>3. <<>> \in Vague
    OBVIOUS
  <1> QED BY <1>1, <1>2, <1>3

LEMMA ReactedCall ==
  ASSUME NEW k, IsCall(k), k.pc = "sent", NEW code
  PROVE  LET r == React(k, code)
         IN  /\ IsCall(r) /\ r.effects = k.effects
             /\ \/ r.pc = "ok" /\ r.req.op = k.req.op /\ code \in Expected(k.req.op)
                \/ /\ r.pc = "failed" /\ r.req.op = k.req.op
                   /\ \/ k.req.op \in Reading
                      \/ /\ code \notin Expected(k.req.op)
                         /\ Code(r.err) = Unspecified \/ code \in Telling
                \/ /\ r.pc = "sent" /\ r.attempt >= 1
                   /\ r.req.op \in Reading /\ k.req.op \in Reading
                \/ /\ r.pc = "sent" /\ r.req = k.req /\ r.attempt = k.attempt + 1
                   /\ code \notin Expected(k.req.op)
  <1>1. CASE code = "413 retry"
    <2>1. code \notin Expected(k.req.op)
      BY <1>1 DEF Expected
    <2>2. React(k, code) = Retry(k)
      BY <1>1, <2>1 DEF React
    <2>3. CASE k.attempt < MaxSendAttempts
      <3> DEFINE r == [pc |-> "sent", req |-> k.req, attempt |-> k.attempt + 1,
                       effects |-> k.effects, lost |-> k.lost, err |-> k.err]
      <3>1. Retry(k) = r
        BY <2>3 DEF Retry, IsCall
      <3>2. IsCall(r)
        BY DEF IsCall
      <3> QED BY <2>1, <2>2, <3>1, <3>2
    <2>4. CASE ~(k.attempt < MaxSendAttempts)
      <3>1. Retry(k) = Done(k, "failed", Newf(Newf(<<>>)))
        BY <2>4 DEF Retry, Fail
      <3> QED BY <2>1, <2>2, <3>1, EndedCall, VagueErrors
    <2> QED BY <2>3, <2>4
  <1>2. CASE code # "413 retry" /\ code \in Expected(k.req.op)
    <2>1. React(k, code) = Accepted(k)
      BY <1>2 DEF React
    <2>2. \/ Accepted(k) = Done(k, "ok", NoError)
          \/ k.req.op \in Reading /\ Accepted(k) = Done(k, "failed", <<"NotFound">>)
      BY DEF Accepted, Fail, Ok
    <2>3. CASE Accepted(k) = Done(k, "ok", NoError)
      <3>1. LET r == Done(k, "ok", NoError)
            IN  IsCall(r) /\ r.effects = k.effects /\ r.pc = "ok" /\ r.req.op = k.req.op
        BY EndedCall
      <3> QED BY <1>2, <2>1, <2>3, <3>1
    <2>4. CASE k.req.op \in Reading /\ Accepted(k) = Done(k, "failed", <<"NotFound">>)
      BY <2>1, <2>4, EndedCall
    <2> QED BY <2>2, <2>3, <2>4
  <1>3. CASE code # "413 retry" /\ code \notin Expected(k.req.op)
    <2> DEFINE e == HandleError(code)
               r == Refused(k, e)
    <2>1. React(k, code) = r
      BY <1>3 DEF React
    <2>2. /\ IsCall(r) /\ r.effects = k.effects
          /\ \/ /\ r.pc = "failed" /\ r.req.op = k.req.op
                /\ k.req.op \in Reading \/ r.err = Newf(e)
             \/ /\ r.pc = "sent" /\ r.attempt >= 1
                /\ r.req.op \in Reading /\ k.req.op \in Reading
      BY RefusedCall
    <2>3. Code(Newf(e)) = Unspecified \/ code \in Telling
      <3>1. code \notin Telling => e = <<>>
        BY DEF HandleError, Telling
      <3> QED BY <3>1, VagueErrors
    <2> HIDE DEF r
    <2> QED BY <1>3, <2>1, <2>2, <2>3
  <1> QED BY <1>1, <1>2, <1>3

(* A handler run for a call in progress, and what is counted for it. *)
LEMMA CountedCall ==
  ASSUME NEW k, Accounted(k), k.pc = "sent", NEW f, NEW code, Handle(k, f, code)
  PROVE  LET n == Counted(k)
         IN  /\ IsCall(n) /\ n.pc = "sent" /\ n.req = k.req /\ n.attempt = k.attempt
             /\ n.effects = 1 <=> k.effects = 1 \/ Content' # Content
             /\ k.effects = 1 => BodyRead(k) /\ k.req.op \in Creates
             /\ Content' # Content => n.effects # k.effects
             /\ n.effects = 1 => /\ k.req.op \notin Reading
                                 /\ k.req.op \in Creates \/ code \in Expected(k.req.op)
  <1>0. k.effects = 1 => BodyRead(k) /\ k.req.op \in Creates
    BY DEF Accounted, BodyRead
  <1>1. k.effects = 1 => Content' = Content
    BY <1>0, HandlersAnswer
  <1>2. Effect(k.req.op, code)
    BY HandlersAnswer
  <1>3. Content' # Content => /\ k.effects = 0 /\ k.req.op \notin Reading
                              /\ k.req.op \in Creates \/ code \in Expected(k.req.op)
    BY <1>1, <1>2 DEF Effect, Accounted, IsCall
  <1>4. IsCall(k)
    BY DEF Accounted
  <1>5. CASE Content' = Content
    <2>1. Counted(k) = k
      BY <1>4, <1>5 DEF Counted, IsCall
    <2> QED BY <1>0, <1>4, <1>5, <2>1
  <1>6. CASE Content' # Content
    <2>1. Counted(k) = [k EXCEPT !.effects = 1]
      BY <1>3, <1>4, <1>6 DEF Counted, IsCall
    <2> HIDE DEF Counted, Content
    <2> QED BY <1>0, <1>3, <1>4, <1>6, <2>1 DEF IsCall
  <1> QED BY <1>5, <1>6

LEMMA IdleIsAccounted == Accounted(NoCall)
  BY DEF NoCall, Accounted, IsCall, FailureUndone

(* The first sending has an attempt number of its own: a later one is a retry. *)
LEMMA StepAccounts ==
  ASSUME Book, AllAccounted, [Next]_vars
  PROVE  AllAccounted'
  <1>1. CASE UNCHANGED vars
    BY <1>1 DEF vars, AllAccounted
  <1>2. ASSUME NEW c \in Caller, NEW k, Accounted(k), call' = [call EXCEPT ![c] = k]
        PROVE  AllAccounted'
    <2>1. call' = [d \in Caller |-> IF d = c THEN k ELSE call[d]]
      BY <1>2 DEF AllAccounted
    <2>2. \A d \in Caller : Accounted(call'[d])
      BY <1>2, <2>1 DEF AllAccounted
    <2> QED BY <2>1, <2>2 DEF AllAccounted, Accounted, IsCall
  <1>3. ASSUME NEW c \in Caller, Begin(c) PROVE AllAccounted'
    <2>1. PICK q \in Request : call' = [call EXCEPT ![c] =
                       [NoCall EXCEPT !.pc = "sent", !.req = q, !.attempt = 1]]
      BY <1>3 DEF Begin
    <2>2. IsCall(NoCall) /\ NoCall.effects = 0
      BY DEF NoCall, IsCall
    <2>3. Accounted([NoCall EXCEPT !.pc = "sent", !.req = q, !.attempt = 1])
      BY <2>2, BegunCall, RequestsAreWellAsked
    <2> QED BY <1>2, <2>1, <2>3
  <1>4. ASSUME NEW c \in Caller, Return(c) PROVE AllAccounted'
    <2>1. Accounted(NoCall)
      BY IdleIsAccounted
    <2> QED BY <1>2, <1>4, <2>1 DEF Return
  <1>6. ASSUME NEW k, IsCall(k), k.pc = "sent", k.effects = 1 => k.req.op \notin Reading
        PROVE  Accounted(Lost(k))
    <2> DEFINE r == Refused(k, Newf(<<>>))
    <2>1. /\ IsCall(r) /\ r.effects = k.effects
          /\ \/ /\ r.pc = "failed" /\ r.req.op = k.req.op
                /\ k.req.op \in Reading \/ r.err = Newf(Newf(<<>>))
             \/ /\ r.pc = "sent" /\ r.attempt >= 1
                /\ r.req.op \in Reading /\ k.req.op \in Reading
      BY <1>6, RefusedCall
    <2>2. Lost(k) = [r EXCEPT !.lost = TRUE]
      BY DEF Lost
    <2> HIDE DEF r
    <2> QED BY <1>6, <2>1, <2>2, VagueErrors DEF Accounted, IsCall, FailureUndone, WellAsked
  <1>7. ASSUME NEW c \in Caller, LoseRequest(c) PROVE AllAccounted'
    <2>1. Accounted(call[c]) /\ call[c].pc = "sent"
      BY <1>7 DEF LoseRequest, AllAccounted
    <2>2. Accounted(Lost(call[c]))
      BY <1>6, <2>1 DEF Accounted
    <2> QED BY <1>2, <1>7, <2>2 DEF LoseRequest
  <1>8. ASSUME NEW c \in Caller, LoseAnswer(c) PROVE AllAccounted'
    <2>1. Accounted(call[c]) /\ call[c].pc = "sent"
      BY <1>8 DEF LoseAnswer, AllAccounted
    <2>2. PICK f \in Fault, code \in Answer :
            /\ Handle(call[c], f, code)
            /\ call' = [call EXCEPT ![c] = Lost(Counted(call[c]))]
      BY <1>8 DEF LoseAnswer
    <2>3. Accounted(Lost(Counted(call[c])))
      BY <1>6, <2>1, <2>2, CountedCall
    <2> QED BY <1>2, <2>2, <2>3
  <1>9. ASSUME NEW c \in Caller, Serve(c) PROVE AllAccounted'
    <2>1. Accounted(call[c]) /\ call[c].pc = "sent"
      BY <1>9 DEF Serve, AllAccounted
    <2>2. PICK f \in Fault, code \in Answer :
            /\ Handle(call[c], f, code)
            /\ call' = [call EXCEPT ![c] = React(Counted(call[c]), code)]
      BY <1>9 DEF Serve
    <2> DEFINE n == Counted(call[c])
               r == React(n, code)
    <2>3. /\ IsCall(n) /\ n.pc = "sent" /\ n.req = call[c].req /\ n.attempt = call[c].attempt
          /\ n.effects = 1 <=> call[c].effects = 1 \/ Content' # Content
          /\ call[c].effects = 1 => BodyRead(call[c]) /\ n.req.op \in Creates
          /\ n.effects = 1 => /\ n.req.op \notin Reading
                              /\ n.req.op \in Creates \/ code \in Expected(n.req.op)
      BY <2>1, <2>2, CountedCall
    <2>4. n.attempt >= 1 /\ WellAsked(n.req)
      BY <2>1, <2>3 DEF Accounted
    <2>5. /\ code \in Expected(n.req.op) /\ n.req.op \notin Reading =>
               ~BodyRead(call[c]) /\ Content' # Content
          /\ n.req.op \in Creates /\ BodyRead(call[c]) => code \notin Telling
          /\ Content' # Content /\ code \notin Expected(n.req.op) => code \notin Telling
      BY <2>2, <2>3, <2>4, AnswersTell
    <2>6. /\ IsCall(r) /\ r.effects = n.effects
          /\ \/ r.pc = "ok" /\ r.req.op = n.req.op /\ code \in Expected(n.req.op)
             \/ /\ r.pc = "failed" /\ r.req.op = n.req.op
                /\ \/ n.req.op \in Reading
                   \/ /\ code \notin Expected(n.req.op)
                      /\ Code(r.err) = Unspecified \/ code \in Telling
             \/ /\ r.pc = "sent" /\ r.attempt >= 1
                /\ r.req.op \in Reading /\ n.req.op \in Reading
             \/ /\ r.pc = "sent" /\ r.req = n.req /\ r.attempt = n.attempt + 1
                /\ code \notin Expected(n.req.op)
      <3> HIDE DEF n
      <3> QED BY <2>3, ReactedCall
    <2>7. Accounted(r)
      <3> HIDE DEF n, r
      <3>1. CASE r.pc = "ok"
        BY <2>3, <2>5, <2>6, <3>1 DEF Accounted, FailureUndone, IsCall
      <3>2. CASE r.pc = "failed"
        <4>1. /\ n.req.op \in Reading => n.effects = 0
              /\ n.effects = 1 => code \notin Telling \/ n.req.op \in Reading
              /\ n.effects \in {0, 1}
          BY <2>3, <2>5, <2>6, <3>2 DEF IsCall
        <4>2. Code(r.err) # Unspecified => r.effects = 0
          BY <2>3, <2>5, <2>6, <3>2, <4>1
        <4>3. FailureUndone(r)
          BY <2>3, <2>6, <3>2, <4>1 DEF FailureUndone
        <4> QED BY <2>6, <3>2, <4>2, <4>3 DEF Accounted
      <3>3. CASE r.pc = "sent" /\ r.req.op \in Reading /\ n.req.op \in Reading
        BY <2>3, <2>4, <2>6, <3>3 DEF Accounted, FailureUndone, IsCall, WellAsked
      <3>4. CASE r.pc = "sent" /\ r.req = n.req /\ n.req.op \notin Reading
        BY <2>3, <2>4, <2>6, <3>4 DEF Accounted, FailureUndone, IsCall
      <3> QED BY <2>6, <3>1, <3>2, <3>3, <3>4
    <2> QED BY <1>2, <2>2, <2>7
  <1> QED BY <1>1, <1>3, <1>4, <1>7, <1>8, <1>9 DEF Next

LEMMA BookInit == Init => Book
  <1> SUFFICES ASSUME Init PROVE Book
    OBVIOUS
  <1>1. next \in Counters
    BY DEF Init, NovaInit, Counters
  <1> QED BY <1>1 DEF Init, NovaInit, Book, ServersBooked, GroupsBooked, IPsBooked

LEMMA StepKeepsBook ==
  ASSUME Book, AllAccounted, [Next]_vars
  PROVE  Book'
  <1>1. ASSUME NEW c \in Caller, Serve(c) \/ LoseAnswer(c) PROVE Book'
    <2>1. PICK f \in Fault, code \in Answer : Handle(call[c], f, code)
      BY <1>1 DEF Serve, LoseAnswer
    <2>2. WellAsked(call[c].req)
      BY <1>1 DEF Serve, LoseAnswer, AllAccounted, Accounted
    <2> QED BY <2>1, <2>2, HandlersKeepBook
  <1>2. ASSUME NEW c \in Caller, Begin(c) \/ LoseRequest(c) \/ Return(c) PROVE Book'
    BY <1>2, BookStands DEF Begin, LoseRequest, Return
  <1>3. CASE UNCHANGED vars
    BY <1>3, BookStands DEF vars
  <1> QED BY <1>1, <1>2, <1>3 DEF Next

LEMMA InBooks == Spec => [](Book /\ AllAccounted)
  <1>1. Init => Book /\ AllAccounted
    BY BookInit, IdleIsAccounted DEF Init, AllAccounted
  <1>2. Book /\ AllAccounted /\ [Next]_vars => (Book /\ AllAccounted)'
    BY StepAccounts, StepKeepsBook
  <1> QED BY <1>1, <1>2, PTL DEF Spec

(* A request is carried out at most once, whichever answers are lost and however
   often it is sent: sendRateLimitedRequest never carries a creation out twice,
   if only because what it sends again has no body. *)
THEOREM RequestsActOnce == Spec => []AtMostOnce
  <1>1. AllAccounted => AtMostOnce
    BY DEF AllAccounted, Accounted, IsCall, AtMostOnce
  <1> QED BY <1>1, InBooks, PTL

(* A method that fails has changed nothing, unless it creates something or its
   answer was lost. *)
THEOREM FailuresAreUndone == Spec => [](\A c \in Caller : FailureUndone(call[c]))
  <1>1. AllAccounted => \A c \in Caller : FailureUndone(call[c])
    BY DEF AllAccounted, Accounted
  <1> QED BY <1>1, InBooks, PTL

(* What a caller may conclude from the result of a method: success means that the
   double was changed once, unless the method only reads; an error with a code,
   that nothing was changed; and any other failure leaves at most something
   created, unless the answer was lost. *)
THEOREM ResultsTellEffects == Spec => []EffectTold
  <1>1. AllAccounted => EffectTold
    BY DEF AllAccounted, Accounted, EffectTold
  <1> QED BY <1>1, InBooks, PTL
-----------------------------------------------------------------------------
(* The double's own bookkeeping of addresses. *)
Addresses ==
  /\ servers \subseteq ServerId
  /\ next \in [server : Nat, group : Nat, rule : Nat, ip : Nat]
  /\ floatingIPs = [i \in IPId |-> floatingIPs[i]]
  /\ serverIPs = [s \in ServerId |-> serverIPs[s]]
  /\ PointsBack

LEMMA AddressesKept ==
  ASSUME Addresses, UNCHANGED <<floatingIPs, serverIPs>>,
         servers' \subseteq ServerId, next' \in [server : Nat, group : Nat, rule : Nat, ip : Nat]
  PROVE  Addresses'
  BY DEF Addresses, PointsBack

(* One lemma for the handlers that leave the addresses alone, and one for each
   of those that do not. *)
LEMMA ElsewhereKeepsAddresses ==
  ASSUME Addresses, NEW q, NEW f, NEW code,
         \/ RunServer(q.names, f, code) \/ DeleteServer(q.s, f, code)
         \/ AddServerSecurityGroup(q.s, q.n, f, code)
         \/ RemoveServerSecurityGroup(q.s, q.n, f, code)
         \/ CreateSecurityGroup(q.n, f, code) \/ DeleteSecurityGroup(q.g, f, code)
         \/ CreateSecurityGroupRule(q.g, q.m, q.src, f, code)
         \/ DeleteSecurityGroupRule(q.r, f, code)
         \/ UNCHANGED store
  PROVE  Addresses'
  <1> USE NovaAssumption
  <1>1. CASE UNCHANGED store
    BY <1>1, AddressesKept DEF store, Addresses
  <1>2. CASE RunServer(q.names, f, code)
    <2>1. /\ servers' \subseteq servers \cup {next.server + 1}
          /\ next.server < MaxServers /\ next' = [next EXCEPT !.server = @ + 1]
          /\ UNCHANGED <<floatingIPs, serverIPs>>
      BY <1>2 DEF RunServer, AddServer, NewServer
    <2>2. next.server + 1 \in ServerId
      BY <2>1 DEF Addresses, ServerId
    <2>3. next' \in [server : Nat, group : Nat, rule : Nat, ip : Nat]
      BY <2>1 DEF Addresses
    <2> QED BY <2>1, <2>2, <2>3, AddressesKept DEF Addresses
  <1>3. CASE DeleteServer(q.s, f, code)
    BY <1>1, <1>3, AddressesKept DEF DeleteServer, Say, Refuse, Addresses
  <1>4. CASE AddServerSecurityGroup(q.s, q.n, f, code)
    BY <1>1, <1>4, AddressesKept DEF AddServerSecurityGroup, Say, Refuse, Addresses
  <1>5. CASE RemoveServerSecurityGroup(q.s, q.n, f, code)
    BY <1>1, <1>5, AddressesKept DEF RemoveServerSecurityGroup, Say, Refuse, Addresses
  <1>6. CASE CreateSecurityGroup(q.n, f, code)
    <2>1. \/ UNCHANGED store
          \/ next' = [next EXCEPT !.group = next.group + 1]
             /\ UNCHANGED <<servers, floatingIPs, serverIPs>>
      BY <1>6 DEF CreateSecurityGroup, Say
    <2> QED BY <1>1, <2>1, AddressesKept DEF Addresses
  <1>7. CASE DeleteSecurityGroup(q.g, f, code)
    BY <1>1, <1>7, AddressesKept DEF DeleteSecurityGroup, Say, Refuse, Addresses
  <1>8. CASE CreateSecurityGroupRule(q.g, q.m, q.src, f, code)
    <2>1. \/ UNCHANGED store
          \/ next' = [next EXCEPT !.rule = next.rule + 1]
             /\ UNCHANGED <<servers, floatingIPs, serverIPs>>
      BY <1>8 DEF CreateSecurityGroupRule, Say
    <2> QED BY <1>1, <2>1, AddressesKept DEF Addresses
  <1>9. CASE DeleteSecurityGroupRule(q.r, f, code)
    BY <1>1, <1>9, AddressesKept DEF DeleteSecurityGroupRule, Say, Refuse, Addresses
  <1> QED BY <1>1, <1>2, <1>3, <1>4, <1>5, <1>6, <1>7, <1>8, <1>9

LEMMA AddKeepsAddresses ==
  ASSUME Addresses, NEW s, NEW i, NEW f, NEW code, AddServerFloatingIP(s, i, f, code)
  PROVE  Addresses'
  <1>1. CASE UNCHANGED store
    BY <1>1, AddressesKept DEF store, Addresses
  <1>2. CASE ~UNCHANGED store
    <2>1. /\ s \in ServerId
          /\ floatingIPs' = [floatingIPs EXCEPT ![i] = s]
          /\ serverIPs' = [serverIPs EXCEPT ![s] = @ \cup {i}]
          /\ UNCHANGED <<servers, next>>
      BY <1>2 DEF AddServerFloatingIP, HasServer, Say, Refuse, Addresses
    <2>2. \A t \in ServerId : serverIPs[t] \subseteq serverIPs'[t]
      BY <2>1 DEF Addresses
    <2>3. i \in serverIPs'[s]
      BY <2>1 DEF Addresses
    <2>4. \A j \in IPId : floatingIPs'[j] = IF j = i THEN s ELSE floatingIPs[j]
      BY <2>1 DEF Addresses
    <2>5. PointsBack'
      BY <2>1, <2>2, <2>3, <2>4 DEF Addresses, PointsBack
    <2>6. /\ floatingIPs' = [j \in IPId |-> floatingIPs'[j]]
          /\ serverIPs' = [t \in ServerId |-> serverIPs'[t]]
      BY <2>1 DEF Addresses
    <2> QED BY <2>1, <2>5, <2>6 DEF Addresses
  <1> QED BY <1>1, <1>2

LEMMA RemoveKeepsAddresses ==
  ASSUME Addresses, NEW s, NEW i, NEW f, NEW code, RemoveServerFloatingIP(s, i, f, code)
  PROVE  Addresses'
  <1>1. CASE UNCHANGED store
    BY <1>1, AddressesKept DEF store, Addresses
  <1>2. CASE ~UNCHANGED store
    <2>1. /\ floatingIPs' = [floatingIPs EXCEPT ![i] = Free]
          /\ serverIPs' = [serverIPs EXCEPT ![s] = @ \ {i}]
          /\ UNCHANGED <<servers, next>>
      BY <1>2 DEF RemoveServerFloatingIP, Unlinked, Say, Refuse
    <2>2. \A t \in ServerId : serverIPs[t] \ {i} \subseteq serverIPs'[t]
      BY <2>1 DEF Addresses
    <2>3. \A j \in IPId : floatingIPs'[j] = IF j = i THEN Free ELSE floatingIPs[j]
      BY <2>1 DEF Addresses
    <2>4. Free \notin ServerId
      BY NovaAssumption DEF Free, ServerId
    <2>5. PointsBack'
      BY <2>2, <2>3, <2>4 DEF Addresses, PointsBack
    <2>6. /\ floatingIPs' = [j \in IPId |-> floatingIPs'[j]]
          /\ serverIPs' = [t \in ServerId |-> serverIPs'[t]]
      BY <2>1 DEF Addresses
    <2> QED BY <2>1, <2>5, <2>6 DEF Addresses
  <1> QED BY <1>1, <1>2

(* Allocating and deleting an address leave it without a server. *)
LEMMA BlankKeepsAddresses ==
  ASSUME Addresses, NEW i, NEW v, v \notin ServerId,
         floatingIPs' = [floatingIPs EXCEPT ![i] = v],
         UNCHANGED <<servers, serverIPs>>,
         next' \in [server : Nat, group : Nat, rule : Nat, ip : Nat]
  PROVE  Addresses'
  <1>1. \A j \in IPId : floatingIPs'[j] = IF j = i THEN v ELSE floatingIPs[j]
    BY DEF Addresses
  <1>2. PointsBack'
    BY <1>1 DEF Addresses, PointsBack
  <1>3. floatingIPs' = [j \in IPId |-> floatingIPs'[j]]
    BY DEF Addresses
  <1> QED BY <1>2, <1>3 DEF Addresses

LEMMA PoolKeepsAddresses ==
  ASSUME Addresses, NEW i, NEW f, NEW code,
         AllocateFloatingIP(f, code) \/ DeleteFloatingIP(i, f, code)
  PROVE  Addresses'
  <1>1. Free \notin ServerId /\ Null \notin ServerId
    BY NovaAssumption DEF Free, ServerId
  <1>2. CASE AllocateFloatingIP(f, code)
    <2>1. next' \in [server : Nat, group : Nat, rule : Nat, ip : Nat]
      BY <1>2 DEF AllocateFloatingIP, Addresses
    <2>2. CASE UNCHANGED floatingIPs
      BY <1>2, <2>1, <2>2, AddressesKept DEF AllocateFloatingIP, Addresses
    <2>3. CASE floatingIPs' = [floatingIPs EXCEPT ![next.ip + 1] = Free]
      <3>1. UNCHANGED <<servers, serverIPs>>
        BY <1>2 DEF AllocateFloatingIP
      <3> QED BY <1>1, <2>1, <2>3, <3>1, BlankKeepsAddresses
    <2> QED BY <1>2, <2>2, <2>3 DEF AllocateFloatingIP
  <1>3. CASE DeleteFloatingIP(i, f, code)
    <2>1. CASE UNCHANGED store
      BY <2>1, AddressesKept DEF store, Addresses
    <2>2. CASE ~UNCHANGED store
      <3>1. /\ floatingIPs' = [floatingIPs EXCEPT ![i] = Null]
            /\ UNCHANGED <<servers, serverIPs, next>>
        BY <1>3, <2>2 DEF DeleteFloatingIP, Say
      <3> QED BY <1>1, <3>1, BlankKeepsAddresses DEF Addresses
    <2> QED BY <2>1, <2>2
  <1> QED BY <1>2, <1>3

LEMMA HandlersKeepAddresses ==
  ASSUME Addresses, NEW k, NEW f, NEW code, Handle(k, f, code)
  PROVE  Addresses'
  <1>1. CASE UNCHANGED store
    BY <1>1, AddressesKept DEF store, Addresses
  <1>2. CASE HandleEmpty(k.req, code) \/ HandleRead(k.req, f, code)
    <2>1. UNCHANGED store
      BY <1>2 DEF HandleEmpty, HandleRead, Found, Say
    <2> QED BY <1>1, <2>1
  <1>3. CASE HandleServers(k.req, f, code)
    BY <1>3, ElsewhereKeepsAddresses, AddKeepsAddresses, RemoveKeepsAddresses
    DEF HandleServers
  <1>4. CASE HandleAccount(k.req, f, code)
    BY <1>4, ElsewhereKeepsAddresses, PoolKeepsAddresses DEF HandleAccount
  <1> QED BY <1>2, <1>3, <1>4 DEF Handle

(* An address that points at a server is always in that server's list, whatever
   the hooks refuse and however servers and addresses come and go: the two maps
   of the double, changed by two assignments, do not come apart in this
   direction. *)
THEOREM AddressesPointBack == Spec => []PointsBack
  <1>1. Init => Addresses
    <2> SUFFICES ASSUME Init PROVE Addresses
      OBVIOUS
    <2>1. Null \notin ServerId
      BY NovaAssumption DEF ServerId
    <2> QED BY <2>1 DEF Init, NovaInit, Addresses, PointsBack
  <1>2. Addresses /\ [Next]_vars => Addresses'
    <2> SUFFICES ASSUME Addresses, [Next]_vars PROVE Addresses'
      OBVIOUS
    <2>1. CASE UNCHANGED store
      BY <2>1, AddressesKept DEF store, Addresses
    <2>2. ASSUME NEW c \in Caller, Serve(c) \/ LoseAnswer(c) PROVE Addresses'
      <3>1. PICK f \in Fault, code \in Answer : Handle(call[c], f, code)
        BY <2>2 DEF Serve, LoseAnswer
      <3> QED BY <3>1, HandlersKeepAddresses
    <2>3. ASSUME NEW c \in Caller, Begin(c) \/ LoseRequest(c) \/ Return(c) PROVE Addresses'
      BY <2>1, <2>3 DEF Begin, LoseRequest, Return
    <2>4. CASE UNCHANGED vars
      BY <2>1, <2>4 DEF vars
    <2> QED BY <2>2, <2>3, <2>4 DEF Next
  <1>3. Addresses => PointsBack
    BY DEF Addresses
  <1> QED BY <1>1, <1>2, <1>3, PTL DEF Spec
-----------------------------------------------------------------------------
(* The double's bookkeeping of rules: what a group and a rule are, and that a
   rule is filed under a group that was given out. *)
GroupShape(x) == x = [name |-> x.name, rules |-> x.rules]
Copies == [id : RuleId, match : Match]
Given(g, last) == g <= last \/ g = DefaultId
RuleShape(x, last) == x.parent \in GroupId /\ Given(x.parent, last)

RulesFiled ==
  /\ \A g \in GroupId : groups[g] # Null =>
        Given(g, next.group) /\ GroupShape(groups[g]) /\ groups[g].rules \subseteq Copies
  /\ \A r \in RuleId : rules[r] # Null => RuleShape(rules[r], next.group)
  /\ RulesAgree

(* Groups are looked up without a hook, and no group is given the id of the
   default one. *)
NoLookUpHook == "securityGroup" \notin Hooked \cup {Null}
DefaultIdUnused == DefaultId \notin 1..MaxGroups

LEMMA FilesStand ==
  ASSUME RulesFiled, UNCHANGED <<groups, rules>>, next'.group = next.group
  PROVE  RulesFiled'
  BY DEF RulesFiled, RulesAgree

LEMMA LookUpsSucceed ==
  ASSUME NoLookUpHook, NEW f \in Fault, NEW g
  PROVE  HasGroup(g, f) <=> groups[g] # Null
  <1>1. f.at \in Hooked \cup {Null}
    BY DEF Fault, NoFault
  <1> QED BY <1>1 DEF HasGroup, Trips, NoLookUpHook

(* A copy exists for exactly the rules filed, read both ways. *)
Copied(G, r) == \E m \in Match : [id |-> r, match |-> m] \in G.rules

LEMMA GroupKeepsFiles ==
  ASSUME Book, RulesFiled, DefaultIdUnused, NEW n,
         LET g == next.group + 1
         IN  /\ next.group < MaxGroups
             /\ next' = [next EXCEPT !.group = g]
             /\ \/ UNCHANGED groups
                \/ groups' = [groups EXCEPT ![g] = [name |-> n, rules |-> {}]]
             /\ UNCHANGED rules
  PROVE  RulesFiled'
  <1> DEFINE g == next.group + 1
  <1>1. g \in GroupId /\ g # DefaultId /\ next.group \in Nat /\ g > next.group
    BY NovaAssumption DEF Book, Counters, GroupId, DefaultIdUnused
  <1>2. next'.group = g
    BY DEF Book, Counters
  <1>g. Given(g, g) /\ \A h \in GroupId : Given(h, next.group) => Given(h, g)
    BY <1>1, NovaAssumption DEF GroupId, Given
  <1>3. \A r \in RuleId : rules[r] # Null => rules[r].parent # g /\ RuleShape(rules[r], g)
    <2> SUFFICES ASSUME NEW r \in RuleId, rules[r] # Null
                 PROVE  rules[r].parent # g /\ RuleShape(rules[r], g)
      OBVIOUS
    <2>1. PICK p : p = rules[r].parent /\ p \in GroupId /\ Given(p, next.group)
      BY DEF RulesFiled, RuleShape
    <2>2. p # g
      BY <1>1, <2>1, NovaAssumption DEF GroupId, Given
    <2> QED BY <1>g, <2>1, <2>2 DEF RuleShape
  <1> HIDE DEF g
  <1>4. \A h \in GroupId : \/ groups'[h] = groups[h]
                           \/ h = g /\ groups'[h] = [name |-> n, rules |-> {}]
    BY DEF Book, GroupsBooked, g
  <1>5. \A h \in GroupId : groups'[h] # Null =>
            Given(h, next'.group) /\ GroupShape(groups'[h]) /\ groups'[h].rules \subseteq Copies
    BY <1>2, <1>g, <1>4 DEF RulesFiled, GroupShape
  <1>6. RulesAgree'
    <2> SUFFICES ASSUME NEW h \in GroupId, NEW r \in RuleId, groups'[h] # Null
                 PROVE  Copied(groups'[h], r) <=> (rules[r] # Null /\ rules[r].parent = h)
      BY DEF RulesAgree, Copied
    <2>1. CASE groups'[h] = groups[h]
      BY <2>1 DEF RulesFiled, RulesAgree, Copied
    <2>2. CASE h = g /\ groups'[h] = [name |-> n, rules |-> {}]
      BY <1>3, <2>2 DEF Copied
    <2> QED BY <1>4, <2>1, <2>2
  <1>7. UNCHANGED rules
    OBVIOUS
  <1> QED BY <1>2, <1>3, <1>5, <1>6, <1>7 DEF RulesFiled

LEMMA RuleKeepsFiles ==
  ASSUME Book, RulesFiled, NEW g \in GroupId, NEW m \in Match, groups[g] # Null,
         LET r == next.rule + 1
         IN  /\ next.rule < MaxRules
             /\ next' = [next EXCEPT !.rule = r]
             /\ UNCHANGED <<groups, rules>> \/ AddRule(r, g, m)
  PROVE  RulesFiled'
  <1>1. next'.group = next.group
    BY DEF Book, Counters
  <1>2. CASE UNCHANGED <<groups, rules>>
    BY <1>1, <1>2, FilesStand
  <1>3. CASE AddRule(next.rule + 1, g, m)
    <2> DEFINE r == next.rule + 1
    <2>1. r \in RuleId /\ rules[r] = Null
      BY NovaAssumption, SMTT(30) DEF Book, Counters, GroupsBooked, RuleId
    <2>2. AddRule(r, g, m)
      BY <1>3
    <2> HIDE DEF r
    <2> DEFINE c == [id |-> r, match |-> m]
    <2>3. PICK n, R : groups[g] = [name |-> n, rules |-> R] /\ R \subseteq Copies
      BY DEF RulesFiled, GroupShape
    <2>4. /\ \A h \in GroupId : h # g => groups'[h] = groups[h]
          /\ groups'[g] = [name |-> n, rules |-> R \cup {c}]
      <3>1. groups' = [groups EXCEPT ![g] = [groups[g] EXCEPT !.rules = @ \cup {c}]]
        BY <2>2 DEF AddRule
      <3>2. [groups[g] EXCEPT !.rules = @ \cup {c}] = [name |-> n, rules |-> R \cup {c}]
        BY <2>3
      <3> QED BY <3>1, <3>2 DEF Book, GroupsBooked
    <2>5. /\ \A q \in RuleId : q # r => rules'[q] = rules[q]
          /\ rules'[r] = [parent |-> g, match |-> m] /\ rules'[r] # Null
      <3>1. [parent |-> g, match |-> m] # Null
        BY NovaAssumption
      <3> QED BY <2>1, <2>2, <3>1 DEF AddRule, Book, GroupsBooked
    <2>7. \A h \in GroupId : groups'[h] # Null =>
              Given(h, next'.group) /\ GroupShape(groups'[h]) /\ groups'[h].rules \subseteq Copies
      <3>1. c \in Copies
        BY <2>1 DEF Copies
      <3>2. GroupShape(groups'[g]) /\ groups'[g].rules \subseteq Copies
        BY <2>3, <2>4, <3>1 DEF GroupShape
      <3> QED BY <1>1, <2>4, <3>2 DEF RulesFiled
    <2>8. \A q \in RuleId : rules'[q] # Null => RuleShape(rules'[q], next'.group)
      <3>1. Given(g, next.group)
        BY DEF RulesFiled
      <3> QED BY <1>1, <2>5, <3>1 DEF RulesFiled, RuleShape
    <2>9. RulesAgree'
      <3> SUFFICES ASSUME NEW h \in GroupId, NEW q \in RuleId, groups'[h] # Null
                   PROVE  Copied(groups'[h], q) <=> (rules'[q] # Null /\ rules'[q].parent = h)
        BY DEF RulesAgree, Copied
      <3>1. groups[h] # Null => (Copied(groups[h], q) <=> (rules[q] # Null /\ rules[q].parent = h))
        BY DEF RulesFiled, RulesAgree, Copied
      <3>2. CASE q = r
        <4>1. groups[h] # Null => ~Copied(groups[h], r)
          BY <2>1, <3>1, <3>2
        <4>2. CASE h = g
          BY <2>4, <2>5, <3>2, <4>2 DEF Copied
        <4>3. CASE h # g
          BY <2>4, <2>5, <3>2, <4>1, <4>3
        <4> QED BY <4>2, <4>3
      <3>3. CASE q # r
        <4>1. Copied(groups'[h], q) <=> Copied(groups[h], q)
          <5>1. groups'[h].rules = groups[h].rules
                  \/ groups'[h].rules = groups[h].rules \cup {c}
            BY <2>3, <2>4
          <5>2. \A x \in Match : [id |-> q, match |-> x] # c
            BY <3>3
          <5> QED BY <5>1, <5>2 DEF Copied
        <4> QED BY <2>4, <2>5, <3>1, <3>3, <4>1
      <3> QED BY <3>2, <3>3
    <2> QED BY <2>7, <2>8, <2>9 DEF RulesFiled
  <1> QED BY <1>2, <1>3

LEMMA UnfilingKeepsFiles ==
  ASSUME Book, RulesFiled, NEW r \in RuleId, rules[r] # Null,
         rules' = [rules EXCEPT ![r] = Null],
         LET g == rules[r].parent
         IN  groups' = IF groups[g] # Null THEN Unfiled(g, r) ELSE groups,
         UNCHANGED next
  PROVE  RulesFiled'
  <1> DEFINE g == rules[r].parent
  <1>1. g \in GroupId
    BY DEF RulesFiled, RuleShape
  <1>2. \A q \in RuleId : rules'[q] = IF q = r THEN Null ELSE rules[q]
    BY DEF Book, GroupsBooked
  <1>3. groups' = IF groups[g] # Null THEN Unfiled(g, r) ELSE groups
    OBVIOUS
  <1>4. \A h \in GroupId : groups[h] # Null =>
           \A q \in RuleId : Copied(groups[h], q) <=> (rules[q] # Null /\ rules[q].parent = h)
    BY DEF RulesFiled, RulesAgree, Copied
  <1> HIDE DEF g
  <1>5. CASE groups[g] = Null
    <2>1. groups' = groups
      BY <1>3, <1>5
    <2>2. \A h \in GroupId : groups[h] # Null => ~Copied(groups[h], r)
      BY <1>4, <1>5 DEF g
    <2>3. RulesAgree'
      <3> SUFFICES ASSUME NEW h \in GroupId, NEW q \in RuleId, groups[h] # Null
                   PROVE  Copied(groups[h], q) <=> (rules'[q] # Null /\ rules'[q].parent = h)
        BY <2>1 DEF RulesAgree, Copied
      <3> QED BY <1>2, <1>4, <2>2
    <2>4. \A q \in RuleId : rules'[q] # Null => RuleShape(rules'[q], next'.group)
      BY <1>2 DEF RulesFiled
    <2> QED BY <2>1, <2>3, <2>4 DEF RulesFiled
  <1>6. CASE groups[g] # Null
    <2>1. PICK n, R : groups[g] = [name |-> n, rules |-> R] /\ R \subseteq Copies
      BY <1>1, <1>6 DEF RulesFiled, GroupShape
    <2> DEFINE R1 == {c \in R : c.id # r}
    <2>2. /\ \A h \in GroupId : h # g => groups'[h] = groups[h]
          /\ groups'[g] = [name |-> n, rules |-> R1]
      <3>1. {c \in groups[g].rules : c.id # r} = R1
        BY <2>1
      <3>2. groups' = [groups EXCEPT ![g] =
                         [groups[g] EXCEPT !.rules = {c \in groups[g].rules : c.id # r}]]
        BY <1>3, <1>6 DEF Unfiled
      <3> HIDE DEF R1
      <3>3. groups' = [groups EXCEPT ![g] = [groups[g] EXCEPT !.rules = R1]]
        BY <3>1, <3>2
      <3>4. [groups[g] EXCEPT !.rules = R1] = [name |-> n, rules |-> R1]
        BY <2>1
      <3> QED BY <1>1, <3>3, <3>4 DEF Book, GroupsBooked
    <2>3. \A h \in GroupId : groups'[h] # Null =>
              Given(h, next'.group) /\ GroupShape(groups'[h]) /\ groups'[h].rules \subseteq Copies
      <3>1. GroupShape(groups'[g]) /\ groups'[g].rules \subseteq Copies
        BY <2>1, <2>2 DEF GroupShape
      <3> QED BY <1>6, <2>2, <3>1 DEF RulesFiled
    <2>4. \A q \in RuleId : rules'[q] # Null => RuleShape(rules'[q], next'.group)
      BY <1>2 DEF RulesFiled
    <2>5. RulesAgree'
      <3> SUFFICES ASSUME NEW h \in GroupId, NEW q \in RuleId, groups'[h] # Null
                   PROVE  Copied(groups'[h], q) <=> (rules'[q] # Null /\ rules'[q].parent = h)
        BY DEF RulesAgree, Copied
      <3>1. CASE h = g
        <4>1. Copied(groups'[g], q) <=> q # r /\ Copied(groups[g], q)
          <5>1. \A x \in Match : [id |-> q, match |-> x] \in R1
                    <=> q # r /\ [id |-> q, match |-> x] \in R
            OBVIOUS
          <5> HIDE DEF R1
          <5>2. groups'[g].rules = R1 /\ groups[g].rules = R
            BY <2>1, <2>2
          <5> QED BY <5>1, <5>2 DEF Copied
        <4> QED BY <1>2, <1>4, <1>6, <3>1, <4>1
      <3>2. CASE h # g
        BY <1>2, <1>4, <2>2, <3>2 DEF g
      <3> QED BY <3>1, <3>2
    <2> QED BY <2>3, <2>4, <2>5 DEF RulesFiled
  <1> QED BY <1>5, <1>6

(* Only four handlers touch groups and rules. *)
LEMMA HandlersKeepFiles ==
  ASSUME Book, RulesFiled, NoLookUpHook, DefaultIdUnused,
         NEW k, WellAsked(k.req), NEW f \in Fault, NEW code, Handle(k, f, code)
  PROVE  RulesFiled'
  <1> DEFINE q == k.req
  <1>1. CASE UNCHANGED <<groups, rules>> /\ next'.group = next.group
    BY <1>1, FilesStand
  <1>2. CASE UNCHANGED store
    BY <1>1, <1>2 DEF store
  <1>3. CASE HandleEmpty(q, code) \/ HandleRead(q, f, code)
    <2>1. UNCHANGED store
      BY <1>3 DEF HandleEmpty, HandleRead, Found, Say
    <2> QED BY <1>2, <2>1
  <1>4. CASE HandleServers(q, f, code) /\ ~UNCHANGED store
    <2>1. CASE RunServer(q.names, f, code)
      <3>1. UNCHANGED <<groups, rules>> /\ next' = [next EXCEPT !.server = next.server + 1]
        BY <2>1 DEF RunServer
      <3>2. next'.group = next.group
        BY <3>1 DEF Book, Counters
      <3> QED BY <1>1, <3>1, <3>2
    <2>2. CASE ~RunServer(q.names, f, code)
      <3>1. UNCHANGED <<groups, rules, next>>
        BY <1>4, <2>2 DEF HandleServers, DeleteServer, AddServerSecurityGroup,
           RemoveServerSecurityGroup, AddServerFloatingIP, RemoveServerFloatingIP, Say, Refuse
      <3> QED BY <1>1, <3>1
    <2> QED BY <2>1, <2>2
  <1>5. CASE q.op = "CreateSecurityGroup" /\ CreateSecurityGroup(q.n, f, code)
               /\ ~UNCHANGED store
    BY <1>5, GroupKeepsFiles DEF CreateSecurityGroup, Say
  <1>6. CASE q.op = "DeleteSecurityGroup" /\ DeleteSecurityGroup(q.g, f, code)
               /\ ~UNCHANGED store
    <2>1. groups' = [groups EXCEPT ![q.g] = Null] /\ UNCHANGED <<rules, next>>
      BY <1>6 DEF DeleteSecurityGroup, Say, Refuse
    <2>2. \A h \in GroupId : groups'[h] # Null => groups'[h] = groups[h]
      BY <2>1 DEF Book, GroupsBooked
    <2> QED BY <2>1, <2>2 DEF RulesFiled, RulesAgree
  <1>7. CASE q.op = "CreateSecurityGroupRule"
               /\ CreateSecurityGroupRule(q.g, q.m, q.src, f, code) /\ ~UNCHANGED store
    <2>1. q.g \in GroupId /\ q.m \in Match
      BY <1>7 DEF WellAsked
    <2>2. /\ groups[q.g] # Null /\ next.rule < MaxRules
          /\ next' = [next EXCEPT !.rule = next.rule + 1]
          /\ UNCHANGED <<groups, rules>> \/ AddRule(next.rule + 1, q.g, q.m)
      BY <1>7 DEF CreateSecurityGroupRule, HasGroup, Say
    <2> QED BY <2>1, <2>2, RuleKeepsFiles
  <1>8. CASE q.op = "DeleteSecurityGroupRule" /\ DeleteSecurityGroupRule(q.r, f, code)
               /\ ~UNCHANGED store
    <2>1. q.r \in RuleId
      BY <1>8 DEF WellAsked
    <2>2. /\ rules[q.r] # Null /\ rules' = [rules EXCEPT ![q.r] = Null]
          /\ UNCHANGED next
          /\ groups' = IF HasGroup(rules[q.r].parent, f)
                       THEN Unfiled(rules[q.r].parent, q.r) ELSE groups
      BY <1>8 DEF DeleteSecurityGroupRule, HasRule, Say, Refuse
    <2> QED BY <2>1, <2>2, LookUpsSucceed, UnfilingKeepsFiles
  <1>9. CASE q.op \in {"AllocateFloatingIP", "DeleteFloatingIP"} /\ HandleAccount(q, f, code)
    <2>1. /\ UNCHANGED <<groups, rules>>
          /\ UNCHANGED next \/ next' = [next EXCEPT !.ip = next.ip + 1]
      BY <1>9 DEF HandleAccount, AllocateFloatingIP, DeleteFloatingIP, Say, store
    <2>2. next'.group = next.group
      BY <2>1 DEF Book, Counters
    <2> QED BY <1>1, <2>1, <2>2
  <1> QED BY <1>2, <1>3, <1>4, <1>5, <1>6, <1>7, <1>8, <1>9 DEF Handle, HandleAccount

(* The two places a rule is kept in agree, however groups and rules are created
   and deleted and wherever a hook fails between, provided that no hook fails
   the lookup of a group: addSecurityGroupRule and removeSecurityGroupRule change
   both places.  A group deleted with its rules leaves them filed, and this does
   no harm as long as no group is given its id, which 999 groups would do to the
   default one. *)
THEOREM RulesStayInTwoPlaces ==
  ASSUME NoLookUpHook, DefaultIdUnused
  PROVE  Spec => []RulesAgree
  <1>1. Init => RulesFiled
    <2> SUFFICES ASSUME Init PROVE RulesFiled
      OBVIOUS
    <2>1. \A g \in GroupId : groups[g] # Null =>
             g = DefaultId /\ groups[g] = [name |-> Default, rules |-> {}]
      BY DEF Init, NovaInit
    <2>2. \A r \in RuleId : rules[r] = Null
      BY DEF Init, NovaInit
    <2>3. \A g \in GroupId : groups[g] # Null =>
             /\ Given(g, next.group) /\ GroupShape(groups[g])
             /\ groups[g].rules \subseteq Copies /\ groups[g].rules = {}
      BY <2>1 DEF GroupShape, Given
    <2> QED BY <2>2, <2>3 DEF RulesFiled, RulesAgree
  <1>2. Book /\ AllAccounted /\ RulesFiled /\ [Next]_vars => RulesFiled'
    <2> SUFFICES ASSUME Book, AllAccounted, RulesFiled, [Next]_vars PROVE RulesFiled'
      OBVIOUS
    <2>1. CASE UNCHANGED store
      BY <2>1, FilesStand DEF store
    <2>2. ASSUME NEW c \in Caller, Serve(c) \/ LoseAnswer(c) PROVE RulesFiled'
      <3>1. PICK f \in Fault, code \in Answer : Handle(call[c], f, code)
        BY <2>2 DEF Serve, LoseAnswer
      <3>2. WellAsked(call[c].req)
        BY <2>2 DEF Serve, LoseAnswer, AllAccounted, Accounted
      <3> QED BY <3>1, <3>2, HandlersKeepFiles
    <2>3. ASSUME NEW c \in Caller, Begin(c) \/ LoseRequest(c) \/ Return(c) PROVE RulesFiled'
      BY <2>1, <2>3 DEF Begin, LoseRequest, Return
    <2>4. CASE UNCHANGED vars
      BY <2>1, <2>4 DEF vars
    <2> QED BY <2>2, <2>3, <2>4 DEF Next
  <1>3. RulesFiled => RulesAgree
    BY DEF RulesFiled
  <1> QED BY <1>1, <1>2, <1>3, InBooks, PTL DEF Spec
-----------------------------------------------------------------------------
(* Servers come into being in one handler, with the next id and nothing but the
   groups the request names. *)
LEMMA OnlyRunServerAdds ==
  ASSUME NEW k, NEW f, NEW code, Handle(k, f, code), ~(servers' \subseteq servers)
  PROVE  RunServer(k.req.names, f, code)
  <1>1. CASE HandleEmpty(k.req, code) \/ HandleRead(k.req, f, code)
    BY <1>1 DEF HandleEmpty, HandleRead, Found, Say, store
  <1>2. CASE HandleServers(k.req, f, code)
    BY <1>2 DEF HandleServers, DeleteServer, AddServerSecurityGroup,
       RemoveServerSecurityGroup, AddServerFloatingIP, RemoveServerFloatingIP, Say, Refuse, store
  <1>3. CASE HandleAccount(k.req, f, code)
    BY <1>3 DEF HandleAccount, CreateSecurityGroup, DeleteSecurityGroup,
       CreateSecurityGroupRule, DeleteSecurityGroupRule, AllocateFloatingIP,
       DeleteFloatingIP, Say, Refuse, store
  <1> QED BY <1>1, <1>2, <1>3 DEF Handle

LEMMA NewServersAreBare ==
  ASSUME Book, PointsBack, NEW names, NEW f, NEW code, RunServer(names, f, code),
         NEW s \in servers' \ servers
  PROVE  /\ serverIPs'[s] = {} /\ \A i \in IPId : floatingIPs'[i] # s
         /\ \A g \in serverGroups'[s] : groups[g].name \in Range(names)
  <1>1. PICK ids \in [Wanted(names) -> GroupId] :
          /\ \A k \in Wanted(names) : ids[k] \in GroupNamed(names[k], f)
          /\ AddServer(ids, f, code)
    BY DEF RunServer
  <1>2. s = next.server + 1 /\ next.server < MaxServers
        /\ UNCHANGED <<floatingIPs, serverIPs>>
    BY <1>1 DEF RunServer, AddServer, NewServer
  <1>3. s \in ServerId /\ s > next.server
    BY <1>2, NovaAssumption DEF Book, Counters, ServerId
  <1>4. serverIPs[s] = {} /\ serverGroups[s] = {}
    BY <1>3 DEF Book, ServersBooked
  <1>5. \A i \in IPId : floatingIPs[i] # s
    BY <1>3, <1>4 DEF PointsBack
  <1>6. ASSUME NEW g \in serverGroups'[s] PROVE groups[g].name \in Range(names)
    <2>1. serverGroups'[s] = serverGroups[s] \/ serverGroups'[s] = serverGroups[s] \cup Joined(ids)
      BY <1>1, <1>2, <1>3 DEF AddServer, NewServer, Book, ServersBooked
    <2>2. PICK k \in Wanted(names) : g = ids[k]
      BY <1>4, <1>6, <2>1 DEF Joined
    <2>3. groups[g].name = names[k] /\ k \in DOMAIN names
      BY <1>1, <2>2 DEF GroupNamed, Wanted
    <2> QED BY <2>3 DEF Range
  <1> QED BY <1>2, <1>4, <1>5, <1>6

(* A new server inherits nothing, although what belonged to a deleted one stays
   in the double's maps: removeServer leaves its groups and addresses, and only
   the counter of handleRunServer, which never goes back, keeps them from the
   next server. *)
THEOREM NewServersStartFresh == Spec => FreshServer
  <1>1. Book /\ AllAccounted /\ PointsBack /\ [Next]_vars =>
          [\A s \in servers' \ servers :
             /\ serverIPs'[s] = {} /\ \A i \in IPId : floatingIPs'[i] # s
             /\ \A g \in serverGroups'[s] : \E c \in Caller :
                   call'[c] # call[c] /\ groups[g].name \in Range(call[c].req.names)]_vars
    <2> SUFFICES ASSUME Book, AllAccounted, PointsBack, Next, NEW s \in servers' \ servers
                 PROVE  /\ serverIPs'[s] = {} /\ \A i \in IPId : floatingIPs'[i] # s
                        /\ \A g \in serverGroups'[s] : \E c \in Caller :
                             call'[c] # call[c] /\ groups[g].name \in Range(call[c].req.names)
      BY DEF vars, store
    <2>1. PICK c \in Caller, f \in Fault, code \in Answer :
            /\ call[c].pc = "sent" /\ Handle(call[c], f, code)
            /\ \/ call' = [call EXCEPT ![c] = React(Counted(call[c]), code)]
               \/ call' = [call EXCEPT ![c] = Lost(Counted(call[c]))]
      BY DEF Next, Begin, Serve, LoseRequest, LoseAnswer, Return, store
    <2>2. RunServer(call[c].req.names, f, code)
      BY <2>1, OnlyRunServerAdds
    <2>3. call'[c] # call[c]
      <3> DEFINE n == Counted(call[c])
      <3>1. Content' # Content
        BY DEF Content
      <3>2. IsCall(n) /\ n.pc = "sent" /\ n.effects # call[c].effects
        BY <2>1, <3>1, CountedCall DEF AllAccounted
      <3>3. React(n, code).effects = n.effects
        <4> HIDE DEF n
        <4> QED BY <3>2, ReactedCall
      <3>4. Lost(n).effects = n.effects
        <4> HIDE DEF n
        <4> DEFINE r == Refused(n, Newf(<<>>))
        <4>1. IsCall(r) /\ r.effects = n.effects
          BY <3>2, RefusedCall
        <4>2. Lost(n) = [r EXCEPT !.lost = TRUE]
          BY DEF Lost
        <4> HIDE DEF r
        <4> QED BY <4>1, <4>2 DEF IsCall
      <3>5. call'[c] = React(n, code) \/ call'[c] = Lost(n)
        BY <2>1 DEF AllAccounted
      <3> HIDE DEF n
      <3> QED BY <3>2, <3>3, <3>4, <3>5
    <2> QED BY <2>2, <2>3, NewServersAreBare
  <1> QED BY <1>1, InBooks, AddressesPointBack, PTL DEF FreshServer, Spec
=============================================================================
