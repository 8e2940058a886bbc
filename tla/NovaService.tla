---------------------------- MODULE NovaService ----------------------------
(***************************************************************************)
(* The compute double of goose: testservices/novaservice keeps servers,    *)
(* security groups with their rules and floating IPs in maps, and answers  *)
(* nova's HTTP API over them.  Every handler is a relation between the     *)
(* state, a request, a fault and the answer `code` it gives; a fault is a  *)
(* control hook that makes one of the double's methods fail while the      *)
(* request is handled.  Requests are handled one at a time.                *)
(***************************************************************************)
EXTENDS Naturals, FiniteSets, Sequences, Functions

CONSTANTS
  GroupName,   \* names of security groups
  Default,     \* "default", the group every account has
  DefaultId,   \* its id: 999
  Match,       \* protocol and ports of a rule; Null: none given
  Null,
  Hooked,      \* the methods with a control hook
  Errs,        \* what a hook may do: "limit" the rate or "fail"
  MaxServers, MaxGroups, MaxRules, MaxIPs   \* bounds of the counters

ServerId == 1..MaxServers
GroupId  == (1..MaxGroups) \cup {DefaultId}
RuleId   == 1..MaxRules
IPId     == 1..MaxIPs
Free     == 0            \* a floating IP without an instance

ASSUME NovaAssumption ==
  /\ Default \in GroupName /\ DefaultId \in Nat \ {0}
  /\ {MaxServers, MaxGroups, MaxRules, MaxIPs} \subseteq Nat
  /\ Null \notin Nat \cup GroupName /\ Null \in Match
  /\ Null \notin [name : GroupName, rules : {{}}] \cup [parent : GroupId, match : Match]
  /\ Errs \subseteq {"limit", "fail"}

VARIABLES
  servers,       \* ids of the servers
  groups,        \* id -> name and rules of a group, or Null
  rules,         \* id -> parent and match of a rule, or Null
  serverGroups,  \* server -> ids of its groups
  floatingIPs,   \* id -> Free or the instance it points at, or Null
  serverIPs,     \* server -> ids of its floating IPs
  next           \* the last id given out, of each kind

store == <<servers, groups, rules, serverGroups, floatingIPs, serverIPs, next>>

NovaInit ==
  /\ servers = {}
  /\ groups = [g \in GroupId |->
                 IF g = DefaultId THEN [name |-> Default, rules |-> {}] ELSE Null]
  /\ rules = [r \in RuleId |-> Null]
  /\ serverGroups = [s \in ServerId |-> {}]
  /\ floatingIPs = [i \in IPId |-> Null]
  /\ serverIPs = [s \in ServerId |-> {}]
  /\ next = [server |-> 0, group |-> 0, rule |-> 0, ip |-> 0]
-----------------------------------------------------------------------------
(* Faults, and what ServeHTTP answers for the error of a hook. *)
NoFault == [at |-> Null, err |-> Null]
Fault   == {NoFault} \cup [at : Hooked, err : Errs]
             \cup [at : Hooked \cap {"addFloatingIP"}, err : {"full", "none"}]

Trips(f, methods) == f.at \in methods

Answer == {"200", "202", "204", "400", "400 duplicate", "404", "413",
           "413 retry", "500"}

ErrAnswer(f) == CASE f.err = "limit" -> "413 retry"
                  [] f.err = "full"  -> "413"
                  [] f.err = "none"  -> "404"
                  [] OTHER           -> "500"

(* The handler fails with the hook's error before it has changed anything. *)
Refuse(f, code) == code = ErrAnswer(f) /\ UNCHANGED store
Say(answer, code) == code = answer /\ UNCHANGED store

(* The lookups that a hook can fail. *)
HasServer(s, f)  == s \in servers /\ ~Trips(f, {"server"})
HasGroup(g, f)   == groups[g] # Null /\ ~Trips(f, {"securityGroup"})
HasRule(r, f)    == rules[r] # Null /\ ~Trips(f, {"securityGroupRule"})
HasIP(i, f)      == floatingIPs[i] # Null /\ ~Trips(f, {"floatingIP"})
GroupNamed(n, f) == {g \in GroupId : /\ groups[g] # Null /\ groups[g].name = n
                                     /\ ~Trips(f, {"securityGroupByName"})}
-----------------------------------------------------------------------------
(* POST servers.  The groups are named in the request; "default" is skipped,
   and the server stays when one of them cannot be added. *)
Wanted(names) == {k \in DOMAIN names : names[k] # Default}

(* The groups added before the loop meets one the server has already. *)
Joined(ids) ==
  {ids[n] : n \in {m \in DOMAIN ids : IsInjective(Restrict(ids, {k \in DOMAIN ids : k <= m}))}}

(* Mutant: the id of a server is one more than their number. *)
NewServer_count == Cardinality(servers) + 1

NewServer == next.server + 1

AddServer(ids, f, code) ==
  LET s == NewServer
  IN  /\ servers' = servers \cup {s}
      /\ IF DOMAIN ids # {} /\ Trips(f, {"addServerSecurityGroup", "server", "securityGroup"})
         THEN code = ErrAnswer(f) /\ UNCHANGED serverGroups
         ELSE /\ code = IF IsInjective(ids) THEN "202" ELSE "500"
              /\ serverGroups' = [serverGroups EXCEPT ![s] = @ \cup Joined(ids)]

RunServer(names, f, code) ==
  LET wanted == Wanted(names)
      known  == \A k \in wanted : GroupNamed(names[k], f) # {}
  IN  /\ next.server < MaxServers
      /\ next' = [next EXCEPT !.server = @ + 1]
      /\ \/ ~known /\ code = "400" /\ UNCHANGED <<servers, serverGroups>>
         \/ /\ known /\ Trips(f, {"addServer"})
            /\ code = ErrAnswer(f) /\ UNCHANGED <<servers, serverGroups>>
         \/ /\ known /\ ~Trips(f, {"addServer"})
            /\ \E ids \in [wanted -> GroupId] :
                  /\ \A k \in wanted : ids[k] \in GroupNamed(names[k], f)
                  /\ AddServer(ids, f, code)
      /\ UNCHANGED <<groups, rules, floatingIPs, serverIPs>>

(* DELETE servers/id.  What the server belonged to and the addresses that
   point at it are left as they are. *)
DeleteServer(s, f, code) ==
  \/ ~HasServer(s, f) /\ Say("404", code)
  \/ HasServer(s, f) /\ Trips(f, {"removeServer"}) /\ Refuse(f, code)
  \/ /\ HasServer(s, f) /\ ~Trips(f, {"removeServer"})
     /\ servers' = servers \ {s} /\ code = "204"
     /\ UNCHANGED <<groups, rules, serverGroups, floatingIPs, serverIPs, next>>
-----------------------------------------------------------------------------
(* POST os-security-groups. *)
CreateSecurityGroup(n, f, code) ==
  LET g == next.group + 1
  IN  \/ GroupNamed(n, f) # {} /\ Say("400 duplicate", code)
      \/ /\ GroupNamed(n, f) = {} /\ next.group < MaxGroups
         /\ next' = [next EXCEPT !.group = g]
         /\ \/ /\ Trips(f, {"addSecurityGroup"}) /\ code = ErrAnswer(f)
               /\ UNCHANGED groups
            \/ /\ ~Trips(f, {"addSecurityGroup"}) /\ HasGroup(g, f) /\ code = "500"
               /\ UNCHANGED groups
            \/ /\ ~Trips(f, {"addSecurityGroup"}) /\ ~HasGroup(g, f)
               /\ groups' = [groups EXCEPT ![g] = [name |-> n, rules |-> {}]]
               /\ code = IF Trips(f, {"securityGroup"}) THEN ErrAnswer(f) ELSE "200"
         /\ UNCHANGED <<servers, rules, serverGroups, floatingIPs, serverIPs>>

(* DELETE os-security-groups/id.  The rules of the group stay. *)
DeleteSecurityGroup(g, f, code) ==
  \/ ~HasGroup(g, f) /\ Say("404", code)
  \/ HasGroup(g, f) /\ Trips(f, {"removeSecurityGroup"}) /\ Refuse(f, code)
  \/ /\ HasGroup(g, f) /\ ~Trips(f, {"removeSecurityGroup"})
     /\ groups' = [groups EXCEPT ![g] = Null] /\ code = "202"
     /\ UNCHANGED <<servers, rules, serverGroups, floatingIPs, serverIPs, next>>

(* POST os-security-group-rules, with a source group when src # Null. *)
AddRule(r, g, m) ==
  /\ groups' = [groups EXCEPT ![g].rules = @ \cup {[id |-> r, match |-> m]}]
  /\ rules' = [rules EXCEPT ![r] = [parent |-> g, match |-> m]]

CreateSecurityGroupRule(g, m, src, f, code) ==
  LET r    == next.rule + 1
      same == m # Null /\ \E copy \in groups[g].rules : copy.match = m
  IN  \/ ~HasGroup(g, f) /\ UNCHANGED store
         /\ code = IF Trips(f, {"securityGroup"}) THEN ErrAnswer(f) ELSE "500"
      \/ HasGroup(g, f) /\ same /\ Say("400 duplicate", code)
      \/ /\ HasGroup(g, f) /\ ~same /\ next.rule < MaxRules
         /\ next' = [next EXCEPT !.rule = r]
         /\ \/ /\ Trips(f, {"addSecurityGroupRule"}) /\ code = ErrAnswer(f)
               /\ UNCHANGED <<groups, rules>>
            \/ /\ ~Trips(f, {"addSecurityGroupRule"})
               /\ src # Null /\ groups[src] = Null /\ code = "500"
               /\ UNCHANGED <<groups, rules>>
            \/ /\ ~Trips(f, {"addSecurityGroupRule"})
               /\ (src # Null => groups[src] # Null)
               /\ AddRule(r, g, m)
               /\ code = IF Trips(f, {"securityGroupRule"}) THEN ErrAnswer(f) ELSE "200"
         /\ UNCHANGED <<servers, serverGroups, floatingIPs, serverIPs>>

(* Mutant: the rule is taken out of the rules only. *)
Unfiled_keep(g, r) == groups

Unfiled(g, r) == [groups EXCEPT ![g].rules = {c \in @ : c.id # r}]

(* DELETE os-security-group-rules/id.  A group that cannot be looked up keeps
   its copy of the rule. *)
DeleteSecurityGroupRule(r, f, code) ==
  \/ ~HasRule(r, f) /\ Say("404", code)
  \/ HasRule(r, f) /\ Trips(f, {"removeSecurityGroupRule"}) /\ Refuse(f, code)
  \/ /\ HasRule(r, f) /\ ~Trips(f, {"removeSecurityGroupRule"}) /\ code = "202"
     /\ rules' = [rules EXCEPT ![r] = Null]
     /\ LET g == rules[r].parent
        IN  groups' = IF HasGroup(g, f) THEN Unfiled(g, r) ELSE groups
     /\ UNCHANGED <<servers, serverGroups, floatingIPs, serverIPs, next>>
-----------------------------------------------------------------------------
(* POST servers/id/action: groups of a server. *)
Belongs(s, g, f) == HasServer(s, f) /\ HasGroup(g, f) /\ g \in serverGroups[s]

AddServerSecurityGroup(s, n, f, code) ==
  \/ ~HasServer(s, f) /\ Say("404", code)
  \/ HasServer(s, f) /\ GroupNamed(n, f) = {} /\ Say("404", code)
  \/ \E g \in GroupNamed(n, f) :
        /\ HasServer(s, f)
        /\ \/ Belongs(s, g, f) /\ Say("404", code)
           \/ /\ ~Belongs(s, g, f)
              /\ Trips(f, {"addServerSecurityGroup", "securityGroup"})
              /\ Refuse(f, code)
           \/ /\ ~Belongs(s, g, f)
              /\ ~Trips(f, {"addServerSecurityGroup", "securityGroup"})
              /\ serverGroups' = [serverGroups EXCEPT ![s] = @ \cup {g}]
              /\ code = "202"
              /\ UNCHANGED <<servers, groups, rules, floatingIPs, serverIPs, next>>

RemoveServerSecurityGroup(s, n, f, code) ==
  \/ ~HasServer(s, f) /\ Say("404", code)
  \/ HasServer(s, f) /\ GroupNamed(n, f) = {} /\ Say("404", code)
  \/ \E g \in GroupNamed(n, f) :
        /\ HasServer(s, f)
        /\ \/ ~Belongs(s, g, f) /\ Say("404", code)
           \/ /\ Belongs(s, g, f) /\ Trips(f, {"removeServerSecurityGroup"})
              /\ Refuse(f, code)
           \/ /\ Belongs(s, g, f) /\ ~Trips(f, {"removeServerSecurityGroup"})
              /\ serverGroups' = [serverGroups EXCEPT ![s] = @ \ {g}]
              /\ code = "202"
              /\ UNCHANGED <<servers, groups, rules, floatingIPs, serverIPs, next>>
-----------------------------------------------------------------------------
(* POST servers/id/action: addresses of a server.  An address that another
   server has is taken from nobody's list. *)
HasServerIP(s, i) == i \in serverIPs[s] /\ floatingIPs[i] # Null

AddServerFloatingIP(s, i, f, code) ==
  LET found == floatingIPs[i] # Null /\ ~Trips(f, {"floatingIPByAddr"})
      fails == Trips(f, {"addServerFloatingIP", "floatingIP"})
  IN  \/ (~HasServer(s, f) \/ HasServerIP(s, i) \/ ~found) /\ Say("404", code)
      \/ HasServer(s, f) /\ ~HasServerIP(s, i) /\ found /\ fails /\ Refuse(f, code)
      \/ /\ HasServer(s, f) /\ ~HasServerIP(s, i) /\ found /\ ~fails
         /\ floatingIPs' = [floatingIPs EXCEPT ![i] = s]
         /\ serverIPs' = [serverIPs EXCEPT ![s] = @ \cup {i}]
         /\ code = "202"
         /\ UNCHANGED <<servers, groups, rules, serverGroups, next>>

(* Mutant: the address still names the server. *)
Unlinked_keep(i) == floatingIPs

Unlinked(i) == [floatingIPs EXCEPT ![i] = Free]

RemoveServerFloatingIP(s, i, f, code) ==
  LET found == HasServerIP(s, i) /\ ~Trips(f, {"floatingIPByAddr"})
      fails == Trips(f, {"removeServerFloatingIP", "floatingIP"})
  IN  \/ (~HasServer(s, f) \/ ~found) /\ Say("404", code)
      \/ HasServer(s, f) /\ found /\ fails /\ Refuse(f, code)
      \/ /\ HasServer(s, f) /\ found /\ ~fails
         /\ floatingIPs' = Unlinked(i)
         /\ serverIPs' = [serverIPs EXCEPT ![s] = @ \ {i}]
         /\ code = "202"
         /\ UNCHANGED <<servers, groups, rules, serverGroups, next>>

(* POST os-floating-ips: the counter moves even when the address is refused. *)
AllocateFloatingIP(f, code) ==
  LET i == next.ip + 1
  IN  /\ next.ip < MaxIPs
      /\ next' = [next EXCEPT !.ip = i]
      /\ \/ /\ Trips(f, {"addFloatingIP"}) /\ code = ErrAnswer(f)
            /\ UNCHANGED floatingIPs
         \/ /\ ~Trips(f, {"addFloatingIP"}) /\ code = "200"
            /\ floatingIPs' = [floatingIPs EXCEPT ![i] = Free]
      /\ UNCHANGED <<servers, groups, rules, serverGroups, serverIPs>>

(* DELETE os-floating-ips/id: every failure is answered with 404, and the
   servers that have the address keep its id in their lists. *)
DeleteFloatingIP(i, f, code) ==
  LET gone == ~HasIP(i, f) \/ Trips(f, {"removeFloatingIP"})
  IN  \/ gone /\ Say("404", code)
      \/ /\ ~gone /\ code = "202"
         /\ floatingIPs' = [floatingIPs EXCEPT ![i] = Null]
         /\ UNCHANGED <<servers, groups, rules, serverGroups, serverIPs, next>>
-----------------------------------------------------------------------------
(* GET requests, and those the double refuses whatever they ask. *)
Found(there, code) == Say(IF there THEN "200" ELSE "404", code)
=============================================================================
