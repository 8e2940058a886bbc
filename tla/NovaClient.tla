----------------------------- MODULE NovaClient -----------------------------
(***************************************************************************)
(* Callers of goose's nova client: a method builds one request,            *)
(* http.Client sends it, up to MaxSendAttempts times while the answer is   *)
(* "413" with Retry-After, and the answer becomes a result or a chain of   *)
(* errors.  The service is the double of NovaService.  Between two         *)
(* attempts a caller sleeps, and the others go on.                         *)
(***************************************************************************)
EXTENDS NovaService

CONSTANTS
  Caller,
  Ops,              \* the methods the callers use
  NameLists,        \* the lists of groups given to RunServer
  MaxSendAttempts   \* 3

VARIABLE call   \* the call each caller makes, or the last one it made

vars == <<store, call>>

(* The errors package: an error is the sequence of the codes of its chain,
   outermost first; an error of another package ends the chain. *)
Unspecified == "Unspecified"
Codes == {Unspecified, "NotFound", "DuplicateValue", "Unauthorised"}
NoError == <<>>
Newf(cause) == <<Unspecified>> \o cause
Code(e) == LET told == {k \in DOMAIN e : e[k] # Unspecified}
           IN  IF told = {} THEN Unspecified
               ELSE e[CHOOSE k \in told : \A j \in told : k <= j]
CausedBy(e, c) == e # <<>> /\ (Code(e) = c \/ (Len(e) > 1 /\ Code(Tail(e)) = c))
IsNotFound(e) == CausedBy(e, "NotFound")

(* handleError: what an answer of an unexpected status becomes. *)
HandleError(code) ==
  CASE code = "404"           -> <<"NotFound">>
    [] code = "403"           -> <<"Unauthorised">>
    [] code = "400 duplicate" -> <<"DuplicateValue">>
    [] OTHER                  -> <<>>

Creates == {"RunServer", "CreateSecurityGroup", "CreateSecurityGroupRule"}
OnGroup == {"AddServerSecurityGroup", "RemoveServerSecurityGroup"}
OnIP    == {"AddServerFloatingIP", "RemoveServerFloatingIP"}
Reading == {"List", "SecurityGroupByName", "GetServer", "GetServerSecurityGroups",
            "Fallback", "GetFloatingIP", "RenameServer", "SetIPV4Address"}
HasBody == Creates \cup OnGroup \cup OnIP \cup {"RenameServer", "SetIPV4Address"}

(* The requests of the methods the callers use; "List" stands for the methods
   that list servers, flavors or addresses. *)
With(ops) == Ops \cap ops

ListRequest    == [op : With({"List"})]
ServerRequest  == [op : With({"GetServer", "DeleteServer", "GetServerSecurityGroups"}),
                   s : ServerId]
RunRequest     == [op : With({"RunServer"}), names : NameLists]
RenameRequest  == [op : With({"RenameServer"}), s : ServerId]
AccessRequest  == [op : With({"SetIPV4Address"}), s : ServerId]
NameRequest    == [op : With({"SecurityGroupByName"}), n : GroupName]
GroupRequest   == [op : With({"CreateSecurityGroup"}), n : GroupName]
                    \cup [op : With({"DeleteSecurityGroup"}), g : GroupId]
RuleRequest    == [op : With({"CreateSecurityGroupRule"}), g : GroupId, m : Match,
                   src : GroupId \cup {Null}]
                    \cup [op : With({"DeleteSecurityGroupRule"}), r : RuleId]
GroupAction    == [op : With(OnGroup), s : ServerId, n : GroupName]
AddressRequest == [op : With({"AllocateFloatingIP"})]
                    \cup [op : With({"DeleteFloatingIP", "GetFloatingIP"}), i : IPId]
AddressAction  == [op : With(OnIP), s : ServerId, i : IPId]

Request ==
  UNION {ListRequest, ServerRequest, RunRequest, RenameRequest, AccessRequest,
         NameRequest, GroupRequest, RuleRequest, GroupAction, AddressRequest,
         AddressAction}

(* Mutant: a deletion is taken for accepted, as the others are. *)
Expected_accepted(op) ==
  IF op \in Reading \cup {"CreateSecurityGroup", "CreateSecurityGroupRule",
                        "AllocateFloatingIP"} THEN {"200"} ELSE {"202"}

(* The statuses a method takes for success. *)
Expected(op) ==
  CASE op \in OnGroup \cup OnIP \cup {"RunServer", "SetIPV4Address",
              "DeleteSecurityGroup", "DeleteSecurityGroupRule", "DeleteFloatingIP"} -> {"202"}
    [] op = "DeleteServer" -> {"204"}
    [] op = "RenameServer" -> {"200", "202"}
    [] OTHER               -> {"200"}

(* req: the request, or only its method when the call is over;
   attempt: how often the request was sent; effects: how often it changed what
   the double keeps; lost: no answer came; err: the error, when it failed. *)
NoCall == [pc |-> "idle", req |-> Null, attempt |-> 0, effects |-> 0,
           lost |-> FALSE, err |-> NoError]

Init == NovaInit /\ call = [c \in Caller |-> NoCall]
-----------------------------------------------------------------------------
(* A method is called: its request is built and sent for the first time. *)
Begin(c) ==
  /\ call[c].pc = "idle"
  /\ \E q \in Request :
        call' = [call EXCEPT ![c] = [NoCall EXCEPT !.pc = "sent", !.req = q, !.attempt = 1]]
  /\ UNCHANGED store

(* Mutant: every attempt sends the body. *)
BodyRead_resent(k) == FALSE

(* The double's handlers.  Every attempt is given the same reader, which the
   first one has read to its end: a later attempt has no body. *)
BodyRead(k) == k.req.op \in HasBody /\ k.attempt > 1

HandleEmpty(q, code) == Say(IF q.op \in Creates \cup {"RenameServer"} THEN "400" ELSE "404", code)

HandleRead(q, f, code) ==
  CASE q.op \in {"GetServer", "GetServerSecurityGroups", "Fallback"} -> Found(HasServer(q.s, f), code)
    [] q.op = "GetFloatingIP" -> Found(HasIP(q.i, f), code)
    [] q.op = "RenameServer"   -> Say("400", code)
    [] q.op = "SetIPV4Address" -> Say("404", code)
    [] OTHER -> Say("200", code)

HandleServers(q, f, code) ==
  \/ q.op = "RunServer" /\ RunServer(q.names, f, code)
  \/ q.op = "DeleteServer" /\ DeleteServer(q.s, f, code)
  \/ q.op = "AddServerSecurityGroup" /\ AddServerSecurityGroup(q.s, q.n, f, code)
  \/ q.op = "RemoveServerSecurityGroup" /\ RemoveServerSecurityGroup(q.s, q.n, f, code)
  \/ q.op = "AddServerFloatingIP" /\ AddServerFloatingIP(q.s, q.i, f, code)
  \/ q.op = "RemoveServerFloatingIP" /\ RemoveServerFloatingIP(q.s, q.i, f, code)

HandleAccount(q, f, code) ==
  \/ q.op = "CreateSecurityGroup" /\ CreateSecurityGroup(q.n, f, code)
  \/ q.op = "DeleteSecurityGroup" /\ DeleteSecurityGroup(q.g, f, code)
  \/ q.op = "CreateSecurityGroupRule" /\ CreateSecurityGroupRule(q.g, q.m, q.src, f, code)
  \/ q.op = "DeleteSecurityGroupRule" /\ DeleteSecurityGroupRule(q.r, f, code)
  \/ q.op = "AllocateFloatingIP" /\ AllocateFloatingIP(f, code)
  \/ q.op = "DeleteFloatingIP" /\ DeleteFloatingIP(q.i, f, code)

Handle(k, f, code) ==
  IF BodyRead(k) THEN HandleEmpty(k.req, code)
  ELSE \/ k.req.op \in Reading /\ HandleRead(k.req, f, code)
       \/ HandleServers(k.req, f, code)
       \/ HandleAccount(k.req, f, code)
-----------------------------------------------------------------------------
(* What the caller makes of an answer. *)
Done(k, pc, e) == [k EXCEPT !.pc = pc, !.err = e, !.req = [op |-> k.req.op]]
Ok(k)          == Done(k, "ok", NoError)
Fail(k, e)     == Done(k, "failed", e)

(* sendRateLimitedRequest *)
Retry(k) == IF k.attempt < MaxSendAttempts
            THEN [k EXCEPT !.attempt = @ + 1]
            ELSE Fail(k, Newf(Newf(<<>>)))

(* sendRequest and handleError.  GetServerSecurityGroups asks for the server
   when its groups are not found, and reports the first error if that fails;
   SecurityGroupByName looks for the name in the list. *)
Refused(k, e) ==
  CASE k.req.op = "GetServerSecurityGroups" /\ IsNotFound(e) ->
         [k EXCEPT !.req = [op |-> "Fallback", s |-> k.req.s], !.attempt = 1]
    [] k.req.op = "Fallback" -> Fail(k, Newf(<<"NotFound">>))
    [] OTHER -> Fail(k, Newf(e))

Accepted(k) ==
  IF k.req.op = "SecurityGroupByName" /\ GroupNamed(k.req.n, NoFault) = {}
  THEN Fail(k, <<"NotFound">>) ELSE Ok(k)

React(k, code) ==
  CASE code = "413 retry"           -> Retry(k)
    [] code \in Expected(k.req.op)  -> Accepted(k)
    [] OTHER                        -> Refused(k, HandleError(code))

Lost(k) == [Refused(k, Newf(<<>>)) EXCEPT !.lost = TRUE]

Content == <<servers, groups, rules, serverGroups, floatingIPs, serverIPs>>
Counted(k) == [k EXCEPT !.effects = @ + IF Content' # Content THEN 1 ELSE 0]

(* The double handles the request and the caller gets the answer. *)
Serve(c) ==
  /\ call[c].pc = "sent"
  /\ \E f \in Fault, code \in Answer :
        /\ Handle(call[c], f, code)
        /\ call' = [call EXCEPT ![c] = React(Counted(call[c]), code)]

(* The connection fails: before the request is handled, or after it. *)
LoseRequest(c) ==
  /\ call[c].pc = "sent"
  /\ call' = [call EXCEPT ![c] = Lost(call[c])]
  /\ UNCHANGED store

LoseAnswer(c) ==
  /\ call[c].pc = "sent"
  /\ \E f \in Fault, code \in Answer :
        /\ Handle(call[c], f, code)
        /\ call' = [call EXCEPT ![c] = Lost(Counted(call[c]))]

(* The method returns; the caller goes on. *)
Return(c) ==
  /\ call[c].pc \in {"ok", "failed"}
  /\ call' = [call EXCEPT ![c] = NoCall]
  /\ UNCHANGED store

Next == \E c \in Caller : \/ Begin(c) \/ Serve(c) \/ LoseRequest(c) \/ LoseAnswer(c)
                         \/ Return(c)

Spec == Init /\ [][Next]_vars
-----------------------------------------------------------------------------
(* A request is carried out at most once, however often it is sent. *)
AtMostOnce == \A c \in Caller : call[c].effects <= 1

(* Only a request that creates something may fail and leave what it created,
   unless its answer was lost: a failed deletion or attachment can be repeated. *)
FailureUndone(k) == k.pc = "failed" /\ k.effects > 0 => k.lost \/ k.req.op \in Creates

(* A result tells what was done.  A call that succeeds changed the double exactly
   once, unless it only reads; one that fails because something is missing,
   exists already or is not allowed changed nothing, so its caller may treat it
   as not done; and any other failure leaves at most something created. *)
EffectTold ==
  \A c \in Caller : LET k == call[c] IN
    /\ k.pc = "ok" => (k.effects = 1 <=> k.req.op \notin Reading)
    /\ k.pc = "failed" /\ Code(k.err) # Unspecified => k.effects = 0
    /\ FailureUndone(k)

(* The two places a rule is kept in agree: a group has a copy of a rule exactly
   when the rule is filed under that group. *)
RulesAgree ==
  \A g \in GroupId, r \in RuleId : groups[g] # Null =>
    ((\E m \in Match : [id |-> r, match |-> m] \in groups[g].rules)
       <=> (rules[r] # Null /\ rules[r].parent = g))

(* An address that points at a server is in that server's list, whatever other
   servers took it or lost it since. *)
PointsBack ==
  \A i \in IPId, s \in ServerId : floatingIPs[i] = s => i \in serverIPs[s]

(* A new server has no address, and no group its request did not name: ids are
   not used again, although what belonged to a deleted server stays. *)
FreshServer ==
  [][\A s \in servers' \ servers :
       /\ serverIPs'[s] = {} /\ \A i \in IPId : floatingIPs'[i] # s
       /\ \A g \in serverGroups'[s] : \E c \in Caller :
             call'[c] # call[c] /\ groups[g].name \in Range(call[c].req.names)]_vars

(* When too many requests were made and the answer carried Retry-After, the
   retry occurs and the request succeeds: an address that can be added is added
   by a later attempt as it would have been by the first. *)
RetrySucceeds ==
  [][\A c \in Caller : LET k == call[c] IN
       (/\ k.pc = "sent" /\ k.attempt > 1 /\ k.attempt < MaxSendAttempts
        /\ k.req.op = "AddServerFloatingIP" /\ k.req.s \in servers
        /\ floatingIPs[k.req.i] # Null /\ ~HasServerIP(k.req.s, k.req.i)
        /\ ~call'[c].lost)
       => call'[c].pc # "failed"]_vars
=============================================================================
