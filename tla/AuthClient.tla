------------------------------ MODULE AuthClient ------------------------------
(***************************************************************************)
(* goose's authenticating client (client/client.go): callers in several    *)
(* goroutines send requests through one client, which logs in on demand,   *)
(* keeps the token under a mutex, and when a request is refused (a 401 or  *)
(* a 403, http/client.go 327) throws the token away and tries once more.   *)
(* A login runs in a goroutine of its own that outlives its caller's       *)
(* timeout and holds the mutex during the call (sync/timeout.go).          *)
(***************************************************************************)
EXTENDS FiniteSets

CONSTANTS
  Caller,   \* goroutines that call SendRequest
  Login,    \* bound: login goroutines alive at a time
  Token,    \* the tokens the identity service can issue, each once
  Null,     \* no token, nobody
  Faults    \* what the environment may do wrong

FaultKind == {"revoke", "lapse", "refuse", "fail", "catalogue", "timeout", "net",
              "forbid"}

ASSUME NullAssumption == Null \notin Caller \cup Login \cup Token
ASSUME FaultsAssumption == Faults \subseteq FaultKind

(* Outcomes: "unauth" is an error for which errors.IsUnauthorised holds. *)
Outcome == {"ok", "unauth", "error"}

CallerRec == [pc   : {"idle", "check", "wait", "url", "token", "send", "clear"},
              try  : {1, 2},
              used : Token \cup {Null},     \* the token of the request sent
              last : Outcome]               \* how the last SendRequest ended
LoginRec  == [pc   : {"free", "lock", "call", "done"},
              for  : Caller \cup {Null},    \* Null: the caller timed out
              err  : Outcome]

(* Why a try may fail: the own login failed or timed out, a token was revoked,
   another caller wiped the token, the client has no URL of the service, the service
   forbids the request though its token is good, or the service itself failed. *)
Trouble == {"login", "revoked", "wiped", "nourls", "forbidden", "net"}

VARIABLES
  required, \* whether c.requiredServiceTypes names any
  token,    \* c.tokenId
  urls,     \* whether c.serviceURLs is filled
  expires,  \* c.expires seen from now: "past" or "future"
  mu,       \* holder of c.mu across a call; short critical sections are one step
  caller,   \* the callers' control state
  login,    \* the login goroutines
  valid,    \* the tokens the services accept
  issued,   \* the tokens handed out so far
  trouble   \* history: what went wrong in a caller's current try

client == <<required, token, urls, expires, mu>>
vars   == <<client, caller, login, valid, issued, trouble>>

TypeOK ==
  /\ required \in BOOLEAN
  /\ token \in Token \cup {Null}
  /\ urls \in BOOLEAN
  /\ expires \in {"past", "future"}
  /\ mu \in Login \cup {Null}
  /\ caller \in [Caller -> CallerRec]
  /\ login \in [Login -> LoginRec]
  /\ valid \subseteq issued
  /\ issued \subseteq Token
  /\ trouble \in [Caller -> SUBSET Trouble]

NoLogin == [pc |-> "free", for |-> Null, err |-> "ok"]

(* NewClient: no token, the zero time lies in the past.  A caller may bring its
   own service URLs.  Given no service types NewClient also empties the default list
   it is about to use (93-95), so that nothing is required; given some, or after
   SetRequiredServiceTypes, something is. *)
Init ==
  /\ required \in BOOLEAN
  /\ token = Null /\ expires = "past" /\ mu = Null
  /\ urls \in BOOLEAN
  /\ caller = [c \in Caller |-> [pc |-> "idle", try |-> 1, used |-> Null, last |-> "ok"]]
  /\ login = [g \in Login |-> NoLogin]
  /\ valid = {} /\ issued = {}
  /\ trouble = [c \in Caller |-> {}]

May(f)   == f \in Faults
Unlocked == mu = Null
Goes(c, pc) == caller' = [caller EXCEPT ![c].pc = pc]
Active(c) == caller[c].pc # "idle"
Noted(c, what) == trouble' = [trouble EXCEPT ![c] = @ \cup {what}]

-----------------------------------------------------------------------------
(* SendRequest *)

Begin(c) ==
  /\ caller[c].pc = "idle"
  /\ caller' = [caller EXCEPT ![c] =
       [@ EXCEPT !.pc = "check", !.try = 1, !.last = "ok"]]
  /\ trouble' = [trouble EXCEPT ![c] = {}]
  /\ UNCHANGED <<client, login, valid, issued>>

(* Mutant: any error makes the client throw its token away. *)
Ends_anyError(c, outcome) ==
  caller' = [caller EXCEPT ![c] =
    IF outcome # "ok" /\ @.try = 1 THEN [@ EXCEPT !.pc = "clear"]
    ELSE [@ EXCEPT !.pc = "idle", !.used = Null, !.last = outcome]]

(* A try of SendRequest ends: a first one that was refused is followed by another. *)
Ends(c, outcome) ==
  caller' = [caller EXCEPT ![c] =
    IF outcome = "unauth" /\ @.try = 1 THEN [@ EXCEPT !.pc = "clear"]
    ELSE [@ EXCEPT !.pc = "idle", !.used = Null, !.last = outcome]]

(* c.expires is read without the mutex: a racing read may still see an earlier
   value, so "past" is always possible. *)
ReadsExpired   == TRUE
ReadsUnexpired == expires = "future"

(* Authenticate starts the login goroutine and waits. *)
StartLogin(c) ==
  \E g \in Login :
    /\ login[g].pc = "free"
    /\ login' = [login EXCEPT ![g] = [pc |-> "lock", for |-> c, err |-> "ok"]]
    /\ Goes(c, "wait")

(* The head of sendAuthRequest. *)
Check(c) ==
  /\ caller[c].pc = "check"
  /\ \/ ReadsExpired /\ StartLogin(c)
     \/ ReadsUnexpired /\ Unlocked /\ token = Null /\ StartLogin(c)
     \/ ReadsUnexpired /\ Unlocked /\ token # Null /\ Goes(c, "url") /\ UNCHANGED login
  /\ UNCHANGED <<client, valid, issued, trouble>>

(* The login of this caller is over in time. *)
LoginReturns(c) ==
  /\ caller[c].pc = "wait"
  /\ \E g \in Login :
       /\ login[g].pc = "done" /\ login[g].for = c
       /\ login' = [login EXCEPT ![g] = NoLogin]
       /\ IF login[g].err = "ok"
          THEN Goes(c, "url") /\ UNCHANGED trouble
          ELSE Ends(c, login[g].err) /\ Noted(c, "login")
  /\ UNCHANGED <<client, valid, issued>>

(* Mutant: the timer is there, but the goroutine is waited for all the same. *)
LoginTimesOut_joins(c) ==
  /\ May("timeout") /\ caller[c].pc = "wait"
  /\ \E g \in Login :
       /\ login[g].for = c /\ login[g].pc = "done"
       /\ login' = [login EXCEPT ![g] = NoLogin]
  /\ Ends(c, "error") /\ Noted(c, "login")
  /\ UNCHANGED <<client, valid, issued>>

(* RunWithTimeout gives up; the goroutine goes on.  (Should it write err at this
   very moment, the caller may return that one: LoginReturns.) *)
LoginTimesOut(c) ==
  /\ May("timeout") /\ caller[c].pc = "wait"
  /\ \E g \in Login :
       /\ login[g].for = c
       /\ login' = [login EXCEPT ![g] = IF @.pc = "done" THEN NoLogin
                                        ELSE [@ EXCEPT !.for = Null]]
  /\ Ends(c, "error") /\ Noted(c, "login")
  /\ UNCHANGED <<client, valid, issued>>

(* MakeServiceURL tests for a token once more, and the catalogue may lack the type
   of service that the request is for. *)
MakeURL(c) ==
  /\ caller[c].pc = "url" /\ Unlocked
  /\ \/ token # Null /\ urls /\ Goes(c, "token") /\ UNCHANGED trouble
     \/ /\ token # Null /\ (~urls \/ May("catalogue"))
        /\ Ends(c, "error") /\ Noted(c, "nourls")
     \/ token = Null /\ Ends(c, "error") /\ UNCHANGED trouble
  /\ UNCHANGED <<client, login, valid, issued>>

(* c.Token(), the argument of sendRequest: whatever it is by now. *)
ReadToken(c) ==
  /\ caller[c].pc = "token" /\ Unlocked
  /\ caller' = [caller EXCEPT ![c] = [@ EXCEPT !.pc = "send", !.used = token]]
  /\ UNCHANGED <<client, login, valid, issued, trouble>>

(* Mutant: a refused request is an error like any other. *)
Send_noRetry(c) ==
  /\ caller[c].pc = "send"
  /\ LET outcome == IF caller[c].used \in valid THEN "ok" ELSE "unauth"
     IN caller' = [caller EXCEPT ![c] =
                     [@ EXCEPT !.pc = "idle", !.used = Null, !.last = outcome]]
  /\ UNCHANGED <<client, login, valid, issued, trouble>>

(* sendRequest.  The service refuses a token that is no longer valid with a 401, and
   may forbid the request of a good one with a 403: handleError makes Unauthorised
   of both. *)
Send(c) ==
  /\ caller[c].pc = "send"
  /\ \/ caller[c].used \in valid /\ Ends(c, "ok")
        /\ trouble' = [trouble EXCEPT ![c] = {}]
     \/ caller[c].used \notin valid /\ Ends(c, "unauth") /\ UNCHANGED trouble
     \/ /\ May("forbid") /\ caller[c].used \in valid
        /\ Ends(c, "unauth") /\ Noted(c, "forbidden")
     \/ May("net") /\ Ends(c, "error") /\ Noted(c, "net")
  /\ UNCHANGED <<client, login, valid, issued>>

(* Mutant: the refused token is kept. *)
Clear_keep(c) ==
  /\ caller[c].pc = "clear" /\ Unlocked
  /\ caller' = [caller EXCEPT ![c] = [@ EXCEPT !.pc = "check", !.try = 2]]
  /\ trouble' = [trouble EXCEPT ![c] = {}]
  /\ UNCHANGED <<client, login, valid, issued>>

(* Mutant: the second try only repeats the request. *)
Clear_resend(c) ==
  /\ caller[c].pc = "clear" /\ Unlocked
  /\ token' = Null
  /\ caller' = [caller EXCEPT ![c] = [@ EXCEPT !.pc = "token", !.try = 2]]
  /\ trouble' = [d \in Caller |-> IF d = c THEN {}
                    ELSE IF Active(d) /\ token # Null THEN trouble[d] \cup {"wiped"}
                    ELSE trouble[d]]
  /\ UNCHANGED <<required, urls, expires, mu, login, valid, issued>>

(* setToken(""): wipes the client's token, be it the refused one or not. *)
Clear(c) ==
  /\ caller[c].pc = "clear" /\ Unlocked
  /\ token' = Null
  /\ caller' = [caller EXCEPT ![c] = [@ EXCEPT !.pc = "check", !.try = 2]]
  /\ trouble' = [d \in Caller |-> IF d = c THEN {}
                    ELSE IF Active(d) /\ token # Null THEN trouble[d] \cup {"wiped"}
                    ELSE trouble[d]]
  /\ UNCHANGED <<required, urls, expires, mu, login, valid, issued>>

-----------------------------------------------------------------------------
(* doAuthenticate, in the goroutine of RunWithTimeout *)

(* Mutant: the result is handed over, not announced: it needs a reader. *)
Done_handOver(g, err) ==
  login' = [login EXCEPT ![g] = [@ EXCEPT !.pc = "done", !.err = err]]

(* The goroutine ends; without a caller nobody looks at its result. *)
Done(g, err) ==
  login' = [login EXCEPT ![g] =
    IF @.for = Null THEN NoLogin ELSE [@ EXCEPT !.pc = "done", !.err = err]]

(* Mutant: the second look at the token, under the lock, is missing. *)
Lock_blind(g) ==
  /\ login[g].pc = "lock" /\ Unlocked
  /\ mu' = g /\ login' = [login EXCEPT ![g].pc = "call"]
  /\ UNCHANGED <<required, token, urls, expires, caller, valid, issued, trouble>>

(* Lock, and look whether somebody else has logged in. *)
Lock(g) ==
  /\ login[g].pc = "lock" /\ Unlocked
  /\ IF token # Null THEN Done(g, "ok") /\ UNCHANGED mu
     ELSE mu' = g /\ login' = [login EXCEPT ![g].pc = "call"]
  /\ UNCHANGED <<required, token, urls, expires, caller, valid, issued, trouble>>

(* Mutant: the token is set before the URLs are extracted. *)
LoggedIn_tokenFirst(g, k) ==
  /\ login[g].pc = "call" /\ k \in Token \ issued
  /\ issued' = issued \cup {k} /\ valid' = valid \cup {k}
  /\ mu' = Null /\ token' = k
  /\ \/ urls' = TRUE /\ expires' = "future" /\ Done(g, "ok")
     \/ May("catalogue") /\ ~urls /\ Done(g, "error") /\ UNCHANGED <<urls, expires>>
  /\ UNCHANGED <<required, caller, trouble>>

(* The identity service issues a token.  createServiceURLs, called only while
   there are no URLs, may find nothing for the client's region: an error if any
   service type is required, else no error and no URLs. *)
LoggedIn(g, k) ==
  /\ login[g].pc = "call" /\ k \in Token \ issued
  /\ issued' = issued \cup {k} /\ valid' = valid \cup {k}
  /\ mu' = Null
  /\ \/ urls' = TRUE /\ token' = k /\ expires' = "future" /\ Done(g, "ok")
     \/ /\ May("catalogue") /\ ~urls /\ UNCHANGED urls
        /\ IF required THEN Done(g, "error") /\ UNCHANGED <<token, expires>>
           ELSE token' = k /\ expires' = "future" /\ Done(g, "ok")
  /\ UNCHANGED <<required, caller, trouble>>

(* Mutant: the mutex is not released on an error. *)
LoginFails_locked(g) ==
  /\ login[g].pc = "call"
  /\ UNCHANGED mu
  /\ \/ May("refuse") /\ Done(g, "unauth")
     \/ (May("fail") \/ issued = Token) /\ Done(g, "error")
  /\ UNCHANGED <<required, token, urls, expires, caller, valid, issued, trouble>>

(* The identity service refuses the credentials or fails; so it does when the
   bound on tokens is reached. *)
LoginFails(g) ==
  /\ login[g].pc = "call"
  /\ mu' = Null
  /\ \/ May("refuse") /\ Done(g, "unauth")
     \/ (May("fail") \/ issued = Token) /\ Done(g, "error")
  /\ UNCHANGED <<required, token, urls, expires, caller, valid, issued, trouble>>

-----------------------------------------------------------------------------
(* The services *)

Revoke(k) ==
  /\ May("revoke") /\ k \in valid
  /\ valid' = valid \ {k}
  /\ trouble' = [c \in Caller |-> IF Active(c) THEN trouble[c] \cup {"revoked"}
                                  ELSE trouble[c]]
  /\ UNCHANGED <<client, caller, login, issued>>

Lapse ==
  /\ May("lapse") /\ expires = "future"
  /\ expires' = "past"
  /\ UNCHANGED <<required, token, urls, mu, caller, login, valid, issued, trouble>>

-----------------------------------------------------------------------------
Try(c) == \/ Check(c) \/ LoginReturns(c) \/ MakeURL(c) \/ ReadToken(c)
          \/ Send(c) \/ Clear(c)
DoAuthenticate(g) == Lock(g) \/ LoginFails(g) \/ \E k \in Token : LoggedIn(g, k)

Next == \/ \E c \in Caller : Begin(c) \/ Try(c) \/ LoginTimesOut(c)
        \/ \E g \in Login : DoAuthenticate(g)
        \/ \E k \in Token : Revoke(k)
        \/ Lapse

Spec == Init /\ [][Next]_vars

(* A goroutine that waits for the mutex gets it in its turn (SF), and the timer of a
   login goes off.  That a call to a service other than the identity service returns,
   with a result or an error, is assumed: the HTTP client sets no timeout. *)
Fairness == \A c \in Caller : SF_vars(Try(c)) /\ WF_vars(LoginTimesOut(c))
FairSpec == Spec /\ Fairness

(* The identity service answers too; it need not. *)
Answering == \A g \in Login : SF_vars(DoAuthenticate(g))

=============================================================================
