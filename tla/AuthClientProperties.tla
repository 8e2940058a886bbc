------------------------- MODULE AuthClientProperties -------------------------
(* What goose's authenticating client promises to the callers that share it. *)
EXTENDS AuthClient

(* One login at a time, and none while there is a token: callers that find the
   client without a token at once cause one call of the identity service, and
   no login replaces the token of another.
   (doAuthenticate 382-386; local_test.go "Too many callers of Auth function") *)
OneLogin ==
  /\ \A g, h \in Login : login[g].pc = "call" /\ login[h].pc = "call" => g = h
  /\ \A g \in Login : login[g].pc = "call" => mu = g /\ token = Null

(* A token comes with the URLs of its catalogue, for a client that requires some
   service type.  (doAuthenticate 398-407) *)
TokenHasURLs == required /\ token # Null => urls

(* A client made without a list of service types, too, reports an unknown region
   at the login.  (local_test.go 88-101) *)
RegionIsReported == token # Null => urls

(* A request goes out without a token only if another caller wiped it between
   MakeServiceURL and Token.  (sendAuthRequest 166-170) *)
SentBare(c) == caller[c].pc = "send" /\ caller[c].used = Null
NoBareSend == \A c \in Caller : SentBare(c) => "wiped" \in trouble[c]

(* A request fails only if its last try met trouble of its own (Trouble lists it: a
   failed login, a token revoked or wiped under it, a missing URL, a 403 or another
   error of the service): a token that was stale when the request began, a refusal
   at its first try, or somebody else's abandoned login are no reason.  (SendRequest 150-157) *)
FailsForReason ==
  \A c \in Caller :
    caller[c].pc = "idle" /\ caller[c].last # "ok" => trouble[c] # {}

(* A token that is still good is wiped only by a caller that was refused with
   another one, by one whose login was refused, or by one whose request a service
   forbade: a 403 counts as Unauthorised and costs everybody the good token.
   (setToken at 153; http/client.go 327) *)
WipesOnlyRefused ==
  [][token' = Null /\ token \in valid
     => \E c \in Caller :
          /\ caller[c].pc = "clear"
          /\ caller[c].used # token \/ "forbidden" \in trouble[c]]_vars

-----------------------------------------------------------------------------
(* While the identity service answers, every SendRequest returns, every login
   goroutine ends, and a token that was refused does not stay. *)
SendRequestReturns ==
  Answering => \A c \in Caller : (caller[c].pc # "idle") ~> (caller[c].pc = "idle")
LoginsEnd ==
  Answering => \A g \in Login : (login[g].pc # "free") ~> (login[g].pc = "free")
RefusedTokenGoes ==
  Answering => \A c \in Caller, k \in Token :
    (caller[c].pc = "clear" /\ caller[c].used = k) ~> (token # k)

(* Even while it does not answer, nobody waits in Authenticate for ever.
   (RunWithTimeout) *)
AuthenticateReturns ==
  \A c \in Caller : (caller[c].pc = "wait") ~> (caller[c].pc # "wait")

=============================================================================
