--------------------------- MODULE AuthClientProofs ---------------------------
(***************************************************************************)
(* Proofs about the authenticating client, for any number of callers,      *)
(* login goroutines and tokens and any set of faults.                      *)
(***************************************************************************)
EXTENDS AuthClientProperties, TLAPS

-----------------------------------------------------------------------------
(* Type correctness *)

USE NullAssumption DEF Noted, Unlocked, May

LEMMA InitTyped == Init => TypeOK
  BY DEF Init, TypeOK, CallerRec, LoginRec, NoLogin, Outcome

LEMMA EndsTyped ==
  ASSUME TypeOK, NEW c \in Caller, NEW outcome \in Outcome, Ends(c, outcome)
  PROVE  caller' \in [Caller -> CallerRec]
  <1>1. caller[c] \in CallerRec
    BY DEF TypeOK
  <1>2. [caller[c] EXCEPT !.pc = "clear"] \in CallerRec
    BY <1>1 DEF CallerRec
  <1>3. [caller[c] EXCEPT !.pc = "idle", !.used = Null, !.last = outcome] \in CallerRec
    BY <1>1 DEF CallerRec
  <1> QED
    BY <1>2, <1>3 DEF TypeOK, Ends

LEMMA GoesTyped ==
  ASSUME TypeOK, NEW c \in Caller, NEW pc, pc \in {"check", "wait", "url", "token"},
         Goes(c, pc)
  PROVE  caller' \in [Caller -> CallerRec]
  BY DEF TypeOK, CallerRec, Goes

LEMMA DoneTyped ==
  ASSUME TypeOK, NEW g \in Login, NEW err \in Outcome, Done(g, err)
  PROVE  login' \in [Login -> LoginRec]
  BY ZenonT(40) DEF TypeOK, LoginRec, NoLogin, Done, Outcome

LEMMA NotedTyped ==
  ASSUME TypeOK, NEW c \in Caller, NEW what \in Trouble, Noted(c, what)
  PROVE  trouble' \in [Caller -> SUBSET Trouble]
  BY DEF TypeOK

LEMMA TryTyped ==
  ASSUME TypeOK, NEW c \in Caller, Try(c) \/ Begin(c) \/ LoginTimesOut(c)
  PROVE  TypeOK'
  <1>1. CASE Begin(c)
    <2>0. caller[c] \in CallerRec
      BY DEF TypeOK
    <2>1. caller' \in [Caller -> CallerRec]
      <3>1. [caller[c] EXCEPT !.pc = "check", !.try = 1, !.last = "ok"] \in CallerRec
        BY <2>0 DEF CallerRec, Outcome
      <3> QED
        BY <1>1, <3>1 DEF Begin, TypeOK
    <2> QED
      BY <1>1, <2>1 DEF Begin, TypeOK, client
  <1>2. CASE Check(c)
    <2>1. /\ StartLogin(c) \/ (Goes(c, "url") /\ UNCHANGED login)
          /\ UNCHANGED <<client, valid, issued, trouble>>
      BY <1>2 DEF Check
    <2>2. caller' \in [Caller -> CallerRec]
      <3>1. Goes(c, "wait") \/ Goes(c, "url")
        BY <2>1 DEF StartLogin
      <3> QED
        BY <3>1, GoesTyped
    <2>3. login' \in [Login -> LoginRec]
      BY <2>1 DEF StartLogin, TypeOK, LoginRec, Outcome
    <2> QED
      BY <2>1, <2>2, <2>3 DEF TypeOK, client
  <1>3. CASE LoginReturns(c)
    <2> USE <1>3 DEF LoginReturns
    <2>1. PICK g \in Login :
            /\ login' = [login EXCEPT ![g] = NoLogin]
            /\ IF login[g].err = "ok" THEN Goes(c, "url") /\ UNCHANGED trouble
               ELSE Ends(c, login[g].err) /\ Noted(c, "login")
      OBVIOUS
    <2>2. login[g].err \in Outcome
      BY DEF TypeOK, LoginRec
    <2>3. caller' \in [Caller -> CallerRec] /\ trouble' \in [Caller -> SUBSET Trouble]
      BY <2>1, <2>2, EndsTyped, GoesTyped, NotedTyped DEF TypeOK, Trouble
    <2> QED
      BY <2>1, <2>3 DEF TypeOK, client, LoginRec, NoLogin, Outcome
  <1>4. CASE LoginTimesOut(c)
    <2> USE <1>4 DEF LoginTimesOut
    <2>1. caller' \in [Caller -> CallerRec] /\ trouble' \in [Caller -> SUBSET Trouble]
      BY EndsTyped, NotedTyped DEF Trouble, Outcome
    <2>2. login' \in [Login -> LoginRec]
      BY DEF TypeOK, LoginRec, NoLogin, Outcome
    <2> QED
      BY <2>1, <2>2 DEF TypeOK, client
  <1>5. CASE MakeURL(c)
    <2>1. caller' \in [Caller -> CallerRec] /\ trouble' \in [Caller -> SUBSET Trouble]
      BY <1>5, EndsTyped, GoesTyped, NotedTyped DEF MakeURL, Trouble, Outcome, TypeOK
    <2> QED
      BY <1>5, <2>1 DEF MakeURL, TypeOK, client
  <1>6. CASE ReadToken(c)
    <2>1. caller' \in [Caller -> CallerRec]
      <3>1. [caller[c] EXCEPT !.pc = "send", !.used = token] \in CallerRec
        <4>1. caller[c] \in CallerRec /\ token \in Token \cup {Null}
          BY DEF TypeOK
        <4> QED
          BY <4>1 DEF CallerRec
      <3> QED
        BY <1>6, <3>1 DEF ReadToken, TypeOK
    <2> QED
      BY <1>6, <2>1 DEF ReadToken, TypeOK, client
  <1>7. CASE Send(c)
    <2>1. caller' \in [Caller -> CallerRec] /\ trouble' \in [Caller -> SUBSET Trouble]
      BY <1>7, EndsTyped, NotedTyped DEF Send, Trouble, Outcome, TypeOK
    <2> QED
      BY <1>7, <2>1 DEF Send, TypeOK, client
  <1>8. CASE Clear(c)
    <2>1. caller' \in [Caller -> CallerRec]
      <3>1. [caller[c] EXCEPT !.pc = "check", !.try = 2] \in CallerRec
        <4>1. caller[c] \in CallerRec
          BY DEF TypeOK
        <4> QED
          BY <4>1 DEF CallerRec
      <3> QED
        BY <1>8, <3>1 DEF Clear, TypeOK
    <2>2. trouble' \in [Caller -> SUBSET Trouble]
      BY <1>8 DEF Clear, TypeOK, Trouble
    <2> QED
      BY <1>8, <2>1, <2>2 DEF Clear, TypeOK
  <1> QED
    BY <1>1, <1>2, <1>3, <1>4, <1>5, <1>6, <1>7, <1>8 DEF Try

LEMMA LoginTyped ==
  ASSUME TypeOK, NEW g \in Login, DoAuthenticate(g)
  PROVE  TypeOK'
  <1>1. CASE Lock(g)
    BY <1>1, DoneTyped DEF Lock, TypeOK, LoginRec, Outcome
  <1>2. CASE LoginFails(g)
    BY <1>2, DoneTyped DEF LoginFails, TypeOK, Outcome
  <1>3. ASSUME NEW k \in Token, LoggedIn(g, k) PROVE TypeOK'
    BY <1>3, DoneTyped DEF LoggedIn, TypeOK, Outcome
  <1> QED
    BY <1>1, <1>2, <1>3 DEF DoAuthenticate

LEMMA StepTyped == TypeOK /\ [Next]_vars => TypeOK'
  <1> SUFFICES ASSUME TypeOK, [Next]_vars PROVE TypeOK'
    OBVIOUS
  <1>1. CASE UNCHANGED vars
    BY <1>1 DEF vars, client, TypeOK
  <1>2. ASSUME NEW k \in Token, Revoke(k) PROVE TypeOK'
    BY <1>2 DEF Revoke, TypeOK, client, Trouble
  <1>3. CASE Lapse
    BY <1>3 DEF Lapse, TypeOK
  <1> QED
    BY <1>1, <1>2, <1>3, TryTyped, LoginTyped DEF Next

(* Every variable of the client and of its callers keeps its type. *)
THEOREM TypeCorrect == Spec => []TypeOK
  BY InitTyped, StepTyped, PTL DEF Spec

-----------------------------------------------------------------------------
(* One login at a time: the mutex is held exactly during a call of the identity
   service, and there is no token then. *)
Locked ==
  /\ \A g \in Login : login[g].pc = "call" => mu = g
  /\ mu # Null => login[mu].pc = "call" /\ token = Null

LEMMA DoneEffect ==
  ASSUME TypeOK, NEW g \in Login, NEW err \in Outcome, Done(g, err)
  PROVE  /\ \A h \in Login : h # g => login'[h] = login[h]
         /\ login'[g].pc \in {"free", "done"}
         /\ login'[g].for = login[g].for
         /\ login'[g].pc = "done" => login'[g].err = err
  <1>1. login[g] \in LoginRec /\ login \in [Login -> LoginRec]
    BY DEF TypeOK
  <1> QED
    BY <1>1 DEF Done, LoginRec, NoLogin

LEMMA LockedInit == Init => Locked
  BY DEF Init, Locked, NoLogin

LEMMA LockedStep == TypeOK /\ Locked /\ [Next]_vars => Locked'
  <1> SUFFICES ASSUME TypeOK, Locked, [Next]_vars PROVE Locked'
    OBVIOUS
  <1> USE DEF Locked
  <1>1. CASE UNCHANGED vars
    BY <1>1 DEF vars, client
  <1>2. ASSUME NEW c \in Caller, UNCHANGED <<client, login>> PROVE Locked'
    BY <1>2 DEF client
  <1>3. ASSUME NEW c \in Caller, Check(c) PROVE Locked'
    BY <1>3 DEF Check, StartLogin, TypeOK, client, LoginRec
  <1>4. ASSUME NEW c \in Caller, LoginReturns(c) PROVE Locked'
    BY <1>4 DEF LoginReturns, TypeOK, client, LoginRec, NoLogin
  <1>5. ASSUME NEW c \in Caller, LoginTimesOut(c) PROVE Locked'
    BY <1>5 DEF LoginTimesOut, TypeOK, client, LoginRec, NoLogin
  <1>6. ASSUME NEW c \in Caller, Clear(c) PROVE Locked'
    BY <1>6 DEF Clear
  <1>7. ASSUME NEW g \in Login, Lock(g) PROVE Locked'
    <2>1. CASE token # Null
      BY <1>7, <2>1, DoneEffect DEF Lock, Outcome
    <2>2. CASE token = Null
      BY <1>7, <2>2 DEF Lock, TypeOK, LoginRec
    <2> QED
      BY <2>1, <2>2
  <1>8. ASSUME NEW g \in Login, NEW k \in Token, LoggedIn(g, k) PROVE Locked'
    <2>1. mu' = Null /\ \E err \in Outcome : Done(g, err)
      BY <1>8 DEF LoggedIn, Outcome
    <2> QED
      BY <1>8, <2>1, DoneEffect DEF LoggedIn
  <1>9. ASSUME NEW g \in Login, LoginFails(g) PROVE Locked'
    <2>1. mu' = Null /\ \E err \in Outcome : Done(g, err)
      BY <1>9 DEF LoginFails, Outcome
    <2> QED
      BY <1>9, <2>1, DoneEffect DEF LoginFails
  <1>10. ASSUME NEW k \in Token, Revoke(k) PROVE Locked'
    BY <1>10 DEF Revoke, client
  <1>11. CASE Lapse
    BY <1>11 DEF Lapse
  <1> QED
    BY <1>1, <1>2, <1>3, <1>4, <1>5, <1>6, <1>7, <1>8, <1>9, <1>10, <1>11
       DEF Next, Try, DoAuthenticate, Begin, MakeURL, ReadToken, Send

LEMMA AlwaysLocked == Spec => [](TypeOK /\ Locked)
  BY InitTyped, StepTyped, LockedInit, LockedStep, PTL DEF Spec

(* Two logins never run at a time, and none runs while there is a token
   (doAuthenticate's second look under the lock). *)
THEOREM LoginsAreExclusive == Spec => []OneLogin
  <1>1. TypeOK /\ Locked => OneLogin
    BY DEF TypeOK, Locked, OneLogin
  <1> QED
    BY <1>1, AlwaysLocked, PTL

-----------------------------------------------------------------------------
LEMMA EquippedStep == TypeOK /\ TokenHasURLs /\ [Next]_vars => TokenHasURLs'
  <1> SUFFICES ASSUME TypeOK, TokenHasURLs, [Next]_vars PROVE TokenHasURLs'
    OBVIOUS
  <1>1. CASE UNCHANGED <<required, token, urls>>
    BY <1>1 DEF TokenHasURLs
  <1>2. ASSUME NEW c \in Caller, Clear(c) PROVE TokenHasURLs'
    BY <1>2 DEF Clear, TokenHasURLs
  <1>3. ASSUME NEW g \in Login, NEW k \in Token, LoggedIn(g, k) PROVE TokenHasURLs'
    BY <1>3 DEF LoggedIn, TokenHasURLs, TypeOK
  <1> QED
    BY <1>1, <1>2, <1>3
       DEF Next, Try, DoAuthenticate, Begin, Check, LoginReturns, LoginTimesOut,
           MakeURL, ReadToken, Send, Lock, LoginFails, Revoke, Lapse, vars, client

(* A client that requires a service type holds a token only together with service
   URLs: the token is set last (doAuthenticate 398-408). *)
THEOREM TokensComeWithURLs == Spec => []TokenHasURLs
  <1>1. Init => TokenHasURLs
    BY DEF Init, TokenHasURLs
  <1> QED
    BY <1>1, InitTyped, StepTyped, EquippedStep, PTL DEF Spec

-----------------------------------------------------------------------------
(* Why a request fails *)

(* What the steps of a caller do to the callers' records, field by field. *)
LEMMA EndsEffect ==
  ASSUME TypeOK, NEW c \in Caller, NEW outcome \in Outcome, Ends(c, outcome)
  PROVE  /\ \A d \in Caller : d # c => caller'[d] = caller[d]
         /\ caller'[c].try = caller[c].try
         /\ IF outcome = "unauth" /\ caller[c].try = 1
            THEN caller'[c].pc = "clear" /\ caller'[c].used = caller[c].used
            ELSE /\ caller'[c].pc = "idle" /\ caller'[c].used = Null
                 /\ caller'[c].last = outcome
  <1>1. caller[c] \in CallerRec /\ caller \in [Caller -> CallerRec]
    BY DEF TypeOK
  <1>2. \A d \in Caller : d # c => caller'[d] = caller[d]
    BY <1>1 DEF Ends
  <1>3. caller'[c] = IF outcome = "unauth" /\ caller[c].try = 1
                     THEN [caller[c] EXCEPT !.pc = "clear"]
                     ELSE [caller[c] EXCEPT !.pc = "idle", !.used = Null, !.last = outcome]
    BY <1>1 DEF Ends
  <1> QED
    BY <1>1, <1>2, <1>3 DEF CallerRec

LEMMA GoesEffect ==
  ASSUME TypeOK, NEW c \in Caller, NEW pc, Goes(c, pc)
  PROVE  /\ \A d \in Caller : d # c => caller'[d] = caller[d]
         /\ caller'[c].pc = pc
         /\ caller'[c].try = caller[c].try /\ caller'[c].used = caller[c].used
  <1>1. caller[c] \in CallerRec /\ caller \in [Caller -> CallerRec]
    BY DEF TypeOK
  <1> QED
    BY <1>1 DEF Goes, CallerRec

(* A login goroutine belongs to the one caller that waits for it. *)
Linked ==
  /\ \A g \in Login : login[g].for # Null => caller[login[g].for].pc = "wait"
  /\ \A g, h \in Login :
       login[g].for # Null /\ login[g].for = login[h].for => g = h
  /\ \A g \in Login : login[g].pc = "free" => login[g].for = Null

(* A caller about to wipe the token was refused with one that is not valid, or its
   request was forbidden. *)
Refused(c) ==
  /\ caller[c].pc = "idle" => caller[c].used = Null
  /\ caller[c].try = 1 /\ caller[c].pc \notin {"send", "clear"} => caller[c].used = Null
  /\ caller[c].pc = "clear" =>
       caller[c].used \notin valid \/ "forbidden" \in trouble[c]
  /\ caller[c].used \in issued \cup {Null}

(* While nothing has gone wrong in its try, a caller that found a token still has
   one, and in its second try that token is valid. *)
Sound(c) ==
  caller[c].pc # "idle" /\ trouble[c] = {} =>
    /\ caller[c].pc \in {"url", "token"} => token # Null
    /\ caller[c].pc = "send" => caller[c].used # Null
    /\ caller[c].try = 2 => token \in valid \cup {Null}
    /\ caller[c].try = 2 /\ caller[c].pc = "send" => caller[c].used \in valid
    /\ \A g \in Login :
         /\ login[g].for = c /\ login[g].pc = "done" /\ login[g].err = "ok"
         => token # Null

Explained == /\ token \in issued \cup {Null}
             /\ Linked
             /\ \A c \in Caller : Refused(c) /\ Sound(c)
             /\ FailsForReason

LEMMA ExplainedInit == Init => Explained
  BY DEF Init, Explained, Linked, Refused, Sound, FailsForReason, NoLogin

(* A step of one caller leaves the others' part of the invariant alone if it keeps
   the token or adds to their trouble. *)
LEMMA Others ==
  ASSUME TypeOK, Explained, NEW c \in Caller,
         \A d \in Caller : d # c => caller'[d] = caller[d] /\ trouble'[d] = trouble[d],
         \A d \in Caller, g \in Login :
           d # c /\ login'[g].for = d => login'[g] = login[g],
         UNCHANGED <<token, valid, issued>>,
         NEW d \in Caller, d # c
  PROVE  Refused(d)' /\ Sound(d)'
  BY DEF Explained, Refused, Sound

LEMMA BeginExplained ==
  ASSUME TypeOK, Explained, NEW c \in Caller, Begin(c)
  PROVE  Explained'
  <1> USE DEF Explained
  <1>1. /\ caller[c].pc = "idle" /\ UNCHANGED <<token, valid, issued, login>>
        /\ \A d \in Caller : d # c => caller'[d] = caller[d] /\ trouble'[d] = trouble[d]
    BY DEF Begin, client, TypeOK
  <1>2. /\ caller'[c].pc = "check" /\ caller'[c].try = 1
        /\ caller'[c].used = caller[c].used /\ trouble'[c] = {}
    <2>1. caller[c] \in CallerRec
      BY DEF TypeOK
    <2>2. caller'[c] = [caller[c] EXCEPT !.pc = "check", !.try = 1, !.last = "ok"]
      BY DEF Begin, TypeOK
    <2>3. trouble'[c] = {}
      BY DEF Begin, TypeOK
    <2> QED
      BY <2>1, <2>2, <2>3 DEF CallerRec
  <1>3. Linked'
    BY <1>1, <1>2 DEF Linked, TypeOK, LoginRec
  <1>4. Refused(c)' /\ Sound(c)'
    BY <1>1, <1>2 DEF Refused, Sound, Linked
  <1>5. FailsForReason'
    BY <1>1, <1>2 DEF FailsForReason
  <1> QED
    BY <1>1, <1>3, <1>4, <1>5, Others

LEMMA CheckExplained ==
  ASSUME TypeOK, Explained, NEW c \in Caller, Check(c)
  PROVE  Explained'
  <1> USE DEF Explained
  <1>1. /\ caller[c].pc = "check"
        /\ UNCHANGED <<token, valid, issued, trouble>>
    BY DEF Check, client
  <1>2. CASE StartLogin(c)
    <2>1. PICK g \in Login :
            /\ login[g].pc = "free"
            /\ login' = [login EXCEPT ![g] = [pc |-> "lock", for |-> c, err |-> "ok"]]
            /\ Goes(c, "wait")
      BY <1>2 DEF StartLogin
    <2>2. /\ \A h \in Login : h # g => login'[h] = login[h]
          /\ login'[g] = [pc |-> "lock", for |-> c, err |-> "ok"]
      BY <2>1 DEF TypeOK
    <2>3. Linked'
      BY <1>1, <2>1, <2>2, GoesEffect DEF Linked, TypeOK, LoginRec
    <2>4. Refused(c)' /\ Sound(c)'
      BY <1>1, <2>1, <2>2, GoesEffect DEF Refused, Sound, Linked
    <2>5. FailsForReason'
      BY <1>1, <2>1, GoesEffect DEF FailsForReason
    <2> QED
      BY <1>1, <2>1, <2>2, <2>3, <2>4, <2>5, GoesEffect, Others
  <1>3. CASE token # Null /\ Goes(c, "url") /\ UNCHANGED login
    <2>1. Linked'
      BY <1>1, <1>3, GoesEffect DEF Linked, TypeOK, LoginRec
    <2>2. Refused(c)' /\ Sound(c)'
      BY <1>1, <1>3, GoesEffect DEF Refused, Sound, Linked
    <2>3. FailsForReason'
      BY <1>1, <1>3, GoesEffect DEF FailsForReason
    <2> QED
      BY <1>1, <1>3, <2>1, <2>2, <2>3, GoesEffect, Others
  <1> QED
    BY <1>2, <1>3 DEF Check

(* The end of a try with an error that has been noted. *)
LEMMA FailureExplained ==
  ASSUME TypeOK, Explained, NEW c \in Caller, NEW outcome \in Outcome \ {"ok"},
         Ends(c, outcome),
         outcome = "unauth" /\ caller[c].try = 1
           => caller[c].used \notin valid \/ "forbidden" \in trouble'[c],
         \/ trouble'[c] # {}
         \/ outcome = "unauth" /\ caller[c].try = 1,
         \A d \in Caller : d # c => trouble'[d] = trouble[d],
         \A g \in Login : login[g].for # c => login'[g] = login[g],
         \A g \in Login : login'[g].for # c,
         \A g \in Login : login[g].for = c =>
              \/ login'[g].for = Null /\ login'[g].pc # "done"
              \/ login'[g] = login[g],
         UNCHANGED <<token, valid, issued>>
  PROVE  Explained'
  <1> USE DEF Explained
  <1>1. /\ \A d \in Caller : d # c => caller'[d] = caller[d]
        /\ caller'[c].pc \in {"idle", "clear"}
        /\ caller'[c].try = caller[c].try
      BY EndsEffect
  <1>2. Linked'
    <2>1. ASSUME NEW g \in Login, login'[g].for # Null PROVE login'[g] = login[g]
      BY <2>1
    <2>2. ASSUME NEW g \in Login PROVE login'[g].pc = "free" => login'[g].for = Null
      BY DEF Linked
    <2>3. ASSUME NEW g \in Login, login'[g].for # Null
          PROVE  caller'[login'[g].for].pc = "wait"
      <3>1. login[g].for \in Caller /\ login[g].for # c /\ login'[g].for = login[g].for
        BY <2>1, <2>3 DEF TypeOK, LoginRec
      <3> QED
        BY <3>1, <2>3, <1>1 DEF Linked
    <2> QED
      BY <2>1, <2>2, <2>3 DEF Linked
  <1>3. Refused(c)' /\ Sound(c)'
    BY <1>1, EndsEffect DEF Refused, Sound
  <1>4. FailsForReason'
    BY <1>1, EndsEffect DEF FailsForReason
  <1> QED
    BY <1>1, <1>2, <1>3, <1>4, Others

LEMMA LoginReturnsExplained ==
  ASSUME TypeOK, Explained, NEW c \in Caller, LoginReturns(c)
  PROVE  Explained'
  <1> USE DEF Explained
  <1>1. PICK g \in Login :
          /\ login[g].pc = "done" /\ login[g].for = c
          /\ login' = [login EXCEPT ![g] = NoLogin]
          /\ IF login[g].err = "ok"
             THEN Goes(c, "url") /\ UNCHANGED trouble
             ELSE Ends(c, login[g].err) /\ Noted(c, "login")
    BY DEF LoginReturns
  <1>2. /\ caller[c].pc = "wait" /\ UNCHANGED <<token, valid, issued>>
        /\ login[g].err \in Outcome
    BY DEF LoginReturns, client, TypeOK, LoginRec
  <1>3. /\ \A h \in Login : h # g => login'[h] = login[h]
        /\ login'[g] = NoLogin
        /\ \A h \in Login : h # g => login[h].for # c
    BY <1>1 DEF TypeOK, Linked
  <1>4. CASE login[g].err = "ok"
    <2>1. Goes(c, "url") /\ UNCHANGED trouble
      BY <1>1, <1>4
    <2>2. Linked'
      <3>1. NoLogin.for = Null /\ NoLogin.pc = "free"
        BY DEF NoLogin
      <3>2. \A h \in Login : login[h].for \in Caller \cup {Null}
        BY DEF TypeOK, LoginRec
      <3>3. \A d \in Caller : d # c => caller'[d] = caller[d]
        BY <2>1, GoesEffect
      <3>4. \A h \in Login : login'[h].for # Null =>
              /\ h # g /\ login'[h] = login[h]
              /\ login[h].for \in Caller /\ login[h].for # c
        BY <1>3, <3>1, <3>2
      <3>5. \A h \in Login : login'[h].pc = "free" => login'[h].for = Null
        BY <1>3, <3>1 DEF Linked
      <3> QED
        BY <3>3, <3>4, <3>5 DEF Linked
    <2>3. Refused(c)' /\ Sound(c)'
      BY <1>1, <1>2, <1>3, <1>4, <2>1, GoesEffect DEF Refused, Sound, NoLogin
    <2>4. FailsForReason'
      BY <1>2, <2>1, GoesEffect DEF FailsForReason
    <2>5. \A d \in Caller, h \in Login : login'[h].for = d => login'[h] = login[h]
      BY <1>3 DEF NoLogin
    <2> QED
      BY <1>2, <2>1, <2>2, <2>3, <2>4, <2>5, GoesEffect, Others
  <1>5. CASE login[g].err # "ok"
    <2>1. Ends(c, login[g].err) /\ Noted(c, "login")
      BY <1>1, <1>5
    <2>2. /\ trouble'[c] # {}
          /\ \A d \in Caller : d # c => trouble'[d] = trouble[d]
      BY <2>1 DEF TypeOK
    <2>3. caller[c].try = 1 => caller[c].used = Null
      BY <1>2 DEF Refused
    <2>4. Null \notin valid
      BY DEF TypeOK
    <2>5. \A h \in Login : login'[h].for # c
      BY <1>3 DEF NoLogin
    <2> QED
      BY <1>1, <1>2, <1>3, <1>5, <2>1, <2>2, <2>3, <2>4, <2>5, FailureExplained DEF NoLogin
  <1> QED
    BY <1>4, <1>5

LEMMA LoginTimesOutExplained ==
  ASSUME TypeOK, Explained, NEW c \in Caller, LoginTimesOut(c)
  PROVE  Explained'
  <1> USE DEF Explained
  <1>1. PICK g \in Login :
          /\ login[g].for = c
          /\ login' = [login EXCEPT ![g] = IF @.pc = "done" THEN NoLogin
                                           ELSE [@ EXCEPT !.for = Null]]
    BY DEF LoginTimesOut
  <1>2. /\ caller[c].pc = "wait" /\ UNCHANGED <<token, valid, issued>>
        /\ Ends(c, "error") /\ trouble'[c] # {}
        /\ \A d \in Caller : d # c => trouble'[d] = trouble[d]
    BY DEF LoginTimesOut, client, TypeOK
  <1>3. /\ \A h \in Login : h # g => login'[h] = login[h]
        /\ login'[g].for = Null /\ login'[g].pc # "done"
    <2>1. login[g] \in LoginRec /\ login \in [Login -> LoginRec]
      BY DEF TypeOK
    <2>2. login'[g] = IF login[g].pc = "done" THEN NoLogin
                      ELSE [login[g] EXCEPT !.for = Null]
      BY <1>1, <2>1
    <2>3. \A h \in Login : h # g => login'[h] = login[h]
      BY <1>1, <2>1
    <2> QED
      BY <2>1, <2>2, <2>3 DEF LoginRec, NoLogin
  <1>4. \A h \in Login : h # g => login[h].for # c
    BY <1>1 DEF Linked
  <1> QED
    BY <1>1, <1>2, <1>3, <1>4, FailureExplained DEF Outcome

LEMMA MakeURLExplained ==
  ASSUME TypeOK, Explained, NEW c \in Caller, MakeURL(c)
  PROVE  Explained'
  <1> USE DEF Explained
  <1>1. /\ caller[c].pc = "url" /\ UNCHANGED <<token, valid, issued, login>>
        /\ \A g \in Login : login[g].for # c
    BY DEF MakeURL, client, Linked
  <1>2. CASE token # Null /\ Goes(c, "token") /\ UNCHANGED trouble
    <2>1. Linked'
      BY <1>1, <1>2, GoesEffect DEF Linked, TypeOK, LoginRec
    <2>2. Refused(c)' /\ Sound(c)'
      BY <1>1, <1>2, GoesEffect DEF Refused, Sound
    <2>3. FailsForReason'
      BY <1>1, <1>2, GoesEffect DEF FailsForReason
    <2> QED
      BY <1>1, <1>2, <2>1, <2>2, <2>3, GoesEffect, Others
  <1>3. CASE Ends(c, "error") /\ Noted(c, "nourls")
    <2>1. /\ trouble'[c] # {}
          /\ \A d \in Caller : d # c => trouble'[d] = trouble[d]
      BY <1>3 DEF TypeOK
    <2> QED
      BY <1>1, <1>3, <2>1, FailureExplained DEF Outcome
  <1>4. CASE token = Null /\ Ends(c, "error") /\ UNCHANGED trouble
    <2>1. trouble'[c] # {}
      BY <1>1, <1>4 DEF Sound
    <2> QED
      BY <1>1, <1>4, <2>1, FailureExplained DEF Outcome
  <1> QED
    BY <1>2, <1>3, <1>4 DEF MakeURL

LEMMA ReadTokenExplained ==
  ASSUME TypeOK, Explained, NEW c \in Caller, ReadToken(c)
  PROVE  Explained'
  <1> USE DEF Explained
  <1>1. /\ caller[c].pc = "token"
        /\ UNCHANGED <<token, valid, issued, login, trouble>>
    BY DEF ReadToken, client
  <1>2. /\ \A d \in Caller : d # c => caller'[d] = caller[d]
        /\ caller'[c].pc = "send" /\ caller'[c].used = token
        /\ caller'[c].try = caller[c].try
    <2>1. caller[c] \in CallerRec
      BY DEF TypeOK
    <2>2. caller'[c] = [caller[c] EXCEPT !.pc = "send", !.used = token]
      BY DEF ReadToken, TypeOK
    <2>3. \A d \in Caller : d # c => caller'[d] = caller[d]
      BY DEF ReadToken, TypeOK
    <2> QED
      BY <2>1, <2>2, <2>3 DEF CallerRec
  <1>3. Linked'
    BY <1>1, <1>2 DEF Linked, TypeOK, LoginRec
  <1>4. Refused(c)' /\ Sound(c)'
    BY <1>1, <1>2 DEF Refused, Sound
  <1>5. FailsForReason'
    BY <1>1, <1>2 DEF FailsForReason
  <1> QED
    BY <1>1, <1>2, <1>3, <1>4, <1>5, Others

LEMMA SendExplained ==
  ASSUME TypeOK, Explained, NEW c \in Caller, Send(c)
  PROVE  Explained'
  <1> USE DEF Explained
  <1>1. /\ caller[c].pc = "send" /\ UNCHANGED <<token, valid, issued, login>>
        /\ \A g \in Login : login[g].for # c
    BY DEF Send, client, Linked
  <1>2. CASE Ends(c, "ok") /\ trouble' = [trouble EXCEPT ![c] = {}]
    <2>1. /\ caller'[c].pc = "idle" /\ caller'[c].used = Null /\ caller'[c].last = "ok"
          /\ \A d \in Caller : d # c => caller'[d] = caller[d] /\ trouble'[d] = trouble[d]
      BY <1>2, EndsEffect DEF Outcome, TypeOK
    <2>2. Linked'
      BY <1>1, <2>1 DEF Linked, TypeOK, LoginRec
    <2>3. Refused(c)' /\ Sound(c)'
      BY <1>1, <2>1 DEF Refused, Sound
    <2>4. FailsForReason'
      BY <2>1 DEF FailsForReason
    <2> QED
      BY <1>1, <2>1, <2>2, <2>3, <2>4, Others
  <1>3. CASE caller[c].used \notin valid /\ Ends(c, "unauth") /\ UNCHANGED trouble
    <2>1. caller[c].try = 2 => trouble'[c] # {}
      BY <1>1, <1>3 DEF Sound
    <2>2. caller[c].try \in {1, 2}
      BY DEF TypeOK, CallerRec
    <2> QED
      BY <1>1, <1>3, <2>1, <2>2, FailureExplained DEF Outcome
  <1>4. CASE Ends(c, "unauth") /\ Noted(c, "forbidden")
    <2>1. /\ "forbidden" \in trouble'[c]
          /\ \A d \in Caller : d # c => trouble'[d] = trouble[d]
      BY <1>4 DEF TypeOK
    <2> QED
      BY <1>1, <1>4, <2>1, FailureExplained DEF Outcome
  <1>5. CASE Ends(c, "error") /\ Noted(c, "net")
    <2>1. /\ trouble'[c] # {}
          /\ \A d \in Caller : d # c => trouble'[d] = trouble[d]
      BY <1>5 DEF TypeOK
    <2> QED
      BY <1>1, <1>5, <2>1, FailureExplained DEF Outcome
  <1> QED
    BY <1>2, <1>3, <1>4, <1>5 DEF Send

LEMMA ClearExplained ==
  ASSUME TypeOK, Explained, NEW c \in Caller, Clear(c)
  PROVE  Explained'
  <1> USE DEF Explained
  <1>1. /\ caller[c].pc = "clear" /\ UNCHANGED <<valid, issued, login>> /\ token' = Null
        /\ \A g \in Login : login[g].for # c
    BY DEF Clear, Linked
  <1>2. /\ \A d \in Caller : d # c => caller'[d] = caller[d]
        /\ caller'[c].pc = "check" /\ caller'[c].try = 2
        /\ caller'[c].used = caller[c].used
    <2>1. caller[c] \in CallerRec
      BY DEF TypeOK
    <2>2. caller'[c] = [caller[c] EXCEPT !.pc = "check", !.try = 2]
      BY DEF Clear, TypeOK
    <2>3. \A d \in Caller : d # c => caller'[d] = caller[d]
      BY DEF Clear, TypeOK
    <2> QED
      BY <2>1, <2>2, <2>3 DEF CallerRec
  <1>3. /\ trouble'[c] = {}
        /\ \A d \in Caller : d # c /\ (caller[d].pc = "idle" \/ token = Null)
                            => trouble'[d] = trouble[d]
        /\ \A d \in Caller : d # c /\ caller[d].pc # "idle" /\ token # Null
                            => trouble'[d] # {} /\ trouble[d] \subseteq trouble'[d]
    BY DEF Clear, TypeOK, Active
  <1>4. Linked'
    BY <1>1, <1>2 DEF Linked, TypeOK, LoginRec
  <1>5. Refused(c)' /\ Sound(c)'
    BY <1>1, <1>2, <1>3 DEF Refused, Sound
  <1>6. FailsForReason'
    BY <1>2, <1>3 DEF FailsForReason
  <1>7. ASSUME NEW d \in Caller, d # c PROVE Refused(d)' /\ Sound(d)'
    BY <1>1, <1>2, <1>3, <1>7 DEF Refused, Sound
  <1> QED
    BY <1>1, <1>4, <1>5, <1>6, <1>7

(* A step of a login goroutine that ends or goes on. *)
LEMMA LoginStepLinked ==
  ASSUME TypeOK, Linked, NEW g \in Login, UNCHANGED caller,
         \A h \in Login : h # g => login'[h] = login[h],
         login'[g].for = login[g].for,
         login'[g].pc = "free" => login'[g].for = Null
  PROVE  Linked'
  BY DEF Linked

LEMMA DoneFree ==
  ASSUME TypeOK, NEW g \in Login, NEW err \in Outcome, Done(g, err)
  PROVE  login'[g].pc = "free" => login'[g].for = Null
  <1>1. login[g] \in LoginRec /\ login \in [Login -> LoginRec]
    BY DEF TypeOK
  <1> QED
    BY <1>1 DEF Done, LoginRec, NoLogin

LEMMA LockExplained ==
  ASSUME TypeOK, Explained, NEW g \in Login, Lock(g)
  PROVE  Explained'
  <1> USE DEF Explained
  <1>1. UNCHANGED <<token, caller, valid, issued, trouble>>
    BY DEF Lock
  <1>2. FailsForReason'
    BY <1>1 DEF FailsForReason
  <1>3. CASE token # Null /\ Done(g, "ok")
    <2>1. Linked'
      BY <1>1, <1>3, DoneEffect, DoneFree, LoginStepLinked DEF Outcome
    <2>2. ASSUME NEW c \in Caller PROVE Refused(c)' /\ Sound(c)'
      BY <1>1, <1>3 DEF Refused, Sound
    <2> QED
      BY <1>1, <1>2, <2>1, <2>2
  <1>4. CASE login' = [login EXCEPT ![g].pc = "call"]
    <2>1. /\ \A h \in Login : h # g => login'[h] = login[h]
          /\ login'[g].for = login[g].for /\ login'[g].pc = "call"
      BY <1>4 DEF TypeOK, LoginRec
    <2>2. Linked'
      BY <1>1, <2>1, LoginStepLinked
    <2>3. ASSUME NEW c \in Caller PROVE Refused(c)' /\ Sound(c)'
      BY <1>1, <2>1 DEF Refused, Sound
    <2> QED
      BY <1>1, <1>2, <2>2, <2>3
  <1> QED
    BY <1>3, <1>4 DEF Lock

LEMMA LoggedInExplained ==
  ASSUME TypeOK, Locked, Explained, NEW g \in Login, NEW k \in Token, LoggedIn(g, k)
  PROVE  Explained'
  <1> USE DEF Explained
  <1>1. /\ UNCHANGED <<caller, trouble>> /\ token = Null /\ k \notin issued
        /\ issued' = issued \cup {k} /\ valid' = valid \cup {k}
    BY DEF LoggedIn, Locked, TypeOK
  <1>2. PICK err \in Outcome : Done(g, err) /\ (err = "ok" => token' = k)
                              /\ token' \in {token, k}
    BY DEF LoggedIn, Outcome
  <1>3. Linked'
    BY <1>1, <1>2, DoneEffect, DoneFree, LoginStepLinked
  <1>4. FailsForReason'
    BY <1>1 DEF FailsForReason
  <1>5. k # Null /\ Null \notin issued
    BY DEF TypeOK
  <1>6. ASSUME NEW c \in Caller PROVE Refused(c)'
    <2>1. caller[c].used # k
      BY <1>1, <1>5 DEF Refused
    <2> QED
      BY <1>1, <2>1 DEF Refused
  <1>7. ASSUME NEW c \in Caller PROVE Sound(c)'
    <2>1. ASSUME NEW h \in Login, login'[h].for = c, login'[h].pc = "done",
                 login'[h].err = "ok", caller[c].pc # "idle", trouble[c] = {}
          PROVE  token' # Null
      <3>1. CASE h = g
        BY <1>2, <1>5, <2>1, <3>1, DoneEffect
      <3>2. CASE h # g
        BY <1>1, <1>2, <2>1, <3>2, DoneEffect DEF Sound
      <3> QED
        BY <3>1, <3>2
    <2> QED
      BY <1>1, <1>2, <1>5, <2>1 DEF Sound
  <1> QED
    BY <1>1, <1>2, <1>3, <1>4, <1>6, <1>7

LEMMA LoginFailsExplained ==
  ASSUME TypeOK, Explained, NEW g \in Login, LoginFails(g)
  PROVE  Explained'
  <1> USE DEF Explained
  <1>1. UNCHANGED <<token, caller, valid, issued, trouble>>
    BY DEF LoginFails
  <1>2. PICK err \in Outcome \ {"ok"} : Done(g, err)
    BY DEF LoginFails, Outcome
  <1>3. Linked'
    BY <1>1, <1>2, DoneEffect, DoneFree, LoginStepLinked
  <1>4. FailsForReason'
    BY <1>1 DEF FailsForReason
  <1>5. ASSUME NEW c \in Caller PROVE Refused(c)' /\ Sound(c)'
    BY <1>1, <1>2, DoneEffect DEF Refused, Sound
  <1> QED
    BY <1>1, <1>3, <1>4, <1>5

LEMMA RevokeExplained ==
  ASSUME TypeOK, Explained, NEW k \in Token, Revoke(k)
  PROVE  Explained'
  <1> USE DEF Explained
  <1>1. /\ UNCHANGED <<token, caller, login, issued>> /\ valid' \subseteq valid
        /\ \A c \in Caller : caller[c].pc # "idle"
             => trouble'[c] # {} /\ trouble[c] \subseteq trouble'[c]
        /\ \A c \in Caller : caller[c].pc = "idle" => trouble'[c] = trouble[c]
    BY DEF Revoke, TypeOK, client, Active
  <1>2. Linked'
    BY <1>1 DEF Linked
  <1>3. FailsForReason'
    BY <1>1 DEF FailsForReason
  <1>4. ASSUME NEW c \in Caller PROVE Refused(c)' /\ Sound(c)'
    BY <1>1 DEF Refused, Sound
  <1> QED
    BY <1>1, <1>2, <1>3, <1>4

LEMMA ExplainedStep == TypeOK /\ Locked /\ Explained /\ [Next]_vars => Explained'
  <1> SUFFICES ASSUME TypeOK, Locked, Explained, [Next]_vars PROVE Explained'
    OBVIOUS
  <1>1. CASE UNCHANGED <<token, caller, login, valid, issued, trouble>>
    BY <1>1 DEF Explained, Linked, Refused, Sound, FailsForReason
  <1> QED
    BY <1>1, BeginExplained, CheckExplained, LoginReturnsExplained, LoginTimesOutExplained,
       MakeURLExplained, ReadTokenExplained, SendExplained, ClearExplained,
       LockExplained, LoggedInExplained, LoginFailsExplained, RevokeExplained
       DEF Next, Try, DoAuthenticate, Lapse, vars, client

LEMMA AlwaysExplained == Spec => [](TypeOK /\ Locked /\ Explained)
  BY InitTyped, StepTyped, LockedInit, LockedStep, ExplainedInit, ExplainedStep, PTL
     DEF Spec

(* SendRequest fails only if its last try met trouble of its own. *)
THEOREM FailuresAreExplained == Spec => []FailsForReason
  <1>1. Explained => FailsForReason
    BY DEF Explained
  <1> QED
    BY <1>1, AlwaysExplained, PTL

(* The token that MakeServiceURL saw is still there when Token reads it, or another
   caller has wiped it. *)
Held ==
  \A c \in Caller :
    /\ caller[c].pc = "token" => token # Null \/ "wiped" \in trouble[c]
    /\ caller[c].pc = "send" => caller[c].used # Null \/ "wiped" \in trouble[c]

LEMMA HeldStep == TypeOK /\ Locked /\ Held /\ [Next]_vars => Held'
  <1> SUFFICES ASSUME TypeOK, Locked, Held, [Next]_vars PROVE Held'
    OBVIOUS
  <1> USE DEF Held
  <1>1. CASE UNCHANGED <<token, caller, trouble>>
    BY <1>1
  <1>2. ASSUME NEW c \in Caller, UNCHANGED token,
               \A d \in Caller : d # c => caller'[d] = caller[d] /\ trouble'[d] = trouble[d],
               caller'[c].pc \notin {"token", "send"}
        PROVE  Held'
    BY <1>2
  <1>3. ASSUME NEW c \in Caller, Begin(c) PROVE Held'
    <2>1. caller'[c].pc = "check"
      BY <1>3 DEF Begin, TypeOK, CallerRec
    <2> QED
      BY <1>2, <1>3, <2>1 DEF Begin, TypeOK, client
  <1>4. ASSUME NEW c \in Caller, Check(c) PROVE Held'
    <2>1. Goes(c, "wait") \/ Goes(c, "url")
      BY <1>4 DEF Check, StartLogin
    <2> QED
      BY <1>2, <1>4, <2>1, GoesEffect DEF Check, client
  <1>5. ASSUME NEW c \in Caller, NEW outcome \in Outcome, Ends(c, outcome), UNCHANGED token,
               \A d \in Caller : d # c => trouble'[d] = trouble[d]
        PROVE  Held'
    BY <1>2, <1>5, EndsEffect
  <1>6. ASSUME NEW c \in Caller, LoginReturns(c) PROVE Held'
    <2>1. /\ UNCHANGED token
          /\ \A d \in Caller : d # c => trouble'[d] = trouble[d]
          /\ \/ Goes(c, "url")
             \/ \E outcome \in Outcome : Ends(c, outcome)
      BY <1>6 DEF LoginReturns, client, TypeOK, LoginRec
    <2> QED
      BY <1>2, <1>5, <2>1, GoesEffect
  <1>7. ASSUME NEW c \in Caller, LoginTimesOut(c) PROVE Held'
    BY <1>5, <1>7 DEF LoginTimesOut, client, TypeOK, Outcome
  <1>8. ASSUME NEW c \in Caller, MakeURL(c) PROVE Held'
    <2>1. UNCHANGED token /\ \A d \in Caller : d # c => trouble'[d] = trouble[d]
      BY <1>8 DEF MakeURL, client, TypeOK
    <2>2. CASE token # Null /\ Goes(c, "token")
      BY <2>1, <2>2, GoesEffect
    <2>3. CASE Ends(c, "error")
      BY <1>5, <2>1, <2>3 DEF Outcome
    <2> QED
      BY <1>8, <2>2, <2>3 DEF MakeURL
  <1>9. ASSUME NEW c \in Caller, ReadToken(c) PROVE Held'
    <2>1. caller[c] \in CallerRec /\ caller \in [Caller -> CallerRec]
      BY DEF TypeOK
    <2>2. /\ caller[c].pc = "token" /\ UNCHANGED <<token, trouble>>
          /\ caller'[c] = [caller[c] EXCEPT !.pc = "send", !.used = token]
          /\ \A d \in Caller : d # c => caller'[d] = caller[d]
      BY <1>9, <2>1 DEF ReadToken, client
    <2>3. caller'[c].pc = "send" /\ caller'[c].used = token
      BY <2>1, <2>2 DEF CallerRec
    <2> QED
      BY <2>2, <2>3
  <1>10. ASSUME NEW c \in Caller, Send(c) PROVE Held'
    <2>1. /\ UNCHANGED token
          /\ \A d \in Caller : d # c => trouble'[d] = trouble[d]
          /\ \E outcome \in Outcome : Ends(c, outcome)
      BY <1>10 DEF Send, client, TypeOK, Outcome
    <2> QED
      BY <1>5, <2>1
  <1>11. ASSUME NEW c \in Caller, Clear(c) PROVE Held'
    <2>1. caller'[c].pc = "check"
      BY <1>11 DEF Clear, TypeOK, CallerRec
    <2>2. ASSUME NEW d \in Caller, d # c, caller[d].pc # "idle", token # Null
          PROVE  "wiped" \in trouble'[d]
      BY <1>11, <2>2 DEF Clear, Active
    <2>3. ASSUME NEW d \in Caller, d # c
          PROVE  caller'[d] = caller[d] /\ (token = Null => trouble'[d] = trouble[d])
                                       /\ ("wiped" \in trouble[d] => "wiped" \in trouble'[d])
      BY <1>11, <2>3 DEF Clear, TypeOK
    <2> QED
      BY <1>11, <2>1, <2>2, <2>3 DEF Clear
  <1>12. ASSUME NEW g \in Login, NEW k \in Token, LoggedIn(g, k) PROVE Held'
    BY <1>12 DEF LoggedIn
  <1>13. ASSUME NEW k \in Token, Revoke(k) PROVE Held'
    <2>1. UNCHANGED <<token, caller>> /\ \A c \in Caller : trouble[c] \subseteq trouble'[c]
      BY <1>13 DEF Revoke, client, TypeOK
    <2> QED
      BY <2>1
  <1> QED
    BY <1>1, <1>3, <1>4, <1>6, <1>7, <1>8, <1>9, <1>10, <1>11, <1>12, <1>13
       DEF Next, Try, DoAuthenticate, Lock, LoginFails, Lapse, vars, client

(* A request goes out without a token only if another caller wiped it in between. *)
THEOREM BareSendsWereWiped == Spec => []NoBareSend
  <1>1. Init => Held
    BY DEF Init, Held
  <1>2. Held => NoBareSend
    BY DEF Held, NoBareSend, SentBare
  <1> QED
    BY <1>1, <1>2, InitTyped, StepTyped, LockedInit, LockedStep, HeldStep, PTL DEF Spec

(* A valid token is wiped only by a caller that was refused with another one, or whose
   request a service forbade (setToken after any Unauthorised, 403 included). *)
THEOREM OnlyRefusedCallersWipe == Spec => WipesOnlyRefused
  <1> DEFINE Entitled(c) ==
               /\ caller[c].pc = "clear"
               /\ caller[c].used # token \/ "forbidden" \in trouble[c]
  <1> DEFINE Wipe == token' = Null /\ token \in valid => \E c \in Caller : Entitled(c)
  <1>1. TypeOK /\ Explained /\ [Next]_vars => [Wipe]_vars
    <2> SUFFICES ASSUME TypeOK, Explained, [Next]_vars, token' = Null, token \in valid
                 PROVE  \E c \in Caller : Entitled(c)
      OBVIOUS
    <2>1. token # Null
      BY DEF TypeOK
    <2>2. CASE \E c \in Caller : Clear(c)
      BY <2>2 DEF Clear, Explained, Refused
    <2>3. ASSUME NEW g \in Login, NEW k \in Token, LoggedIn(g, k) PROVE FALSE
      BY <2>1, <2>3 DEF LoggedIn
    <2>4. CASE UNCHANGED token
      BY <2>1, <2>4
    <2> QED
      BY <2>2, <2>3, <2>4
         DEF Next, Try, DoAuthenticate, Begin, Check, LoginReturns, LoginTimesOut,
             MakeURL, ReadToken, Send, Lock, LoginFails, Revoke, Lapse, vars, client
  <1>2. Spec => [][Wipe]_vars
    BY <1>1, AlwaysExplained, PTL DEF Spec
  <1> QED
    BY <1>2 DEF WipesOnlyRefused

=============================================================================
