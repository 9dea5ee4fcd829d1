----------------------------- MODULE OAuthLink -----------------------------
(***************************************************************************)
(* The linking of a calendar from login to answer: the login and callback  *)
(* handlers and the status page of internal/server/server.go, with         *)
(* GenerateAuthURL and ExchangeCode of internal/calendar/manager.go, over  *)
(* the store of CalendarStore.  Every step of the store is a step of its   *)
(* module; this one adds the browsers with their oauth_state cookies, the  *)
(* nonces of the logins, what Google has made of each, and a status page   *)
(* that asks the store twice.                                              *)
(*                                                                         *)
(* A nonce and the code Google issues for it are named by the login.       *)
(* Browsers and Google (external) outlive a crash of the process.          *)
(***************************************************************************)
EXTENDS CalendarStore

CONSTANTS Browsers,
          MaxLogins    \* bound on the logins

ASSUME LinkAssumption == /\ None \notin Browsers
                         /\ MaxLogins \in Nat /\ None \notin 1..MaxLogins

Logins == 1..MaxLogins

VARIABLES
  cookie,    \* the oauth_state cookie of each browser: a login, or None
  loginBy,   \* the browser each login was answered to
  grant,     \* what Google has done with a login: "none", "code", "error" or "spent"
  req,       \* the browser and the login of each request that is under way or has linked
  page       \* the status page: what its two questions to the store have brought

browsers == <<cookie, loginBy, grant, req>>
lvars    == <<vars, browsers, page>>

NoPage == [bound |-> "?", email |-> "?"]

LInit == /\ Init
         /\ cookie  = [b \in Browsers |-> None]
         /\ loginBy = [n \in Logins |-> None]
         /\ grant   = [n \in Logins |-> "none"]
         /\ req     = [r \in Requests |-> None]
         /\ page    = NoPage

-----------------------------------------------------------------------------
(* The login.                                                              *)

\* handleOAuthGoogleLogin: a new nonce, in the URL of Google and in the cookie, which it
\* overwrites.  A bound store refuses (no state change).
Login(b, n) == /\ up /\ mu = None /\ memory = None
               /\ loginBy[n] = None /\ \A k \in 1..(n-1) : loginBy[k] # None
               /\ loginBy' = [loginBy EXCEPT ![n] = b]
               /\ cookie'  = [cookie EXCEPT ![b] = n]
               /\ UNCHANGED <<vars, grant, req, page>>

\* The user agrees, and Google issues a code; or does not.
Consent(n) == /\ loginBy[n] # None /\ grant[n] = "none"
              /\ \E what \in {"code", "error"} : grant' = [grant EXCEPT ![n] = what]
              /\ UNCHANGED <<vars, cookie, loginBy, req, page>>

\* After ten minutes the browser forgets the cookie.
Expire(b) == /\ cookie[b] # None
             /\ cookie' = [cookie EXCEPT ![b] = None]
             /\ UNCHANGED <<vars, loginBy, grant, req, page>>

-----------------------------------------------------------------------------
(* The callback.  Google sends the browser there; the user may load the    *)
(* page again, later, and in another browser.                              *)

Forget(b) == cookie' = [cookie EXCEPT ![b] = None]

\* Mutant: any state will do if there is a cookie.
ArriveMismatched(r, b, n) ==
  /\ grant[n] # "none"
  /\ Callback(r)
  /\ LET valid == memory = None /\ cookie[b] # None IN
       /\ pc'[r] = "exchange" <=> valid /\ grant[n] # "error"
       /\ IF valid /\ grant[n] = "error" THEN Forget(b) ELSE UNCHANGED cookie
  /\ req' = [req EXCEPT ![r] = IF pc'[r] = "exchange" THEN [browser |-> b, login |-> n]
                                                       ELSE None]
  /\ UNCHANGED <<loginBy, grant, page>>

\* handleOAuthGoogleCallback up to the exchange: the state must be that of the cookie; an
\* error of Google clears the cookie, a mismatch does not.
Arrive(r, b, n) ==
  /\ grant[n] # "none"
  /\ Callback(r)
  /\ LET valid == memory = None /\ cookie[b] = n IN
       /\ pc'[r] = "exchange" <=> valid /\ grant[n] # "error"
       /\ IF valid /\ grant[n] = "error" THEN Forget(b) ELSE UNCHANGED cookie
  /\ req' = [req EXCEPT ![r] = IF pc'[r] = "exchange" THEN [browser |-> b, login |-> n]
                                                       ELSE None]
  /\ UNCHANGED <<loginBy, grant, page>>

\* An answer after the exchange clears the browser's cookie, be it that of a later login;
\* it may not reach the browser.  It ends the request.
AnswerClears(r) ==
  /\ \/ UNCHANGED cookie
     \/ told'[r] # told[r] /\ Forget(req[r].browser)
  /\ req' = [req EXCEPT ![r] = IF told'[r] \in {"none", "linked"} THEN @ ELSE None]

\* ExchangeCode: Google takes a code once; the token may be lost all the same, to a timeout
\* or a refusal of the userinfo request.
LExchange(r) == LET n == req[r].login IN
                /\ Exchange(r)
                /\ pc'[r] = "save" => grant[n] = "code"
                /\ \/ grant' = [grant EXCEPT ![n] = "spent"]
                   \/ pc'[r] # "save" /\ UNCHANGED grant
                /\ AnswerClears(r)
                /\ UNCHANGED <<loginBy, page>>

Store(r) == /\ SaveLock(r) \/ Create(r) \/ Write(r) \/ Rename(r) \/ Publish(r)
            /\ AnswerClears(r)
            /\ UNCHANGED <<loginBy, grant, page>>

-----------------------------------------------------------------------------
(* The status page.                                                        *)

\* Mutant: the questions are asked in the other order.
AskGetFirst == /\ up /\ mu = None
               /\ \/ /\ page = NoPage
                     /\ page' = [page EXCEPT !.email = memory]
                  \/ /\ page.email # "?" /\ page.bound = "?"
                     /\ page' = [page EXCEPT !.bound = IF memory = None THEN "no" ELSE "yes"]
               /\ UNCHANGED <<vars, browsers>>

\* calendarStatus: IsBound and then Get, each under the read lock.
Ask == /\ up /\ mu = None
       /\ \/ /\ page = NoPage
             /\ page' = [page EXCEPT !.bound = IF memory = None THEN "no" ELSE "yes"]
          \/ /\ page.bound # "?" /\ page.email = "?"
             /\ page' = [page EXCEPT !.email = memory]
       /\ UNCHANGED <<vars, browsers>>

\* The page dies with the process, and so does every request but one that has saved.
LCrash   == /\ Crash
            /\ page' = NoPage
            /\ req' = [r \in Requests |-> IF r = file THEN req[r] ELSE None]
            /\ UNCHANGED <<cookie, loginBy, grant>>
LRestart == Restart /\ UNCHANGED <<browsers, page>>

LStep(r) == LExchange(r) \/ Store(r)

LNext == \/ \E b \in Browsers, n \in Logins : Login(b, n) \/ \E r \in Requests : Arrive(r, b, n)
         \/ \E n \in Logins : Consent(n)
         \/ \E b \in Browsers : Expire(b)
         \/ \E r \in Requests : LStep(r)
         \/ Ask \/ LCrash \/ LRestart

LSpec == LInit /\ [][LNext]_lvars

\* A handler that has begun runs to its end.
LFairSpec == /\ LSpec
             /\ \A r \in Requests : WF_lvars(LStep(r))

-----------------------------------------------------------------------------
(* Properties.                                                             *)

LTypeOK == /\ cookie \in [Browsers -> Logins \cup {None}]
           /\ loginBy \in [Logins -> Browsers \cup {None}]
           /\ grant \in [Logins -> {"none", "code", "error", "spent"}]
           /\ req \in [Requests -> [browser : Browsers, login : Logins] \cup {None}]
           /\ page \in [bound : {"?", "yes", "no"}, email : Requests \cup {None, "?"}]

\* Whatever is saved, a crash or not, was agreed to at Google for a login that this server
\* answered to the very browser that came back (server.go, the state cookie).
BoundByConsent ==
  file \in Requests => /\ grant[req[file].login] = "spent"
                       /\ loginBy[req[file].login] = req[file].browser

\* A status page that says "bound" names the account (server.go, calendarStatus, which asks
\* the store twice): between the two questions the store may be bound, never unbound.
StatusCoherent == page.bound = "yes" /\ page.email # "?" => page.email # None
=============================================================================
