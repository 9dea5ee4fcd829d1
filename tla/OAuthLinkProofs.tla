--------------------------- MODULE OAuthLinkProofs ---------------------------
(***************************************************************************)
(* Theorems about OAuthLink, for any number of browsers, logins, requests  *)
(* and crashes.  OAuthLink implements CalendarStore, so that every theorem *)
(* of CalendarStoreProofs holds of it, and its own invariant is proved on  *)
(* top of theirs.                                                          *)
(***************************************************************************)
EXTENDS OAuthLink, CalendarStoreProofs

\* The linking never does to the store what the store does not do (server.go).
THEOREM ImplementsStore == LSpec => Spec
<1>1. LInit => Init
  BY DEF LInit
<1>2. [LNext]_lvars => [Next]_vars
  <2> SUFFICES ASSUME [LNext]_lvars PROVE [Next]_vars
    OBVIOUS
  <2>1. ASSUME NEW b \in Browsers, NEW n \in Logins, Login(b, n) PROVE UNCHANGED vars
    BY <2>1 DEF Login
  <2>2. ASSUME NEW r \in Requests, NEW b \in Browsers, NEW n \in Logins, Arrive(r, b, n)
        PROVE  Callback(r)
    BY <2>2 DEF Arrive
  <2>3. ASSUME NEW r \in Requests, LStep(r) PROVE Step(r)
    BY <2>3 DEF LStep, LExchange, Store, Step
  <2>4. CASE (\E n \in Logins : Consent(n)) \/ (\E b \in Browsers : Expire(b)) \/ Ask
    BY <2>4 DEF Consent, Expire, Ask
  <2>5. QED
    BY <2>1, <2>2, <2>3, <2>4 DEF LNext, Next, Step, LCrash, LRestart, lvars
<1>3. QED
  BY <1>1, <1>2, PTL DEF LSpec, Spec

\* A request past the tests carries the login of its own browser; from its exchange on,
\* Google has taken the code of that login.
Carried(r) == /\ req[r] \in [browser : Browsers, login : Logins]
              /\ loginBy[req[r].login] = req[r].browser
Consented ==
  /\ \A b \in Browsers : cookie[b] # None => loginBy[cookie[b]] = b
  /\ \A n \in Logins : grant[n] # "none" => loginBy[n] # None
  /\ \A r \in Requests :
       /\ pc[r] \notin {"idle", "gone"} \/ file = r => Carried(r)
       /\ pc[r] \notin {"idle", "exchange", "gone"} \/ file = r
            => grant[req[r].login] = "spent"

Answering == /\ page.bound = "yes" => memory # None
             /\ page.bound = "yes" /\ page.email # "?" => page.email # None

LInv == LTypeOK /\ Consented /\ Answering

LEMMA LInitial == LInit => LInv
<1> USE StoreAssumption, LinkAssumption
<1> QED
  BY DEF LInit, Init, LInv, LTypeOK, Consented, Answering, NoPage

LEMMA LInductive == LInv /\ Inv /\ [LNext]_lvars => LInv'
<1> SUFFICES ASSUME LInv, Inv, [LNext]_lvars PROVE LInv'
  OBVIOUS
<1> USE StoreAssumption, LinkAssumption
<1>0. None \notin Logins
  BY DEF Logins
<1>1. ASSUME NEW b \in Browsers, NEW n \in Logins, Login(b, n) PROVE LInv'
  <2>1. \A k \in Logins : loginBy[k] # None => loginBy'[k] = loginBy[k]
    BY <1>1 DEF Login, LInv, LTypeOK
  <2>2. LTypeOK'
    BY <1>1 DEF Login, LInv, LTypeOK
  <2>3. \A k \in Logins, c \in Browsers : loginBy[k] = c => loginBy'[k] = c
    BY <2>1
  <2>4. \A c \in Browsers : cookie'[c] # None => loginBy'[cookie'[c]] = c
    BY <1>1, <2>3 DEF Login, LInv, LTypeOK, Consented
  <2>5. \A r \in Requests : Carried(r) => Carried(r)'
    BY <1>1, <2>3 DEF Login, Carried
  <2>6. Consented'
    BY <1>1, <2>1, <2>4, <2>5 DEF Login, LInv, Consented, vars
  <2>7. QED
    BY <1>1, <2>2, <2>6 DEF Login, LInv, Answering, vars
<1>2. ASSUME NEW n \in Logins, Consent(n) PROVE LInv'
  BY <1>2 DEF Consent, LInv, LTypeOK, Consented, Carried, Answering, vars
<1>3. ASSUME NEW b \in Browsers, Expire(b) PROVE LInv'
  BY <1>3 DEF Expire, LInv, LTypeOK, Consented, Carried, Answering, vars
<1>4. ASSUME NEW r \in Requests, NEW b \in Browsers, NEW n \in Logins, Arrive(r, b, n)
      PROVE  LInv'
  <2>1. /\ pc[r] = "idle" /\ UNCHANGED <<loginBy, grant, page, memory, file>>
        /\ \A s \in Requests \ {r} : pc'[s] = pc[s] /\ req'[s] = req[s]
        /\ pc'[r] \in {"exchange", "gone"}
    BY <1>4 DEF Arrive, Callback, Answer, Goto, Inv, TypeOK, LInv, LTypeOK
  <2>2. file # r
    BY <2>1 DEF Inv, Progress
  <2>3. \A c \in Browsers : cookie'[c] \in {cookie[c], None}
    BY <1>4 DEF Arrive, Forget, LInv, LTypeOK
  <2>4. cookie' \in [Browsers -> Logins \cup {None}]
    BY <1>4 DEF Arrive, Forget, LInv, LTypeOK
  <2>5. pc'[r] = "exchange" => /\ cookie[b] = n
                               /\ req'[r] = [browser |-> b, login |-> n]
    BY <1>4 DEF Arrive, LInv, LTypeOK
  <2>6. pc'[r] = "exchange" => Carried(r)'
    BY <1>0, <2>1, <2>5 DEF Carried, LInv, Consented
  <2>7. LTypeOK'
    BY <1>4, <2>1, <2>4 DEF Arrive, LInv, LTypeOK
  <2>8. \A s \in Requests \ {r} : Carried(s) => Carried(s)'
    BY <2>1 DEF Carried
  <2>9. Consented'
    <3>1. \A c \in Browsers : cookie'[c] # None => loginBy'[cookie'[c]] = c
      BY <2>1, <2>3 DEF LInv, Consented
    <3>2. \A s \in Requests :
            /\ pc'[s] \notin {"idle", "gone"} \/ file' = s => Carried(s)'
            /\ pc'[s] \notin {"idle", "exchange", "gone"} \/ file' = s
                 => grant'[req'[s].login] = "spent"
      BY <2>1, <2>2, <2>6, <2>8 DEF LInv, Consented
    <3>3. QED
      BY <2>1, <3>1, <3>2 DEF LInv, Consented
  <2>10. QED
    BY <2>1, <2>7, <2>9 DEF LInv, Answering
<1>5. ASSUME NEW r \in Requests, LStep(r) PROVE LInv'
  <2>1. /\ UNCHANGED <<loginBy, page>>
        /\ \A s \in Requests \ {r} : pc'[s] = pc[s] /\ req'[s] = req[s]
        /\ pc[r] \notin {"idle", "gone"}
        /\ AnswerClears(r)
    BY <1>5 DEF LStep, LExchange, Store, AnswerClears, Exchange, SaveLock, Create, Write,
                Rename, Publish, Fail, Answer, Goto, Inv, TypeOK, LInv, LTypeOK
  <2>2. \A n \in Logins : grant'[n] = grant[n] \/ (grant'[n] = "spent" /\ n = req[r].login)
    <3>1. \/ grant' = grant
          \/ grant' = [grant EXCEPT ![req[r].login] = "spent"]
      BY <1>5 DEF LStep, LExchange, Store
    <3>2. grant \in [Logins -> {"none", "code", "error", "spent"}]
      BY DEF LInv, LTypeOK
    <3>3. QED
      BY <3>1, <3>2
  <2>3. Carried(r)
    BY <2>1 DEF LInv, Consented
  <2>4. LTypeOK'
    <3>1. cookie' \in [Browsers -> Logins \cup {None}]
      BY <2>1 DEF AnswerClears, Forget, LInv, LTypeOK
    <3>2. grant' \in [Logins -> {"none", "code", "error", "spent"}]
      BY <1>5 DEF LStep, LExchange, Store, LInv, LTypeOK
    <3>3. req' \in [Requests -> [browser : Browsers, login : Logins] \cup {None}]
      BY <2>1 DEF AnswerClears, LInv, LTypeOK
    <3>4. QED
      BY <2>1, <3>1, <3>2, <3>3 DEF LInv, LTypeOK
  <2>5. \A c \in Browsers : cookie'[c] \in {cookie[c], None}
    BY <2>1 DEF AnswerClears, Forget, LInv, LTypeOK
  <2>6. /\ pc'[r] # "gone" => told'[r] = "none"
        /\ file' = r => told'[r] \in {"none", "linked"}
        /\ file' \in {file, r}
    BY <1>5 DEF LStep, LExchange, Store, Exchange, SaveLock, Create, Write, Rename, Publish,
                Fail, Answer, Goto, Inv, TypeOK, Progress
  <2>7. told'[r] \in {"none", "linked"} => req'[r] = req[r] /\ Carried(r)'
    BY <2>1, <2>3 DEF AnswerClears, LInv, LTypeOK, Carried
  <2>8. pc'[r] \notin {"idle", "exchange", "gone"} \/ file' = r
          => grant'[req[r].login] = "spent"
    <3>1. CASE LExchange(r)
      <4>1. pc'[r] = "save" \/ pc'[r] = "gone"
        BY <3>1 DEF LExchange, Exchange, Goto, Answer, Inv, TypeOK
      <4>2. file' = file /\ file # r
        BY <3>1 DEF LExchange, Exchange, Inv, Progress
      <4>3. pc'[r] = "save" => grant'[req[r].login] = "spent"
        BY <3>1, <2>3 DEF LExchange, LInv, LTypeOK, Carried
      <4>4. QED
        BY <4>1, <4>2, <4>3
    <3>2. CASE Store(r)
      <4>1. pc[r] \notin {"idle", "exchange", "gone"} /\ grant' = grant
        BY <3>2 DEF Store, SaveLock, Create, Write, Rename, Publish
      <4>2. QED
        BY <4>1 DEF LInv, Consented
    <3>3. QED
      BY <1>5, <3>1, <3>2 DEF LStep
  <2>9. Consented'
    <3>1. \A c \in Browsers : cookie'[c] # None => loginBy'[cookie'[c]] = c
      BY <2>1, <2>5 DEF LInv, Consented
    <3>2. \A n \in Logins : grant'[n] # "none" => loginBy'[n] # None
      BY <2>1, <2>2, <2>3 DEF LInv, Consented, Carried
    <3>3. ASSUME NEW s \in Requests, s # r
          PROVE  /\ pc'[s] \notin {"idle", "gone"} \/ file' = s => Carried(s)'
                 /\ pc'[s] \notin {"idle", "exchange", "gone"} \/ file' = s
                      => grant'[req'[s].login] = "spent"
      <4>1. Carried(s) => Carried(s)' /\ req'[s].login \in Logins
        BY <2>1, <3>3 DEF Carried
      <4>2. QED
        BY <2>1, <2>2, <2>6, <3>3, <4>1 DEF LInv, Consented
    <3>4. /\ pc'[r] \notin {"idle", "gone"} \/ file' = r => Carried(r)'
          /\ pc'[r] \notin {"idle", "exchange", "gone"} \/ file' = r
               => grant'[req'[r].login] = "spent"
      BY <2>6, <2>7, <2>8
    <3>5. QED
      BY <3>1, <3>2, <3>3, <3>4 DEF Consented
  <2>10. memory # None => memory' # None
    BY <1>5 DEF LStep, LExchange, Store, Exchange, SaveLock, Create, Write, Rename, Publish
  <2>11. QED
    BY <2>1, <2>4, <2>9, <2>10 DEF LInv, Answering
<1>6. CASE Ask
  BY <1>6 DEF Ask, LInv, LTypeOK, Consented, Carried, Answering, NoPage, Inv, TypeOK,
              vars, browsers
<1>7. CASE LCrash
  <2>1. /\ \A r \in Requests : /\ pc'[r] \in {"idle", "gone"}
                               /\ req'[r] = IF r = file THEN req[r] ELSE None
        /\ UNCHANGED <<file, cookie, loginBy, grant>> /\ page' = NoPage
    BY <1>7 DEF LCrash, Crash
  <2>2. LTypeOK'
    BY <1>7, <2>1 DEF LCrash, LInv, LTypeOK, NoPage
  <2>3. \A r \in Requests : file = r => Carried(r)'
    BY <2>1 DEF LInv, Consented, Carried
  <2>4. Consented'
    BY <2>1, <2>3 DEF LInv, Consented
  <2>5. QED
    BY <2>1, <2>2, <2>4 DEF LInv, Answering, NoPage
<1>8. CASE LRestart
  <2>1. page.bound # "yes"
    BY <1>8 DEF LRestart, Restart, LInv, Answering, Inv, Alive
  <2>2. QED
    BY <1>8, <2>1 DEF LRestart, Restart, LInv, LTypeOK, Consented, Carried, Answering,
                      browsers
<1>9. CASE UNCHANGED lvars
  BY <1>9 DEF lvars, browsers, vars, LInv, LTypeOK, Consented, Carried, Answering
<1>10. QED
  BY <1>1, <1>2, <1>3, <1>4, <1>5, <1>6, <1>7, <1>8, <1>9 DEF LNext

LEMMA LInvariant == LSpec => [](LInv /\ Inv)
  BY ImplementsStore, Inductive, LInitial, LInductive, PTL DEF LSpec

\* The variables of the linking keep their types.
THEOREM LTyped == LSpec => []LTypeOK
<1>1. LInv => LTypeOK
  BY DEF LInv
<1>2. QED
  BY LInvariant, <1>1, PTL

\* The calendar is bound only by a login that this server answered to the browser that came
\* back, and with a code that Google has taken (server.go, the callback).
THEOREM BoundOnlyByConsent == LSpec => []BoundByConsent
<1>1. LInv /\ Inv => BoundByConsent
  BY DEF LInv, Consented, Carried, BoundByConsent
<1>2. QED
  BY LInvariant, <1>1, PTL

\* A status page that says "bound" names the account (server.go, calendarStatus).
THEOREM StatusAgrees == LSpec => []StatusCoherent
<1>1. LInv => StatusCoherent
  BY DEF LInv, Answering, StatusCoherent
<1>2. QED
  BY LInvariant, <1>1, PTL

\* However many browsers log in and wherever the process dies, one binding is established
\* at most (server.go and store.go together).
THEOREM LinkBindsOnce == LSpec => BindingSpec
  BY ImplementsStore, ImplementsOneTimeBinding, PTL

\* What the store promises of its files and its readers holds under real browsers too
\* (server.go and store.go together).
THEOREM LinkKeepsTheFile == LSpec => [](FileComplete /\ MemoryMatchesFile /\ TempsBounded)
  BY ImplementsStore, FileAlwaysComplete, ReadersSeeTheFile, TempsStayBounded, PTL
=============================================================================
