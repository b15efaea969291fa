------------------------ MODULE AdminSession_proofs ------------------------
(***************************************************************************)
(* Proofs about AdminSession for any deployments, pages, lifetimes and     *)
(* number of tabs, requests and sign-ins: type correctness, who is let in, *)
(* the single use of a state, what a logout ends and what answers mean.    *)
(***************************************************************************)
EXTENDS AdminSession, TLAPS

(* A token bears the clock and the secret of the moment it is made.        *)
LEMMA SessionCookieType ==
  ASSUME TypeOK, NEW u \in Users, NEW life \in Nat
  PROVE  SessionCookie(u, life) \in Token
  <1>1. now \in Nat /\ secret \in Nat /\ TokenLife \in Nat
    BY SessionAssumption DEF TypeOK
  <1> QED
    BY <1>1 DEF SessionCookie, Token

(* What a tab is like after its callback or after another tab's.           *)
LEMMA TabTypes ==
  ASSUME TypeOK, NEW t \in Tabs
  PROVE  /\ NoSignIn \in SignIns
         /\ Returned(t) \in SignIns
         /\ [Returned(t) EXCEPT !.good = FALSE] \in SignIns
         /\ Overtaken(t) \in [Tabs -> SignIns]
         /\ NoGood \in [Tabs -> SignIns]
  <1>1. tabs \in [Tabs -> SignIns]
    BY DEF TypeOK
  <1>2. \A u \in Tabs : [tabs[u] EXCEPT !.good = FALSE] \in SignIns
    BY <1>1 DEF SignIns
  <1>3. Overtaken(t) \in [Tabs -> SignIns] /\ NoGood \in [Tabs -> SignIns]
    BY <1>1, <1>2 DEF Overtaken, NoGood
  <1>4. Returned(t) \in SignIns
    BY <1>1 DEF Returned, SignIns
  <1>5. [Returned(t) EXCEPT !.good = FALSE] \in SignIns
    BY <1>4 DEF SignIns
  <1>6. NoSignIn \in SignIns
    BY DEF NoSignIn, SignIns
  <1> QED
    BY <1>3, <1>4, <1>5, <1>6

(* Nobody is signed in yet.                                                *)
LEMMA InitTypes == Init => TypeOK
  <1> SUFFICES ASSUME Init PROVE TypeOK
    OBVIOUS
  <1>1. tabs \in [Tabs -> SignIns]
    BY DEF Init, SignIns, NoSignIn
  <1>2. rows \in [Users -> Levels] /\ last \in Answers /\ proofs \in [Users -> Proof \cup {None}]
    BY DEF Init, Levels, Answers, NoAnswer
  <1>3. TypeOK
    <2>1. now \in 0..MaxTime /\ secret \in Nat /\ password \in Nat /\ logins \in 0..MaxLogins
          /\ changes \in 0..MaxChanges
      BY SessionAssumption DEF Init
    <2> QED
      BY <1>1, <1>2, <2>1 DEF Init, TypeOK
  <1> QED
    BY <1>3

(* A request keeps everything well typed.                                  *)
LEMMA BrowseTypes ==
  ASSUME TypeOK, Browse
  PROVE  TypeOK'
  <1> USE DEF server, jar, history, bounds
  <1>n. NoAnswer \in Answers
    BY DEF NoAnswer, Answers
  <1>a. Asks \in {"login", "challenge"}
    BY DEF Asks
  <1>r. req # None => req \in Requests /\ req.write \in BOOLEAN /\ req.cookie \in Token \cup {None}
    BY DEF TypeOK, Requests
  <1>1. ASSUME NEW path \in Pages, NEW write \in BOOLEAN, NEW foreign \in BOOLEAN,
               Send(path, write, foreign)
        PROVE  TypeOK'
    <2>1. req' \in Requests
      BY <1>1 DEF Send, TypeOK, Requests
    <2> QED
      BY <1>1, <1>n, <2>1 DEF Send, TypeOK
  <1>2. CASE AnswerForged \/ AnswerOpen \/ AnswerAsk
    <2>1. last' \in Answers /\ req' = None
      <3>1. \E answer \in Answers : Answered(answer)
        BY <1>2, <1>a DEF AnswerForged, AnswerOpen, AnswerAsk, Answers
      <3> QED
        BY <3>1 DEF Answered
    <2>2. UNCHANGED <<site, now, server, jar, tabs, history, bounds>>
      BY <1>2 DEF AnswerForged, AnswerOpen, AnswerAsk
    <2> QED
      BY <2>1, <2>2 DEF TypeOK
  <1>3. ASSUME NEW outcome \in Outcomes, AnswerSession(outcome) \/ AnswerBasic(outcome)
        PROVE  TypeOK'
    <2>1. last' \in Answers /\ req' = None
      <3>1. Says(outcome, "500") \in Answers /\ Says(outcome, Asks) \in Answers
        BY <1>a DEF Says, Refusal, Answers
      <3> QED
        BY <1>3, <3>1 DEF AnswerSession, AnswerBasic, Answered
    <2>2. rows' \in [Users -> Levels] /\ changes' \in 0..MaxChanges
      <3>1. Handle(req.cookie.user, outcome) \/ Handle(Rescue, outcome)
        BY <1>3 DEF AnswerSession, AnswerBasic
      <3>2. UNCHANGED <<rows, changes>> \/ Work
        BY <3>1 DEF Handle, Outcomes
      <3>3. CASE Work
        BY <3>3, SessionAssumption DEF Work, TypeOK
      <3> QED
        BY <3>2, <3>3 DEF TypeOK
    <2>3. CASE AnswerSession(outcome)
      <3>1. UNCHANGED <<site, now, secret, password, jar, tabs, history, logins>>
        BY <2>3 DEF AnswerSession
      <3> QED
        BY <2>1, <2>2, <3>1 DEF TypeOK
    <2>4. CASE AnswerBasic(outcome)
      <3>1. UNCHANGED <<site, now, secret, password, stateCk, nextCk, basic, tabs, spent, logins>>
        BY <2>4 DEF AnswerBasic
      <3>2. SessionCookie(Rescue, TokenLife) \in Token
        BY SessionCookieType, SessionAssumption DEF Users
      <3>3. [at |-> now, secret |-> secret] \in Proof
        BY SessionAssumption DEF TypeOK, Proof
      <3>4. cookie' \in Token \cup {None}
        BY <2>4, <3>2 DEF AnswerBasic, TypeOK
      <3>5. proofs' \in [Users -> Proof \cup {None}]
        BY <2>4, <3>3 DEF AnswerBasic, TypeOK
      <3>6. out' \in BOOLEAN
        BY <2>4 DEF AnswerBasic, TypeOK
      <3> QED
        BY <2>1, <2>2, <3>1, <3>4, <3>5, <3>6 DEF TypeOK
    <2> QED
      BY <1>3, <2>3, <2>4
  <1>4. CASE EnterPassword
    BY <1>4, <1>n DEF EnterPassword, TypeOK
  <1>5. CASE Logout
    <2>1. tabs' \in [Tabs -> SignIns]
      <3>1. tabs' = [t \in Tabs |-> [tabs[t] EXCEPT !.good = FALSE]]
        BY <1>5 DEF Logout, NoGood
      <3> QED
        BY <3>1 DEF TypeOK, SignIns
    <2>2. req' \in Requests \cup {None}
      BY <1>5 DEF Logout, LateReq, TypeOK, Requests
    <2> QED
      BY <1>5, <1>n, <2>1, <2>2 DEF Logout, TypeOK
  <1> QED
    BY <1>1, <1>2, <1>3, <1>4, <1>5 DEF Browse

(* A sign-in keeps everything well typed.                                  *)
LEMMA SignInTypes ==
  ASSUME TypeOK, SignIn
  PROVE  TypeOK'
  <1> USE DEF server, jar, history, bounds
  <1>n. NoAnswer \in Answers /\ now \in Nat /\ secret \in Nat /\ logins \in Nat
    BY SessionAssumption DEF NoAnswer, Answers, TypeOK
  <1> PICK t \in Tabs :
        \/ \E next \in Pages \cup {None} : OauthLogin(t, next)
        \/ SendCallback(t) \/ CallbackFails(t) \/ CallbackUnauthorized(t) \/ CallbackSignsIn(t)
    BY DEF SignIn
  <1>1. ASSUME NEW next \in Pages \cup {None}, OauthLogin(t, next) PROVE TypeOK'
    <2>1. tabs' \in [Tabs -> SignIns]
      <3> DEFINE signIn == [NoSignIn EXCEPT !.step = "google", !.token = logins + 1,
                                            !.wanted = next, !.good = TRUE]
      <3>1. NoSignIn \in SignIns
        BY TabTypes
      <3>2. logins + 1 \in Nat
        BY <1>n
      <3>3. signIn \in SignIns
        BY <3>1, <3>2 DEF SignIns
      <3>4. Overtaken(t) \in [Tabs -> SignIns]
        BY TabTypes
      <3>5. tabs' = [Overtaken(t) EXCEPT ![t] = signIn]
        BY <1>1 DEF OauthLogin
      <3> HIDE DEF signIn
      <3> QED
        BY <3>3, <3>4, <3>5
    <2>l. now + TempLife \in Nat /\ MaxLogins \in Nat
      BY <1>n, SessionAssumption
    <2>2. stateCk' \in StateCookie
      <3>1. stateCk' = [token |-> logins + 1, until |-> now + TempLife]
        BY <1>1 DEF OauthLogin
      <3>2. logins + 1 \in Nat
        BY <1>n
      <3> QED
        BY <2>l, <3>1, <3>2 DEF StateCookie
    <2>3. nextCk' \in NextCookies \cup {None}
      <3>1. next = None => NextCookie(next) \in NextCookies \cup {None}
        BY DEF NextCookie, TypeOK
      <3>2. next # None => NextCookie(next) = [path |-> next, until |-> now + TempLife]
        BY DEF NextCookie
      <3>3. next # None => [path |-> next, until |-> now + TempLife] \in NextCookies
        BY <2>l DEF NextCookies
      <3> QED
        BY <1>1, <3>1, <3>2, <3>3 DEF OauthLogin
    <2>4. logins' \in 0..MaxLogins
      <3>1. logins' = logins + 1 /\ logins < MaxLogins
        BY <1>1 DEF OauthLogin
      <3> QED
        BY <1>n, <2>l, <3>1
    <2> QED
      BY <1>1, <1>n, <2>1, <2>2, <2>3, <2>4 DEF OauthLogin, TypeOK
  <1>2. CASE SendCallback(t)
    <2>1. SentState \in Nat \cup {None} /\ SentNext \in Pages \cup {None}
      BY DEF SentState, SentNext, TypeOK, StateCookie, NextCookies
    <2>2. tabs' \in [Tabs -> SignIns]
      <3> DEFINE sent == [tabs[t] EXCEPT !.step = "sent", !.reused = (tabs[t].token \in spent),
                                         !.state = SentState, !.next = SentNext]
      <3>1. tabs' = [tabs EXCEPT ![t] = sent] /\ tabs \in [Tabs -> SignIns]
        BY <1>2 DEF SendCallback, TypeOK
      <3>2. tabs[t] \in SignIns /\ (tabs[t].token \in spent) \in BOOLEAN
        BY <3>1
      <3>3. sent \in SignIns
        BY <2>1, <3>2 DEF SignIns
      <3> HIDE DEF sent
      <3> QED
        BY <3>1, <3>3
    <2> QED
      BY <1>2, <1>n, <2>2 DEF SendCallback, TypeOK
  <1>3. CASE CallbackFails(t)
    <2>1. tabs' \in [Tabs -> SignIns]
      BY <1>3, TabTypes DEF CallbackFails, TypeOK
    <2> QED
      BY <1>3, <1>n, <2>1 DEF CallbackFails, TypeOK
  <1>4. CASE CallbackUnauthorized(t)
    <2>1. tabs' \in [Tabs -> SignIns]
      BY <1>4, TabTypes DEF CallbackUnauthorized
    <2> QED
      BY <1>4, <1>n, <2>1 DEF CallbackUnauthorized, TypeOK
  <1>5. CASE CallbackSignsIn(t)
    <2>1. tabs' \in [Tabs -> SignIns]
      BY <1>5, TabTypes DEF CallbackSignsIn
    <2>2. cookie' \in Token
      BY <1>5, SessionCookieType, SessionAssumption DEF CallbackSignsIn, Users
    <2>3. proofs' \in [Users -> Proof \cup {None}]
      BY <1>5, <1>n DEF CallbackSignsIn, TypeOK, Proof
    <2>4. spent' \subseteq Nat
      <3>1. tabs[t].token \in Nat
        BY <1>5, SessionAssumption DEF CallbackSignsIn, VerifyStateToken, TypeOK, SignIns
      <3> QED
        BY <1>5, <3>1 DEF CallbackSignsIn, TypeOK
    <2>5. /\ UNCHANGED <<site, now, secret, password, rows, basic, req, logins, changes>>
          /\ stateCk' = None /\ nextCk' = None /\ out' = FALSE /\ last' = NoAnswer
      BY <1>5 DEF CallbackSignsIn
    <2> QED
      BY <1>n, <2>1, <2>2, <2>3, <2>4, <2>5 DEF TypeOK
  <1> QED
    BY <1>1, <1>2, <1>3, <1>4, <1>5

(* A redeployment, a new password and the clock keep everything well       *)
(* typed.                                                                  *)
LEMMA WorldTypes ==
  ASSUME TypeOK, Deploy \/ CreateAdmin \/ Tick
  PROVE  TypeOK'
  <1> USE DEF server, jar, history, bounds
  <1>n. NoAnswer \in Answers
    BY DEF NoAnswer, Answers
  <1>1. CASE Deploy
    <2>1. secret' \in Nat
      BY <1>1 DEF Deploy, TypeOK
    <2>2. changes' \in 0..MaxChanges
      BY <1>1, SessionAssumption DEF Deploy, TypeOK
    <2>3. tabs' \in [Tabs -> SignIns]
      BY <1>1, TabTypes DEF Deploy, TypeOK
    <2>4. /\ UNCHANGED <<site, now, password, rows, cookie, stateCk, nextCk, basic, proofs, spent, out, logins>>
          /\ req' = None /\ last' = NoAnswer
      BY <1>1 DEF Deploy
    <2> QED
      BY <1>n, <2>1, <2>2, <2>3, <2>4 DEF TypeOK
  <1>2. CASE CreateAdmin
    <2>1. password' \in Nat
      BY <1>2 DEF CreateAdmin, TypeOK
    <2>2. changes' \in 0..MaxChanges
      BY <1>2, SessionAssumption DEF CreateAdmin, TypeOK
    <2>3. /\ UNCHANGED <<site, now, secret, rows, cookie, stateCk, nextCk, basic, req, tabs, proofs, spent, out, logins>>
          /\ last' = NoAnswer
      BY <1>2 DEF CreateAdmin
    <2> QED
      BY <1>n, <2>1, <2>2, <2>3 DEF TypeOK
  <1>3. CASE Tick
    <2>1. now' \in 0..MaxTime
      BY <1>3, SessionAssumption DEF Tick, TypeOK
    <2>2. /\ cookie' \in {cookie, None} /\ stateCk' \in {stateCk, None}
          /\ nextCk' \in {nextCk, None}
      BY <1>3 DEF Tick, Fresh
    <2>3. tabs' \in [Tabs -> SignIns]
      <3>1. \A t \in Tabs, b \in BOOLEAN : [tabs[t] EXCEPT !.good = b] \in SignIns
        BY DEF TypeOK, SignIns
      <3>2. \A t \in Tabs : (tabs[t].good /\ (Fresh(stateCk) = stateCk \/ tabs[t].step = "sent")) \in BOOLEAN
        OBVIOUS
      <3>3. tabs' = [t \in Tabs |-> [tabs[t] EXCEPT
              !.good = tabs[t].good /\ (Fresh(stateCk) = stateCk \/ tabs[t].step = "sent")]]
        BY <1>3 DEF Tick
      <3> QED
        BY <3>1, <3>2, <3>3
    <2>4. /\ UNCHANGED <<site, secret, password, rows, basic, req, proofs, spent, out, logins, changes>>
          /\ last' = NoAnswer
      BY <1>3 DEF Tick
    <2> QED
      BY <1>n, <2>1, <2>2, <2>3, <2>4 DEF TypeOK
  <1> QED
    BY <1>1, <1>2, <1>3

(* Every step keeps everything well typed.                                 *)
LEMMA NextTypes ==
  ASSUME TypeOK, [Next]_vars
  PROVE  TypeOK'
  <1>1. CASE UNCHANGED vars
    BY <1>1 DEF vars, server, jar, history, bounds, TypeOK
  <1> QED
    BY <1>1, BrowseTypes, SignInTypes, WorldTypes DEF Next

(* Requests, cookies, sign-ins and histories stay well typed, for any      *)
(* number of tabs and requests.                                            *)
THEOREM TypeCorrect == Spec => []TypeOK
  BY InitTypes, NextTypes, PTL DEF Spec

---------------------------------------------------------------------------
(* Who is let in                                                           *)

(* A cookie goes back to a proof of identity, and no proof is of the       *)
(* future.                                                                 *)
GoesBack(ck) ==
  ck # None =>
    /\ proofs[ck.user] # None
    /\ ck.exp <= proofs[ck.user].at + TokenLife
    /\ ck.key <= proofs[ck.user].secret

Past == \A u \in Users : proofs[u] # None => proofs[u].at <= now /\ proofs[u].secret <= secret

ReqGoesBack == req # None => GoesBack(req.cookie)

ProofInv == GoesBack(cookie) /\ ReqGoesBack /\ Past

(* A new proof takes the place of the old one of its user.                 *)
LEMMA NewProof ==
  ASSUME TypeOK, ProofInv, NEW u \in Users, NEW life \in Nat,
         proofs' = [proofs EXCEPT ![u] = [at |-> now, secret |-> secret]],
         UNCHANGED <<now, secret>>,
         cookie' = SessionCookie(u, life)
  PROVE  /\ Past' /\ GoesBack(cookie)'
         /\ \A ck \in Token \cup {None} : GoesBack(ck) => GoesBack(ck)'
  <1>1. /\ now \in Nat /\ secret \in Nat /\ TokenLife \in Nat
        /\ [at |-> now, secret |-> secret] \in Proof /\ None \notin Proof
    BY SessionAssumption DEF TypeOK, Proof
  <1>2. \A v \in Users : proofs[v] # None => proofs[v].at \in Nat /\ proofs[v].secret \in Nat
    BY DEF TypeOK, Proof
  <1>3. /\ proofs'[u] = [at |-> now, secret |-> secret] /\ proofs'[u] # None
        /\ \A v \in Users \ {u} : proofs'[v] = proofs[v]
    BY <1>1 DEF TypeOK
  <1>4. Past'
    BY <1>1, <1>3 DEF Past, ProofInv
  <1>5. cookie'.user = u /\ cookie'.exp = now + TokenLife /\ cookie'.key = secret
    BY DEF SessionCookie
  <1>6. GoesBack(cookie)'
    BY <1>1, <1>3, <1>5 DEF GoesBack
  <1>7. ASSUME NEW ck \in Token, GoesBack(ck), ck # None PROVE GoesBack(ck)'
    <2>1. ck.user \in Users /\ ck.exp \in Nat /\ ck.key \in Nat
      BY <1>7 DEF Token
    <2>2. CASE ck.user = u
      <3>1. /\ proofs[u] # None /\ ck.exp <= proofs[u].at + TokenLife /\ ck.key <= proofs[u].secret
            /\ proofs[u].at <= now /\ proofs[u].secret <= secret
        BY <1>7, <2>2 DEF GoesBack, ProofInv, Past
      <3>2. proofs[u].at \in Nat /\ proofs[u].secret \in Nat
        BY <1>2, <3>1
      <3>3. ck.exp <= now + TokenLife /\ ck.key <= secret
        BY <1>1, <2>1, <3>1, <3>2
      <3> QED
        BY <1>3, <2>2, <3>3 DEF GoesBack
    <2>3. CASE ck.user # u
      BY <1>3, <1>7, <2>1, <2>3 DEF GoesBack
    <2> QED
      BY <2>2, <2>3
  <1>8. \A ck \in Token \cup {None} : GoesBack(ck) => GoesBack(ck)'
    BY <1>7 DEF GoesBack
  <1> QED
    BY <1>4, <1>6, <1>8

(* Cookies are made with a proof, carried along and dropped.               *)
LEMMA NextProofs ==
  ASSUME TypeOK, ProofInv, [Next]_vars
  PROVE  ProofInv'
  <1> USE DEF server, jar, history, bounds
  <1>0. /\ GoesBack(cookie) /\ ReqGoesBack /\ Past
        /\ cookie \in Token \cup {None} /\ (req # None => req.cookie \in Token \cup {None})
        /\ now \in Nat /\ secret \in Nat /\ GoesBack(None)
    BY SessionAssumption DEF TypeOK, ProofInv, Requests, GoesBack
  <1>1. ASSUME NEW path \in Pages, NEW write \in BOOLEAN, NEW foreign \in BOOLEAN,
               Send(path, write, foreign)
        PROVE  ProofInv'
    <2>1. req'.cookie \in {None, cookie} /\ UNCHANGED <<cookie, proofs, now, secret>>
      BY <1>1 DEF Send
    <2> QED
      BY <1>0, <2>1 DEF ProofInv, GoesBack, ReqGoesBack, Past
  <1>2. CASE UNCHANGED <<cookie, proofs, now, secret>> /\ req' \in {None, req}
    BY <1>0, <1>2 DEF ProofInv, GoesBack, ReqGoesBack, Past
  <1>3. AnswerForged \/ AnswerOpen \/ AnswerAsk \/ EnterPassword \/ CreateAdmin \/ UNCHANGED vars
          => UNCHANGED <<cookie, proofs, now, secret>> /\ req' \in {None, req}
    BY DEF AnswerForged, AnswerOpen, AnswerAsk, Answered, EnterPassword, CreateAdmin, vars
  <1>4. ASSUME NEW outcome \in Outcomes, AnswerSession(outcome)
        PROVE  UNCHANGED <<cookie, proofs, now, secret>> /\ req' \in {None, req}
    BY <1>4 DEF AnswerSession, Answered
  <1>5. ASSUME NEW outcome \in Outcomes, AnswerBasic(outcome) PROVE ProofInv'
    <2>1. req' = None /\ UNCHANGED <<now, secret>>
      BY <1>5 DEF AnswerBasic, Answered
    <2>2. CASE outcome \in Raised
      BY <1>2, <1>5, <2>1, <2>2 DEF AnswerBasic
    <2>3. CASE outcome \notin Raised
      <3>1. /\ cookie' = SessionCookie(Rescue, TokenLife)
            /\ proofs' = [proofs EXCEPT ![Rescue] = [at |-> now, secret |-> secret]]
        BY <1>5, <2>3 DEF AnswerBasic
      <3>2. Past' /\ GoesBack(cookie)'
        BY <2>1, <3>1, NewProof, SessionAssumption DEF Users
      <3> QED
        BY <2>1, <3>2 DEF ProofInv, ReqGoesBack
    <2> QED
      BY <2>2, <2>3
  <1>6. CASE Logout
    <2>1. /\ cookie' = None /\ UNCHANGED <<proofs, now, secret>>
          /\ req # None => req' = [req EXCEPT !.late = TRUE]
          /\ req = None => req' = None
      BY <1>6 DEF Logout, LateReq
    <2>2. req # None => req'.cookie = req.cookie
      BY <2>1 DEF TypeOK, Requests
    <2> QED
      BY <1>0, <2>1, <2>2 DEF ProofInv, GoesBack, ReqGoesBack, Past
  <1>7. ASSUME NEW t \in Tabs, NEW next \in Pages \cup {None},
               OauthLogin(t, next) \/ SendCallback(t) \/ CallbackFails(t) \/ CallbackUnauthorized(t)
        PROVE  UNCHANGED <<cookie, proofs, now, secret>> /\ req' \in {None, req}
    BY <1>7 DEF OauthLogin, SendCallback, CallbackFails, CallbackUnauthorized
  <1>8. ASSUME NEW t \in Tabs, CallbackSignsIn(t) PROVE ProofInv'
    <2>1. /\ cookie' = SessionCookie(Account, CookieLife) /\ UNCHANGED <<req, now, secret>>
          /\ proofs' = [proofs EXCEPT ![Account] = [at |-> now, secret |-> secret]]
      BY <1>8 DEF CallbackSignsIn
    <2>2. CookieLife \in Nat /\ Account \in Users
      BY SessionAssumption DEF Users
    <2>3. /\ Past' /\ GoesBack(cookie)'
          /\ \A ck \in Token \cup {None} : GoesBack(ck) => GoesBack(ck)'
      BY <2>1, <2>2, NewProof
    <2>4. ASSUME req # None PROVE GoesBack(req.cookie)'
      <3>1. PICK ck \in Token \cup {None} : ck = req.cookie /\ GoesBack(ck)
        BY <1>0, <2>4 DEF ReqGoesBack
      <3>2. GoesBack(ck)'
        BY <2>3, <3>1
      <3> QED
        BY <2>1, <3>1, <3>2 DEF GoesBack
    <2>5. ReqGoesBack'
      BY <2>1, <2>4 DEF ReqGoesBack
    <2> QED
      BY <2>3, <2>5 DEF ProofInv
  <1>9. CASE Deploy
    <2>1. /\ secret' \in {secret, secret + 1} /\ UNCHANGED <<cookie, proofs, now>> /\ req' = None
      BY <1>9 DEF Deploy
    <2>2. \A u \in Users : proofs[u] # None => proofs[u].secret \in Nat
      BY DEF TypeOK, Proof
    <2>3. Past'
      BY <1>0, <2>1, <2>2 DEF Past
    <2> QED
      BY <1>0, <2>1, <2>3 DEF ProofInv, GoesBack, ReqGoesBack
  <1>10. CASE Tick
    <2>1. now' = now + 1 /\ cookie' \in {cookie, None} /\ UNCHANGED <<proofs, secret, req>>
      BY <1>10 DEF Tick, Fresh
    <2>2. \A u \in Users : proofs[u] # None => proofs[u].at \in Nat
      BY DEF TypeOK, Proof
    <2>3. Past'
      BY <1>0, <2>1, <2>2 DEF Past
    <2> QED
      BY <1>0, <2>1, <2>3 DEF ProofInv, GoesBack, ReqGoesBack
  <1> QED
    BY <1>1, <1>2, <1>3, <1>4, <1>5, <1>6, <1>7, <1>8, <1>9, <1>10 DEF Next, Browse, SignIn

(* Whoever the gate lets in by a cookie proved to be that user to the      *)
(* image that is running, at most TokenLife ago.                           *)
THEOREM OnlyProvenEnter == Spec => []AdmittedByProof
  <1>1. Init => ProofInv
    BY DEF Init, ProofInv, GoesBack, ReqGoesBack, Past
  <1>2. TypeOK /\ ProofInv /\ [Next]_vars => ProofInv'
    BY NextProofs
  <1>3. TypeOK /\ ProofInv => AdmittedByProof
    <2> SUFFICES ASSUME TypeOK, ProofInv, NEW ck \in InHand, VerifySessionToken(ck)
                 PROVE  /\ proofs[ck.user] # None
                        /\ now - proofs[ck.user].at <= TokenLife
                        /\ proofs[ck.user].secret = secret
      BY DEF AdmittedByProof
    <2>1. GoesBack(ck) /\ ck \in Token /\ now <= ck.exp /\ ck.key = secret
      BY DEF InHand, ProofInv, ReqGoesBack, VerifySessionToken, TypeOK, Requests
    <2>2. /\ ck.user \in Users /\ ck.exp \in Nat /\ now \in Nat /\ TokenLife \in Nat
          /\ proofs[ck.user] # None /\ proofs[ck.user] \in Proof /\ ck # None
      BY <2>1, SessionAssumption DEF GoesBack, Token, TypeOK, VerifySessionToken
    <2>3. proofs[ck.user].at \in Nat /\ proofs[ck.user].secret \in Nat /\ secret \in Nat
      BY <2>2 DEF Proof, TypeOK
    <2>4. proofs[ck.user].secret = secret
      BY <2>1, <2>2, <2>3 DEF GoesBack, ProofInv, Past
    <2>5. now - proofs[ck.user].at <= TokenLife
      BY <2>1, <2>2, <2>3 DEF GoesBack
    <2> QED
      BY <2>2, <2>4, <2>5
  <1> QED
    BY <1>1, <1>2, <1>3, TypeCorrect, PTL DEF Spec

---------------------------------------------------------------------------
(* States of sign-ins                                                      *)

(* Tokens are numbered as they are made; a spent one is not in the jar.    *)
TokenInv ==
  /\ \A n \in spent : n <= logins
  /\ \A t \in Tabs : tabs[t].step # "idle" => tabs[t].token \in Nat /\ tabs[t].token <= logins
  /\ stateCk # None => stateCk.token \notin spent
  /\ StateSingleUse

(* A sign-in nobody came in between of: what it needs is in the jar, or on *)
(* its way to the server.                                                  *)
Headed(t, path) == tabs[t].wanted # None => path = tabs[t].wanted

JarServes(t) ==
  /\ stateCk.token = tabs[t].token
  /\ tabs[t].wanted # None =>
       nextCk # None /\ nextCk.path = tabs[t].wanted /\ nextCk.until = stateCk.until

Undisturbed(t) ==
  tabs[t].good =>
    /\ tabs[t].step \in {"google", "sent"} /\ tabs[t].token \in Nat
    /\ tabs[t].step = "google" => stateCk # None
    /\ stateCk # None => JarServes(t)
    /\ tabs[t].step = "sent" /\ site.home =>
         tabs[t].state = tabs[t].token /\ Headed(t, tabs[t].next)

SignInInv == \A t \in Tabs : Undisturbed(t)

(* The steps that leave sign-ins and their cookies alone.                  *)
SignInVars == <<tabs, stateCk, nextCk, spent, logins>>

LEMMA SignInFrame ==
  ASSUME Browse \/ CreateAdmin \/ UNCHANGED vars, ~Logout
  PROVE  UNCHANGED SignInVars
  BY DEF Browse, Send, AnswerForged, AnswerOpen, AnswerAsk, AnswerSession, AnswerBasic,
         EnterPassword, CreateAdmin, SignInVars, vars, server, jar, history, bounds

(* What becomes of a tab's record, field by field.                         *)
LEMMA TabFields ==
  ASSUME TypeOK, NEW t \in Tabs
  PROVE  /\ tabs[t] \in SignIns
         /\ Returned(t).step = "google" /\ Returned(t).token = tabs[t].token
         /\ Returned(t).wanted = tabs[t].wanted
         /\ Returned(t).good = (tabs[t].good /\ stateCk # None)
         /\ [Returned(t) EXCEPT !.good = FALSE].step = "google"
         /\ [Returned(t) EXCEPT !.good = FALSE].token = tabs[t].token
         /\ [Returned(t) EXCEPT !.good = FALSE].good = FALSE
  BY DEF TypeOK, SignIns, Returned

(* A sign-in that another tab, a logout or the clock came in between of.   *)
Spoilt(t) == {[tabs[t] EXCEPT !.good = b] : b \in BOOLEAN}

LEMMA SpoiltFields ==
  ASSUME TypeOK, NEW t \in Tabs, NEW tab \in Spoilt(t)
  PROVE  /\ tab.step = tabs[t].step /\ tab.token = tabs[t].token
         /\ tab.wanted = tabs[t].wanted /\ tab.state = tabs[t].state
         /\ tab.next = tabs[t].next /\ tab.reused = tabs[t].reused
  <1>1. PICK b \in BOOLEAN : tab = [tabs[t] EXCEPT !.good = b]
    BY DEF Spoilt
  <1> QED
    BY <1>1 DEF TypeOK, SignIns

(* What a tab says of its token and its state.                             *)
TokenOf(t) ==
  /\ tabs[t].step # "idle" => tabs[t].token \in Nat /\ tabs[t].token <= logins
  /\ tabs[t].step = "sent" /\ tabs[t].reused => ~VerifyStateToken(tabs[t].token, tabs[t].state)

(* A token is new when it is made and spent once.                          *)
LEMMA NextTokens ==
  ASSUME TypeOK, TokenInv, [Next]_vars
  PROVE  TokenInv'
  <1> USE DEF server, jar, history, bounds
  <1>0. /\ logins \in Nat /\ spent \subseteq Nat /\ \A n \in spent : n <= logins
        /\ \A t \in Tabs : TokenOf(t)
        /\ stateCk # None => stateCk.token \notin spent
    BY SessionAssumption DEF TypeOK, TokenInv, TokenOf, StateSingleUse
  <1> SUFFICES /\ \A n \in spent' : n <= logins'
               /\ \A t \in Tabs : TokenOf(t)'
               /\ stateCk' # None => stateCk'.token \notin spent'
    BY DEF TokenInv, TokenOf, StateSingleUse, VerifyStateToken
  <1>s. ASSUME NEW u \in Tabs, UNCHANGED logins, tabs'[u] = tabs[u] PROVE TokenOf(u)'
    BY <1>0, <1>s DEF TokenOf, VerifyStateToken
  <1>g. ASSUME NEW u \in Tabs, UNCHANGED logins,
               tabs'[u] \in Spoilt(u)
        PROVE  TokenOf(u)'
    <2>1. /\ tabs'[u].step = tabs[u].step /\ tabs'[u].token = tabs[u].token
          /\ tabs'[u].state = tabs[u].state /\ tabs'[u].reused = tabs[u].reused
      BY <1>g, SpoiltFields
    <2> QED
      BY <1>0, <1>g, <2>1 DEF TokenOf, VerifyStateToken
  <1>r. ASSUME NEW u \in Tabs, UNCHANGED logins, tabs[u].step = "sent",
               tabs'[u] \in {Returned(u), [Returned(u) EXCEPT !.good = FALSE]}
        PROVE  TokenOf(u)'
    BY <1>0, <1>r, TabFields DEF TokenOf, VerifyStateToken
  <1>o. ASSUME NEW t \in Tabs, NEW u \in Tabs, u # t
        PROVE  Overtaken(t)[u] \in Spoilt(u)
    BY <1>o DEF Overtaken, Spoilt
  <1>1. CASE (Browse \/ CreateAdmin \/ UNCHANGED vars) /\ ~Logout
    BY <1>0, <1>1, <1>s, SignInFrame DEF SignInVars
  <1>2. CASE Logout
    <2>1. /\ stateCk' = None /\ UNCHANGED <<spent, logins>> /\ tabs' = NoGood
      BY <1>2 DEF Logout
    <2> QED
      BY <1>0, <1>g, <2>1 DEF NoGood, Spoilt
  <1>3. ASSUME NEW t \in Tabs, NEW next \in Pages \cup {None}, OauthLogin(t, next)
        PROVE  /\ \A n \in spent' : n <= logins'
               /\ \A u \in Tabs : TokenOf(u)'
               /\ stateCk' # None => stateCk'.token \notin spent'
    <2>1. /\ logins' = logins + 1 /\ spent' = spent /\ stateCk'.token = logins + 1
          /\ tabs'[t].step = "google" /\ tabs'[t].token = logins + 1
          /\ \A u \in Tabs \ {t} : tabs'[u] = Overtaken(t)[u]
      BY <1>3, TabTypes DEF OauthLogin, NoSignIn
    <2>2. logins + 1 \in Nat /\ logins <= logins + 1 /\ ~(logins + 1 <= logins)
      BY <1>0
    <2>3. TokenOf(t)'
      BY <2>1, <2>2 DEF TokenOf
    <2>4. ASSUME NEW u \in Tabs \ {t} PROVE TokenOf(u)'
      <3>1. tabs'[u] \in Spoilt(u)
        BY <1>o, <2>1
      <3>2. /\ tabs'[u].step = tabs[u].step /\ tabs'[u].token = tabs[u].token
            /\ tabs'[u].state = tabs[u].state /\ tabs'[u].reused = tabs[u].reused
        BY <3>1, SpoiltFields
      <3>3. tabs[u].token \in Nat /\ tabs[u].token <= logins => tabs[u].token <= logins'
        BY <1>0, <2>1
      <3> QED
        BY <1>0, <3>2, <3>3 DEF TokenOf, VerifyStateToken
    <2>5. \A n \in spent' : n <= logins'
      BY <1>0, <2>1
    <2>6. stateCk'.token \notin spent'
      BY <1>0, <2>1, <2>2
    <2> QED
      BY <2>3, <2>4, <2>5, <2>6
  <1>4. ASSUME NEW t \in Tabs, SendCallback(t)
        PROVE  /\ \A n \in spent' : n <= logins'
               /\ \A u \in Tabs : TokenOf(u)'
               /\ stateCk' # None => stateCk'.token \notin spent'
    <2>1. /\ UNCHANGED <<logins, spent, stateCk>> /\ tabs[t].step = "google"
          /\ \A u \in Tabs \ {t} : tabs'[u] = tabs[u]
      BY <1>4 DEF SendCallback, TypeOK
    <2>2. /\ tabs'[t].token = tabs[t].token /\ tabs'[t].reused = (tabs[t].token \in spent)
          /\ tabs'[t].state = SentState
      BY <1>4 DEF SendCallback, TypeOK, SignIns
    <2>3. TokenOf(t)'
      BY <1>0, <2>1, <2>2 DEF TokenOf, VerifyStateToken, SentState
    <2> QED
      BY <1>0, <1>s, <2>1, <2>3
  <1>5. ASSUME NEW t \in Tabs, CallbackFails(t)
        PROVE  /\ \A n \in spent' : n <= logins'
               /\ \A u \in Tabs : TokenOf(u)'
               /\ stateCk' # None => stateCk'.token \notin spent'
    <2>1. /\ UNCHANGED <<logins, spent, stateCk>> /\ tabs[t].step = "sent"
          /\ tabs'[t] = Returned(t) /\ \A u \in Tabs \ {t} : tabs'[u] = tabs[u]
      BY <1>5 DEF CallbackFails, TypeOK
    <2> QED
      BY <1>0, <1>s, <1>r, <2>1
  <1>6. ASSUME NEW t \in Tabs, CallbackUnauthorized(t) \/ CallbackSignsIn(t)
        PROVE  /\ \A n \in spent' : n <= logins'
               /\ \A u \in Tabs : TokenOf(u)'
               /\ stateCk' # None => stateCk'.token \notin spent'
    <2>1. /\ UNCHANGED logins /\ spent' \in {spent, spent \cup {tabs[t].token}}
          /\ stateCk' = None /\ tabs[t].step = "sent"
          /\ tabs' = [Overtaken(t) EXCEPT ![t] = [Returned(t) EXCEPT !.good = FALSE]]
      BY <1>6 DEF CallbackUnauthorized, CallbackSignsIn
    <2>2. /\ tabs'[t] = [Returned(t) EXCEPT !.good = FALSE]
          /\ \A u \in Tabs \ {t} : tabs'[u] = Overtaken(t)[u]
      BY <2>1, TabTypes
    <2>3. \A n \in spent' : n <= logins'
      BY <1>0, <2>1 DEF TokenOf
    <2> QED
      BY <1>r, <1>g, <1>o, <2>1, <2>2, <2>3
  <1>7. CASE Deploy
    <2>1. /\ UNCHANGED <<logins, spent, stateCk>>
          /\ \A t \in Tabs : tabs'[t] = IF tabs[t].step = "sent" THEN Returned(t) ELSE tabs[t]
      BY <1>7 DEF Deploy
    <2> QED
      BY <1>0, <1>s, <1>r, <2>1
  <1>8. CASE Tick
    <2>1. /\ UNCHANGED <<logins, spent>> /\ stateCk' \in {stateCk, None}
          /\ \A t \in Tabs : tabs'[t] \in Spoilt(t)
      BY <1>8 DEF Tick, Fresh, Spoilt
    <2> QED
      BY <1>0, <1>g, <2>1
  <1> QED
    BY <1>1, <1>2, <1>3, <1>4, <1>5, <1>6, <1>7, <1>8 DEF Next, SignIn

(* No callback passes with a state a session was already issued for, for   *)
(* any number of tabs, however they interleave.                            *)
THEOREM StatesAreSpent == Spec => []StateSingleUse
  <1>1. Init => TokenInv
    BY DEF Init, TokenInv, StateSingleUse, NoSignIn
  <1>2. TypeOK /\ TokenInv /\ [Next]_vars => TokenInv'
    BY NextTokens
  <1>3. TokenInv => StateSingleUse
    BY DEF TokenInv
  <1> QED
    BY <1>1, <1>2, <1>3, TypeCorrect, PTL DEF Spec

(* A sign-in's cookies are its own as long as it is undisturbed.           *)
LEMMA NextSignIn ==
  ASSUME TypeOK, SignInInv, [Next]_vars
  PROVE  SignInInv'
  <1> USE DEF server, jar, history, bounds
  <1>0. \A t \in Tabs : Undisturbed(t)
    BY DEF SignInInv
  <1> SUFFICES \A t \in Tabs : Undisturbed(t)'
    BY DEF SignInInv
  <1>h. site' = site
    BY DEF Next, Browse, SignIn, Send, AnswerForged, AnswerOpen, AnswerAsk, AnswerSession,
           AnswerBasic, EnterPassword, Logout, OauthLogin, SendCallback, CallbackFails,
           CallbackUnauthorized, CallbackSignsIn, Deploy, CreateAdmin, Tick, vars
  <1> USE <1>h
  <1>s. ASSUME NEW u \in Tabs, UNCHANGED <<stateCk, nextCk>>, tabs'[u] = tabs[u]
        PROVE  Undisturbed(u)'
    BY <1>0, <1>s DEF Undisturbed, JarServes, Headed
  <1>b. ASSUME NEW u \in Tabs, ~tabs'[u].good PROVE Undisturbed(u)'
    BY <1>b DEF Undisturbed
  <1>r. ASSUME NEW u \in Tabs, UNCHANGED <<stateCk, nextCk>>, tabs[u].step = "sent",
               tabs'[u] = Returned(u)
        PROVE  Undisturbed(u)'
    <2>1. /\ tabs'[u].step = "google" /\ tabs'[u].token = tabs[u].token
          /\ tabs'[u].wanted = tabs[u].wanted /\ tabs'[u].good = (tabs[u].good /\ stateCk # None)
      BY <1>r, TabFields
    <2> QED
      BY <1>0, <1>r, <2>1 DEF Undisturbed, JarServes
  <1>o. ASSUME NEW t \in Tabs, NEW u \in Tabs, u # t PROVE ~Overtaken(t)[u].good
    BY <1>o DEF Overtaken, TypeOK, SignIns
  <1>1. CASE (Browse \/ CreateAdmin \/ UNCHANGED vars) /\ ~Logout
    BY <1>1, <1>s, SignInFrame DEF SignInVars
  <1>2. CASE Logout
    <2>1. \A t \in Tabs : ~tabs'[t].good
      BY <1>2 DEF Logout, NoGood, TypeOK, SignIns
    <2> QED
      BY <1>b, <2>1
  <1>3. ASSUME NEW t \in Tabs, NEW next \in Pages \cup {None}, OauthLogin(t, next)
        PROVE  \A u \in Tabs : Undisturbed(u)'
    <2>1. /\ stateCk' = [token |-> logins + 1, until |-> now + TempLife]
          /\ nextCk' = NextCookie(next)
          /\ \A u \in Tabs \ {t} : tabs'[u] = Overtaken(t)[u]
      BY <1>3, TabTypes DEF OauthLogin
    <2>2. tabs'[t].step = "google" /\ tabs'[t].token = logins + 1 /\ tabs'[t].wanted = next
      BY <1>3, TabTypes DEF OauthLogin, NoSignIn
    <2>3. logins + 1 \in Nat /\ now + TempLife \in Nat
      BY SessionAssumption DEF TypeOK
    <2>4. stateCk' \in StateCookie
      BY <2>1, <2>3 DEF StateCookie
    <2>5. stateCk' # None /\ stateCk'.token = logins + 1 /\ stateCk'.until = now + TempLife
      BY <2>1, <2>4, SessionAssumption
    <2>6. next # None => nextCk' = [path |-> next, until |-> now + TempLife]
      BY <2>1 DEF NextCookie
    <2>7. next # None => nextCk' \in NextCookies
      BY <2>3, <2>6 DEF NextCookies
    <2>8. next # None => nextCk' # None /\ nextCk'.path = next /\ nextCk'.until = now + TempLife
      BY <2>6, <2>7, SessionAssumption
    <2>9. JarServes(t)'
      BY <2>2, <2>5, <2>8 DEF JarServes
    <2>10. Undisturbed(t)'
      BY <2>2, <2>3, <2>5, <2>9 DEF Undisturbed
    <2> QED
      BY <1>b, <1>o, <2>1, <2>10
  <1>4. ASSUME NEW t \in Tabs, SendCallback(t) PROVE \A u \in Tabs : Undisturbed(u)'
    <2>1. /\ UNCHANGED <<stateCk, nextCk>> /\ tabs[t].step = "google"
          /\ \A u \in Tabs \ {t} : tabs'[u] = tabs[u]
      BY <1>4 DEF SendCallback, TypeOK
    <2>2. /\ tabs'[t].step = "sent" /\ tabs'[t].token = tabs[t].token
          /\ tabs'[t].wanted = tabs[t].wanted /\ tabs'[t].good = tabs[t].good
          /\ tabs'[t].state = SentState
          /\ tabs'[t].next = SentNext
      BY <1>4 DEF SendCallback, TypeOK, SignIns
    <2>3. Undisturbed(t)'
      BY <1>0, <2>1, <2>2 DEF Undisturbed, JarServes, Headed, SentState, SentNext
    <2> QED
      BY <1>s, <2>1, <2>3
  <1>5. ASSUME NEW t \in Tabs, CallbackFails(t) PROVE \A u \in Tabs : Undisturbed(u)'
    <2>1. /\ UNCHANGED <<stateCk, nextCk>> /\ tabs[t].step = "sent"
          /\ tabs'[t] = Returned(t) /\ \A u \in Tabs \ {t} : tabs'[u] = tabs[u]
      BY <1>5 DEF CallbackFails, TypeOK
    <2> QED
      BY <1>s, <1>r, <2>1
  <1>6. ASSUME NEW t \in Tabs, CallbackUnauthorized(t) \/ CallbackSignsIn(t)
        PROVE  \A u \in Tabs : Undisturbed(u)'
    <2>1. tabs' = [Overtaken(t) EXCEPT ![t] = [Returned(t) EXCEPT !.good = FALSE]]
      BY <1>6 DEF CallbackUnauthorized, CallbackSignsIn
    <2>2. /\ tabs'[t] = [Returned(t) EXCEPT !.good = FALSE]
          /\ \A u \in Tabs \ {t} : tabs'[u] = Overtaken(t)[u]
      BY <2>1, TabTypes
    <2>3. ~tabs'[t].good
      BY <2>2, TabFields
    <2> QED
      BY <1>b, <1>o, <2>2, <2>3
  <1>7. CASE Deploy
    <2>1. /\ UNCHANGED <<stateCk, nextCk>>
          /\ \A t \in Tabs : tabs'[t] = IF tabs[t].step = "sent" THEN Returned(t) ELSE tabs[t]
      BY <1>7 DEF Deploy
    <2> QED
      BY <1>s, <1>r, <2>1
  <1>8. ASSUME Tick, NEW t \in Tabs PROVE Undisturbed(t)'
    <2>1. stateCk' = Fresh(stateCk) /\ nextCk' = Fresh(nextCk)
      BY <1>8 DEF Tick
    <2>2. tabs'[t] \in Spoilt(t)
      BY <1>8 DEF Tick, Spoilt
    <2>3. /\ tabs'[t].step = tabs[t].step /\ tabs'[t].token = tabs[t].token
          /\ tabs'[t].wanted = tabs[t].wanted /\ tabs'[t].state = tabs[t].state
          /\ tabs'[t].next = tabs[t].next
      BY <2>2, SpoiltFields
    <2>4. tabs'[t].good = (tabs[t].good /\ (Fresh(stateCk) = stateCk \/ tabs[t].step = "sent"))
      BY <1>8 DEF Tick, TypeOK, SignIns
    <2>5. stateCk # None /\ Fresh(stateCk) # None /\ nextCk # None /\ nextCk.until = stateCk.until
            => Fresh(nextCk) = nextCk
      BY DEF Fresh
    <2>6. Fresh(stateCk) # None => Fresh(stateCk) = stateCk /\ stateCk # None
      BY DEF Fresh
    <2>7. tabs[t].good /\ Fresh(stateCk) # None => JarServes(t)'
      BY <1>0, <2>1, <2>3, <2>5, <2>6 DEF Undisturbed, JarServes
    <2> QED
      BY <1>0, <2>1, <2>3, <2>4, <2>7 DEF Undisturbed, Headed
  <1> QED
    BY <1>1, <1>2, <1>3, <1>4, <1>5, <1>6, <1>7, <1>8 DEF Next, SignIn

(* Begun on the host Google leads back to, a sign-in nobody came in        *)
(* between of passes the check of its state and ends where it was headed,  *)
(* for any number of tabs and lifetimes.                                   *)
THEOREM UndisturbedSignInWorks == Spec => []SignInWorks
  <1>1. Init => SignInInv
    BY DEF Init, SignInInv, Undisturbed, NoSignIn
  <1>2. TypeOK /\ SignInInv /\ [Next]_vars => SignInInv'
    BY NextSignIn
  <1>3. SignInInv => SignInWorks
    BY SessionAssumption DEF SignInInv, Undisturbed, Headed, SignInWorks, VerifyStateToken
  <1> QED
    BY <1>1, <1>2, <1>3, TypeCorrect, PTL DEF Spec

---------------------------------------------------------------------------
(* Signing out, and what answers say                                       *)

(* Once out, the browser has no cookie and sends none, unless a remembered *)
(* password may bring it one.                                              *)
OutInv ==
  out =>
    /\ ~site.browser => basic = None
    /\ basic = None =>
         /\ cookie = None
         /\ req # None /\ ~req.late => req.cookie = None /\ req.basic = None

(* Only a proof of identity ends being signed out.                         *)
LEMMA NextOut ==
  ASSUME TypeOK, OutInv, [Next]_vars
  PROVE  OutInv'
  <1> USE DEF server, jar, history, bounds, OutInv
  <1>1. ASSUME NEW path \in Pages, NEW write \in BOOLEAN, NEW foreign \in BOOLEAN,
               Send(path, write, foreign)
        PROVE  OutInv'
    <2>1. /\ req'.cookie \in {None, cookie} /\ req'.basic = basic
          /\ UNCHANGED <<site, cookie, basic, out>>
      BY <1>1 DEF Send
    <2> QED
      BY <2>1
  <1>2. CASE UNCHANGED <<site, basic, out>> /\ cookie' \in {None, cookie} /\ req' \in {None, req}
    BY <1>2
  <1>3. AnswerForged \/ AnswerOpen \/ AnswerAsk \/ Deploy \/ CreateAdmin \/ Tick \/ UNCHANGED vars
          => /\ UNCHANGED <<site, basic, out>> /\ cookie' \in {None, cookie}
             /\ req' \in {None, req}
    BY DEF AnswerForged, AnswerOpen, AnswerAsk, Answered, Deploy, CreateAdmin, Tick, Fresh, vars
  <1>4. ASSUME NEW outcome \in Outcomes, AnswerSession(outcome)
        PROVE  UNCHANGED <<site, basic, out, cookie>> /\ req' \in {None, req}
    BY <1>4 DEF AnswerSession, Answered
  <1>5. ASSUME NEW outcome \in Outcomes, AnswerBasic(outcome) PROVE OutInv'
    <2>1. /\ req' = None /\ req # None /\ req.basic # None /\ UNCHANGED <<site, basic>>
          /\ \/ UNCHANGED <<cookie, out>>
             \/ out' = (out /\ ~req.late)
      BY <1>5 DEF AnswerBasic, Answered, Gated, VerifyPassword
    <2> QED
      BY <2>1
  <1>6. CASE EnterPassword
    BY <1>6 DEF EnterPassword
  <1>7. CASE Logout
    <2>1. /\ cookie' = None /\ basic' = (IF site.browser THEN basic ELSE None)
          /\ UNCHANGED site /\ req' = LateReq
      BY <1>7 DEF Logout
    <2>2. req' # None => req'.late
      BY <2>1 DEF LateReq, TypeOK, Requests
    <2> QED
      BY <2>1, <2>2
  <1>8. ASSUME NEW t \in Tabs, NEW next \in Pages \cup {None},
               OauthLogin(t, next) \/ SendCallback(t) \/ CallbackFails(t) \/ CallbackUnauthorized(t)
        PROVE  UNCHANGED <<site, basic, out, cookie>> /\ req' \in {None, req}
    BY <1>8 DEF OauthLogin, SendCallback, CallbackFails, CallbackUnauthorized
  <1>9. ASSUME NEW t \in Tabs, CallbackSignsIn(t) PROVE OutInv'
    BY <1>9 DEF CallbackSignsIn
  <1> QED
    BY <1>1, <1>2, <1>3, <1>4, <1>5, <1>6, <1>7, <1>8, <1>9 DEF Next, Browse, SignIn

(* A logout ends every way in the browser holds, but for a password it     *)
(* remembers on the browser-facing host.                                   *)
THEOREM LogoutIsFinal == Spec => []LogoutEnds
  <1>1. Init => OutInv
    BY DEF Init, OutInv
  <1>2. TypeOK /\ OutInv /\ [Next]_vars => OutInv'
    BY NextOut
  <1>3. OutInv => LogoutEnds
    BY DEF OutInv, LogoutEnds, VerifySessionToken, VerifyPassword
  <1> QED
    BY <1>1, <1>2, <1>3, TypeCorrect, PTL DEF Spec

(* Only what a handler carries out changes the count, and it is the only   *)
(* way to an answer ok.                                                    *)
LEMMA HandledWrite ==
  ASSUME TypeOK, NEW user, NEW outcome \in Outcomes, Handle(user, outcome), req.write,
         NEW raised \in {"500", "login", "challenge"}
  PROVE  /\ Says(outcome, raised) = "ok" => changes' = changes + 1
         /\ changes' # changes => Says(outcome, raised) \in {"ok", raised}
  <1>1. CASE outcome = "ok" \/ outcome = "raised late"
    <2>1. changes' = changes + 1
      BY <1>1 DEF Handle, Work
    <2>2. Says(outcome, raised) \in {"ok", raised}
      BY <1>1 DEF Says
    <2> QED
      BY <2>1, <2>2
  <1>2. CASE outcome = "raised" \/ outcome = "refused"
    <2>1. changes' = changes
      BY <1>2 DEF Handle
    <2>2. Says(outcome, raised) # "ok"
      BY <1>2 DEF Says, Refusal
    <2> QED
      BY <2>1, <2>2
  <1> QED
    BY <1>1, <1>2 DEF Outcomes

(* A write answered ok was carried out, and under a session one that was   *)
(* carried out is not answered like a refusal, for every caller, path and  *)
(* outcome of the handler.                                                 *)
THEOREM AnswersAreTrue == Spec => AnswersTellTheTruth
  <1>1. TypeOK /\ [Next]_vars =>
          [req # None /\ req.write /\ req' = None /\ last' # NoAnswer =>
             /\ last' = "ok" => changes' = changes + 1
             /\ changes' # changes /\ VerifySessionToken(req.cookie)
                  => last' \in {"ok", "500"}]_vars
    <2> SUFFICES ASSUME TypeOK, Next, req # None, req.write, req' = None, last' # NoAnswer
                 PROVE  /\ last' = "ok" => changes' = changes + 1
                        /\ changes' # changes /\ VerifySessionToken(req.cookie)
                             => last' \in {"ok", "500"}
      BY DEF vars
    <2> USE DEF server, jar, history, bounds
    <2>1. CASE AnswerForged \/ AnswerAsk \/ AnswerOpen
      BY <2>1 DEF AnswerForged, AnswerAsk, AnswerOpen, Answered, Asks
    <2>2. ASSUME NEW outcome \in Outcomes, AnswerSession(outcome)
          PROVE  /\ last' = "ok" => changes' = changes + 1
                 /\ changes' # changes => last' \in {"ok", "500"}
      <3>1. Handle(req.cookie.user, outcome) /\ last' = Says(outcome, "500")
        BY <2>2 DEF AnswerSession, Answered
      <3> QED
        BY <3>1, HandledWrite
    <2>3. ASSUME NEW outcome \in Outcomes, AnswerBasic(outcome)
          PROVE  last' = "ok" => changes' = changes + 1
      <3>1. Handle(Rescue, outcome) /\ last' = Says(outcome, Asks)
        BY <2>3 DEF AnswerBasic, Answered
      <3>2. Asks \in {"login", "challenge"}
        BY DEF Asks
      <3> QED
        BY <3>1, <3>2, HandledWrite
    <2>4. \A outcome \in Outcomes : AnswerBasic(outcome) => ~VerifySessionToken(req.cookie)
      BY DEF AnswerBasic
    <2>5. \/ AnswerForged \/ AnswerAsk \/ AnswerOpen
          \/ \E outcome \in Outcomes : AnswerSession(outcome) \/ AnswerBasic(outcome)
      BY DEF Next, Browse, SignIn, Send, EnterPassword, Logout, OauthLogin, SendCallback,
             CallbackFails, CallbackUnauthorized, CallbackSignsIn, Deploy, CreateAdmin, Tick
    <2> QED
      BY <2>1, <2>2, <2>3, <2>4, <2>5
  <1> QED
    BY <1>1, TypeCorrect, PTL DEF Spec, AnswersTellTheTruth
=============================================================================
