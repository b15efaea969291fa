---------------------------- MODULE AdminSession ----------------------------
(***************************************************************************)
(* Who an administrator's browser is to the server: the gate in front of   *)
(* the admin and customer pages (main.py), the session cookie and the      *)
(* password file (admin_auth.py), the Google sign-in (routes_oauth.py,     *)
(* oauth.py) and the routes behind the gate as far as they ask who the     *)
(* caller is (dependencies.py, the admin_users routes of routes_admin.py). *)
(*                                                                         *)
(* One browser with several tabs, one account at Google, one user in the   *)
(* password file.  A request carries the cookies of the moment it is sent; *)
(* what its answer sets arrives later, so that the tabs, a logout and a    *)
(* redeployment come in between.                                           *)
(***************************************************************************)
EXTENDS Naturals, Sequences, FiniteSets

CONSTANTS
  Account,    \* the Google account, by its e-mail address
  Rescue,     \* the user of the password file, one of RESCUE_USERS
  Sites,      \* deployments: is the host the browser-facing one, is OAuth on,
              \* does STRA2US_OAUTH_REDIRECT_URI lead back to this host, is the
              \* session secret pinned by ADMIN_SESSION_SECRET
  Pages,      \* paths the browser asks for, as segments
  Tabs,
  None,       \* no value
  TempLife,   \* OAUTH_TEMP_COOKIE_TTL_SECONDS
  TokenLife,  \* 24 hours
  CookieLife, \* 7 days
  MaxTime,    \* bound: the clock
  MaxLogins,  \* bound: sign-ins started
  MaxChanges, \* bound: redeployments, new passwords and writes carried out
  MaxOnWay    \* bound: requests and callbacks that are on their way at once

Users == {Account, Rescue}
Levels == {"none", "empty", "page", "super"} \* no row, one that allows nothing,
                                             \* the device's page only, *:rw
AdminUsers == <<"api", "admin", "admin_users">>

Token == [user : Users, exp : Nat, key : Nat, until : Nat]
StateCookie == [token : Nat, until : Nat]
NextCookies == [path : Pages, until : Nat]
Proof == [at : Nat, secret : Nat]

ASSUME SessionAssumption ==
  /\ Account # Rescue
  /\ None \notin Users \cup Pages /\ None \notin Nat
  /\ None \notin Proof /\ None \notin StateCookie /\ None \notin NextCookies
  /\ Sites \subseteq [browser : BOOLEAN, oauth : BOOLEAN, home : BOOLEAN, pinned : BOOLEAN]
  /\ \A p \in Pages : p \in Seq(STRING) /\ p # <<>>
  /\ TempLife \in Nat \ {0} /\ TokenLife \in Nat \ {0} /\ CookieLife \in Nat \ {0}
  /\ MaxTime \in Nat /\ MaxLogins \in Nat /\ MaxChanges \in Nat /\ MaxOnWay \in Nat

VARIABLES
  site,      \* the deployment
  now,       \* the clock
  secret,    \* SESSION_SECRET: which image is running
  password,  \* which password the file holds
  rows,      \* admin_acls:<user>
  cookie,    \* the browser's admin_session: user, expiry and signing secret of
             \* the token, and when the browser drops it
  stateCk,   \* the browser's oauth_state
  nextCk,    \* the browser's oauth_redirect_to
  basic,     \* the password the browser remembers for the host
  req,       \* the request on its way, with what the browser sent along
  tabs,      \* each tab's sign-in
  last,      \* the last answer
  proofs,    \* history: when each user last proved to be it, under which secret
  spent,     \* history: state tokens a session was issued for
  out,       \* history: signed out, and not in again
  logins,    \* history: sign-ins started
  changes    \* history: redeployments, new passwords, writes carried out

server == <<secret, password, rows>>
jar == <<cookie, stateCk, nextCk, basic>>
history == <<proofs, spent, out>>
bounds == <<logins, changes>>
vars == <<site, now, server, jar, req, tabs, last, history, bounds>>

NoAnswer == "none"
NoSignIn == [step |-> "idle", token |-> None, wanted |-> None, state |-> None,
             next |-> None, good |-> FALSE, reused |-> FALSE]

Init ==
  /\ site \in Sites
  /\ now = 0 /\ secret = 0 /\ password = 0
  /\ rows \in [Users -> {"none", "super"}] /\ rows[Rescue] = "none"
  /\ cookie = None /\ stateCk = None /\ nextCk = None /\ basic = None
  /\ req = None /\ tabs = [t \in Tabs |-> NoSignIn] /\ last = NoAnswer
  /\ proofs = [u \in Users |-> None] /\ spent = {} /\ out = FALSE
  /\ logins = 0 /\ changes = 0

---------------------------------------------------------------------------
(* The gate                                                                *)

(* _path_needs_admin_auth, by segments; /admin/logout is Logout below.     *)
NeedsAdminAuth(path) ==
  \/ path[1] = "admin"
  \/ Len(path) > 1 /\ path[1] = "api" /\ path[2] = "admin"
  \/ path = <<"app">>
  \/ path = <<"api", "app", "lookup_device">>
  \/ /\ Len(path) > 1 /\ path[1] = "app" /\ path[2] # "_static"
     /\ \A i \in 2..(Len(path) - 1) : path[i] # "_assets"
     /\ path[Len(path)] # "_theme.css"

(* The handler the routers choose.  A form is posted to the path of a      *)
(* page, and `_theme.css` is a device's name to it.                        *)
Handler(path, write) ==
  CASE path[1] = "admin" -> "shell"
    [] path = AdminUsers -> "admin_users"
    [] path[1] = "app" /\ Len(path) = 3 /\ path[2] # "_static" /\ (write \/ path[3] # "_theme.css")
         -> "page"
    [] OTHER -> "public"

(* Mutant: an expired token is as good as any.                             *)
VerifySessionTokenForever(token) == token # None /\ token.key = secret

VerifySessionToken(token) ==
  token # None /\ now <= token.exp /\ token.key = secret

VerifyPassword(guess) == guess # None /\ guess = password

CsrfOriginOk(r) == ~r.foreign

(* The 302 to the Google sign-in, or the dialog of the browser.            *)
Asks == IF site.browser /\ site.oauth THEN "login" ELSE "challenge"

(* load_admin_acl and require_admin_superuser: a user of RESCUE_USERS      *)
(* needs no row.                                                           *)
IsSuper(user) == rows[user] = "super" \/ (user = Rescue /\ rows[user] = "none")

---------------------------------------------------------------------------
(* A request                                                               *)

OnWay == Cardinality({t \in Tabs : tabs[t].step = "sent"}) + (IF req = None THEN 0 ELSE 1)

(* A write another site makes the browser send carries the remembered      *)
(* password, and no cookie: SameSite=lax.                                  *)
Send(path, write, foreign) ==
  /\ req = None /\ OnWay < MaxOnWay
  /\ foreign => write
  /\ req' = [path |-> path, write |-> write, foreign |-> foreign, late |-> FALSE,
             cookie |-> IF foreign THEN None ELSE cookie, basic |-> basic]
  /\ last' = NoAnswer
  /\ UNCHANGED <<site, now, server, jar, tabs, history, bounds>>

(* require_admin_superuser guards the rows, check_acl the device's page;   *)
(* the other paths are for reading, by anyone who is in.                   *)
May(user) ==
  CASE Handler(req.path, req.write) = "admin_users" -> IsSuper(user)
    [] Handler(req.path, req.write) = "page" -> IsSuper(user) \/ rows[user] = "page"
    [] OTHER -> ~req.write

(* Who may not see the page gets the landing page instead, or is led to it *)
(* when he submits the form.                                               *)
Refusal ==
  CASE Handler(req.path, req.write) = "admin_users" -> "403"
    [] Handler(req.path, req.write) = "page" -> "landing"
    [] OTHER -> "405"

(* PUT and DELETE /admin_users/<user>/acl, or the form of the page.        *)
Work ==
  /\ changes' = IF req.write THEN changes + 1 ELSE changes
  /\ changes' <= MaxChanges
  /\ IF req.write /\ req.path = AdminUsers
     THEN \E u \in Users, level \in Levels : rows' = [rows EXCEPT ![u] = level]
     ELSE rows' = rows

Outcomes == {"refused", "ok", "raised", "raised late"}

(* What the handler does for a user: it refuses, it does its work, or it   *)
(* raises, before its work or after.                                       *)
Handle(user, outcome) ==
  CASE outcome = "raised" -> UNCHANGED <<rows, changes>>
    [] outcome = "refused" -> ~May(user) /\ UNCHANGED <<rows, changes>>
    [] outcome \in {"ok", "raised late"} -> May(user) /\ Work

Raised == {"raised", "raised late"}

(* What is answered, where `raised` is the answer to an exception.         *)
Says(outcome, raised) ==
  CASE outcome = "ok" -> "ok" [] outcome = "refused" -> Refusal [] OTHER -> raised

Answered(answer) == req' = None /\ last' = answer

(* A write from a foreign origin is refused before anything else.          *)
AnswerForged ==
  /\ req # None
  /\ req.write /\ NeedsAdminAuth(req.path) /\ ~CsrfOriginOk(req)
  /\ Answered("403")
  /\ UNCHANGED <<site, now, server, jar, tabs, history, bounds>>

(* A path that is not gated: a handler that wants a user says 401 itself.  *)
AnswerOpen ==
  /\ req # None
  /\ ~NeedsAdminAuth(req.path)
  /\ Answered(IF Handler(req.path, req.write) # "public" THEN "401"
              ELSE IF req.write THEN "405" ELSE "ok")
  /\ UNCHANGED <<site, now, server, jar, tabs, history, bounds>>

Gated ==
  /\ req # None
  /\ NeedsAdminAuth(req.path)
  /\ req.write => CsrfOriginOk(req)

(* Mutant: what the handler raises is swallowed here too.                  *)
AnswerSessionSwallowing(outcome) ==
  /\ Gated /\ VerifySessionToken(req.cookie)
  /\ Handle(req.cookie.user, outcome)
  /\ Answered(Says(outcome, Asks))
  /\ UNCHANGED <<site, now, secret, password, jar, tabs, history, logins>>

(* The session cookie is looked at first.  It is not renewed.              *)
AnswerSession(outcome) ==
  /\ Gated /\ VerifySessionToken(req.cookie)
  /\ Handle(req.cookie.user, outcome)
  /\ Answered(Says(outcome, "500"))
  /\ UNCHANGED <<site, now, secret, password, jar, tabs, history, logins>>

SessionCookie(user, life) ==
  [user |-> user, exp |-> now + TokenLife, key |-> secret, until |-> now + life]

(* Then the password, which brings a cookie; what the handler raises is    *)
(* swallowed, and the caller is asked to sign in.                          *)
AnswerBasic(outcome) ==
  /\ Gated /\ ~VerifySessionToken(req.cookie) /\ VerifyPassword(req.basic)
  /\ Handle(Rescue, outcome)
  /\ Answered(Says(outcome, Asks))
  /\ IF outcome \in Raised
     THEN UNCHANGED <<cookie, proofs, out>>
     ELSE /\ cookie' = SessionCookie(Rescue, TokenLife)
          /\ proofs' = [proofs EXCEPT ![Rescue] = [at |-> now, secret |-> secret]]
          /\ out' = (out /\ ~req.late)
  /\ UNCHANGED <<site, now, secret, password, stateCk, nextCk, basic, tabs, spent, logins>>

AnswerAsk ==
  /\ Gated /\ ~VerifySessionToken(req.cookie) /\ ~VerifyPassword(req.basic)
  /\ Answered(Asks)
  /\ UNCHANGED <<site, now, server, jar, tabs, history, bounds>>

(* The administrator answers the browser's dialog.                         *)
EnterPassword ==
  /\ last = "challenge"
  /\ basic' = password /\ out' = FALSE
  /\ last' = NoAnswer
  /\ UNCHANGED <<site, now, server, cookie, stateCk, nextCk, req, tabs, proofs, spent, bounds>>

---------------------------------------------------------------------------
(* Signing in with Google                                                  *)

(* What one tab does to the cookies the other tabs' sign-ins count on.     *)
Overtaken(t) == [u \in Tabs |-> IF u = t THEN tabs[u] ELSE [tabs[u] EXCEPT !.good = FALSE]]

(* Mutant: a destination that is still there is kept.                      *)
NextCookieKept(next) ==
  IF next = None \/ nextCk # None THEN nextCk ELSE [path |-> next, until |-> now + TempLife]

(* A sign-in without `next` leaves the destination of an earlier one.      *)
NextCookie(next) ==
  IF next = None THEN nextCk ELSE [path |-> next, until |-> now + TempLife]

(* GET /oauth/google/login, in a tab, bounced from `next` or not.          *)
OauthLogin(t, next) ==
  /\ site.oauth /\ logins < MaxLogins
  /\ tabs[t].step # "sent"
  /\ stateCk' = [token |-> logins + 1, until |-> now + TempLife]
  /\ nextCk' = NextCookie(next)
  /\ tabs' = [Overtaken(t) EXCEPT ![t] = [NoSignIn EXCEPT
                !.step = "google", !.token = logins + 1, !.wanted = next, !.good = TRUE]]
  /\ logins' = logins + 1
  /\ last' = NoAnswer
  /\ UNCHANGED <<site, now, server, cookie, basic, req, history, changes>>

SentState == IF site.home /\ stateCk # None THEN stateCk.token ELSE None
SentNext == IF site.home /\ nextCk # None THEN nextCk.path ELSE None

(* Google sends the tab to the redirect URI, or the tab reloads the        *)
(* address it came to.  If that is on another host than the sign-in began  *)
(* on, this host's cookies stay behind; what the browser holds for that    *)
(* host is of other sign-ins and left out.                                 *)
SendCallback(t) ==
  /\ tabs[t].step = "google" /\ OnWay < MaxOnWay
  /\ tabs' = [tabs EXCEPT ![t].step = "sent",
                ![t].reused = (tabs[t].token \in spent),
                ![t].state = SentState, ![t].next = SentNext]
  /\ last' = NoAnswer
  /\ UNCHANGED <<site, now, server, jar, req, history, bounds>>

VerifyStateToken(received, stored) == stored # None /\ received = stored

Returned(t) ==
  [tabs[t] EXCEPT !.step = "google", !.state = None, !.next = None, !.reused = FALSE,
                  !.good = @ /\ stateCk # None]

(* The state does not match, or the administrator cancelled, or the code   *)
(* or the ID token of Google is no good: a page that says so.              *)
CallbackFails(t) ==
  /\ tabs[t].step = "sent"
  /\ tabs' = [tabs EXCEPT ![t] = Returned(t)]
  /\ last' = NoAnswer
  /\ UNCHANGED <<site, now, server, jar, req, history, bounds>>

(* The account has no row: the page that says so drops both cookies.       *)
CallbackUnauthorized(t) ==
  /\ tabs[t].step = "sent" /\ VerifyStateToken(tabs[t].token, tabs[t].state)
  /\ rows[Account] = "none"
  /\ stateCk' = None /\ nextCk' = None
  /\ tabs' = [Overtaken(t) EXCEPT ![t] = [Returned(t) EXCEPT !.good = FALSE]]
  /\ last' = NoAnswer
  /\ UNCHANGED <<site, now, server, cookie, basic, req, history, bounds>>

(* Mutant: the two cookies stay when the session is issued.                *)
CallbackSignsInKeeping(t) ==
  /\ tabs[t].step = "sent" /\ VerifyStateToken(tabs[t].token, tabs[t].state)
  /\ rows[Account] # "none"
  /\ cookie' = SessionCookie(Account, CookieLife)
  /\ tabs' = [Overtaken(t) EXCEPT ![t] = [Returned(t) EXCEPT !.good = FALSE]]
  /\ proofs' = [proofs EXCEPT ![Account] = [at |-> now, secret |-> secret]]
  /\ spent' = spent \cup {tabs[t].token} /\ out' = FALSE
  /\ last' = NoAnswer
  /\ UNCHANGED <<site, now, server, stateCk, nextCk, basic, req, bounds>>

(* The session: a cookie of seven days around a token of one.              *)
CallbackSignsIn(t) ==
  /\ tabs[t].step = "sent" /\ VerifyStateToken(tabs[t].token, tabs[t].state)
  /\ rows[Account] # "none"
  /\ cookie' = SessionCookie(Account, CookieLife)
  /\ stateCk' = None /\ nextCk' = None
  /\ tabs' = [Overtaken(t) EXCEPT ![t] = [Returned(t) EXCEPT !.good = FALSE]]
  /\ proofs' = [proofs EXCEPT ![Account] = [at |-> now, secret |-> secret]]
  /\ spent' = spent \cup {tabs[t].token} /\ out' = FALSE
  /\ last' = NoAnswer
  /\ UNCHANGED <<site, now, server, basic, req, bounds>>

---------------------------------------------------------------------------
(* Signing out, and the world around                                       *)

NoGood == [t \in Tabs |-> [tabs[t] EXCEPT !.good = FALSE]]
LateReq == IF req = None THEN None ELSE [req EXCEPT !.late = TRUE]

(* Mutant: the realm of the answer is the live one.                        *)
LogoutSameRealm ==
  /\ cookie' = None /\ stateCk' = None /\ nextCk' = None
  /\ req' = LateReq /\ tabs' = NoGood
  /\ out' = TRUE /\ last' = NoAnswer
  /\ UNCHANGED <<site, now, server, basic, proofs, spent, bounds>>

(* GET /admin/logout drops the cookies; on the device host its realm makes *)
(* the browser forget the password too.                                    *)
Logout ==
  /\ cookie' = None /\ stateCk' = None /\ nextCk' = None
  /\ basic' = IF site.browser THEN basic ELSE None
  /\ req' = LateReq /\ tabs' = NoGood
  /\ out' = TRUE /\ last' = NoAnswer
  /\ UNCHANGED <<site, now, server, proofs, spent, bounds>>

(* A new image brings a new secret, unless it is pinned; what was on its   *)
(* way is lost.                                                            *)
Deploy ==
  /\ changes < MaxChanges /\ changes' = changes + 1
  /\ secret' = IF site.pinned THEN secret ELSE secret + 1
  /\ req' = None
  /\ tabs' = [t \in Tabs |-> IF tabs[t].step = "sent" THEN Returned(t) ELSE tabs[t]]
  /\ last' = NoAnswer
  /\ UNCHANGED <<site, now, password, rows, jar, history, logins>>

(* create_admin.py <rescue> <new password>, on the host.                   *)
CreateAdmin ==
  /\ changes < MaxChanges /\ changes' = changes + 1
  /\ password' = password + 1
  /\ last' = NoAnswer
  /\ UNCHANGED <<site, now, secret, rows, jar, req, tabs, history, logins>>

(* Time passes and the browser drops the cookies that are over.            *)
Fresh(ck) == IF ck # None /\ ck.until <= now + 1 THEN None ELSE ck

Tick ==
  /\ now < MaxTime /\ now' = now + 1
  /\ cookie' = Fresh(cookie) /\ stateCk' = Fresh(stateCk) /\ nextCk' = Fresh(nextCk)
  /\ tabs' = [t \in Tabs |-> [tabs[t] EXCEPT
                !.good = @ /\ (Fresh(stateCk) = stateCk \/ tabs[t].step = "sent")]]
  /\ last' = NoAnswer
  /\ UNCHANGED <<site, server, basic, req, history, bounds>>

---------------------------------------------------------------------------

Browse ==
  \/ \E path \in Pages, write, foreign \in BOOLEAN : Send(path, write, foreign)
  \/ AnswerForged \/ AnswerOpen \/ AnswerAsk
  \/ \E outcome \in Outcomes : AnswerSession(outcome) \/ AnswerBasic(outcome)
  \/ EnterPassword \/ Logout

SignIn ==
  \E t \in Tabs :
    \/ \E next \in Pages \cup {None} : OauthLogin(t, next)
    \/ SendCallback(t) \/ CallbackFails(t) \/ CallbackUnauthorized(t) \/ CallbackSignsIn(t)

Next == Browse \/ SignIn \/ Deploy \/ CreateAdmin \/ Tick

Spec == Init /\ [][Next]_vars

---------------------------------------------------------------------------
(* Properties                                                              *)

Requests == [path : Pages, write : BOOLEAN, foreign : BOOLEAN, late : BOOLEAN,
             cookie : Token \cup {None}, basic : Nat \cup {None}]
SignIns == [step : {"idle", "google", "sent"}, token : Nat \cup {None},
            wanted : Pages \cup {None}, state : Nat \cup {None},
            next : Pages \cup {None}, good : BOOLEAN, reused : BOOLEAN]
Answers == {"none", "ok", "401", "403", "405", "500", "landing", "login", "challenge"}

TypeOK ==
  /\ site \in Sites /\ now \in 0..MaxTime
  /\ secret \in Nat /\ password \in Nat /\ rows \in [Users -> Levels]
  /\ cookie \in Token \cup {None} /\ stateCk \in StateCookie \cup {None}
  /\ nextCk \in NextCookies \cup {None} /\ basic \in Nat \cup {None}
  /\ req \in Requests \cup {None} /\ tabs \in [Tabs -> SignIns] /\ last \in Answers
  /\ proofs \in [Users -> Proof \cup {None}]
  /\ spent \subseteq Nat /\ out \in BOOLEAN
  /\ logins \in 0..MaxLogins /\ changes \in 0..MaxChanges

InHand == {cookie} \cup (IF req = None THEN {} ELSE {req.cookie})

(* A cookie the gate lets in stands for a proof of identity by that user,  *)
(* given to the image that is running, at most TokenLife ago: whatever was *)
(* redeployed, revoked, signed out and in again in other tabs meanwhile.   *)
AdmittedByProof ==
  \A ck \in InHand : VerifySessionToken(ck) =>
    /\ proofs[ck.user] # None
    /\ now - proofs[ck.user].at <= TokenLife
    /\ proofs[ck.user].secret = secret

(* A sign-in that begins on the host Google leads back to and that no      *)
(* other tab, logout or timeout comes in between of passes the check of    *)
(* its state, and ends where the administrator was headed.  (Begun on      *)
(* another host it never passes: it comes back without its cookies.)       *)
SignInWorks ==
  site.home => \A t \in Tabs : tabs[t].good /\ tabs[t].step = "sent" =>
    /\ VerifyStateToken(tabs[t].token, tabs[t].state)
    /\ tabs[t].wanted # None => tabs[t].next = tabs[t].wanted

(* oauth_login: "single-use is a CSRF property".  A callback sent after    *)
(* the state it names gave a session is refused, whatever Google says to   *)
(* its code.                                                               *)
StateSingleUse ==
  \A t \in Tabs : tabs[t].step = "sent" /\ tabs[t].reused
    => ~VerifyStateToken(tabs[t].token, tabs[t].state)

(* After a logout nothing the browser holds lets it in, until someone      *)
(* signs in or the answer to a request sent before the logout brings a     *)
(* cookie.  On the browser-facing host a remembered password survives.     *)
LogoutEnds ==
  out /\ (site.browser => basic = None)
    => ~VerifySessionToken(cookie) /\ ~VerifyPassword(basic)

(* A write that is answered ok was carried out, and one that was carried   *)
(* out under a session is not answered like one that was refused: neither  *)
(* sent to the landing page nor asked to sign in again.  Under a password  *)
(* it can be: what a handler raises after its work is swallowed.           *)
AnswersTellTheTruth ==
  [][req # None /\ req.write /\ req' = None /\ last' # NoAnswer =>
       /\ last' = "ok" => changes' = changes + 1
       /\ changes' # changes /\ VerifySessionToken(req.cookie) => last' \in {"ok", "500"}]_vars

(* fr_v15_auth.md: "Cookie: `admin_session`, ... 7-day expiration".  The   *)
(* cookie the browser still holds is good for the image that signed it.    *)
SessionLasts ==
  cookie # None /\ cookie.key = secret => VerifySessionToken(cookie)
=============================================================================
