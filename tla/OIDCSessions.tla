---------------------------- MODULE OIDCSessions ----------------------------
(***************************************************************************)
(* oidcAuthenticator (pkg/http/server): sessions of a browser that has     *)
(* several tabs, but one cookie.  All of the state of the authenticator is *)
(* in that cookie.  Requests carry the one that the browser holds when     *)
(* they are sent; that of a response is stored when it arrives.            *)
(***************************************************************************)
EXTENDS Integers, FiniteSetsExt

CONSTANTS
  Tabs,
  Pages,
  MaxOIDCTime,      \* bound on the clock
  MaxLogins,        \* bound on the number of redirects to the authorization service
  MaxClaims,        \* bound on the changes of the user's claims
  DefaultExpiration \* of tokens that have no expiration time: one minute

VARIABLES
  oidcClock,
  cookie,           \* that of the browser
  tab,              \* what each tab is doing
  logins,           \* number of verifiers generated
  codes,            \* logins whose authorization codes have not been exchanged
  account,          \* the user's claims, and whether tokens may be refreshed
  granted           \* claims -> until when the service has last allowed their use

oidcVars == <<oidcClock, cookie, tab, logins, codes, account, granted>>

Nothing == [kind |-> "none"]
Authenticating(login, uri) == [kind |-> "authenticating", verifier |-> login, originalRequestURI |-> uri]
Authenticated(claims, expiration, default) ==
  [kind |-> "authenticated", claims |-> claims, expiration |-> expiration, defaultExpiration |-> default]

(* A tab wants a page.  Its request is for that page, or for the redirect  *)
(* URL with the state and code of a login.  What remains to be done with a *)
(* token is in "pending"; "response" is what the tab receives.             *)
IdleTab == [at |-> "idle", wants |-> {}, uri |-> {}, callback |-> {}, cookie |-> Nothing,
            pending |-> {}, response |-> Nothing, setCookie |-> Nothing]

OIDCInit ==
  /\ oidcClock = 0
  /\ cookie = Nothing
  /\ tab = [t \in Tabs |-> IdleTab]
  /\ logins = 0
  /\ codes = {}
  /\ account = [claims |-> 1, refreshable |-> TRUE]
  /\ granted = [c \in 1 .. MaxClaims |-> 0]

Respond(t, response, set) == tab' = [tab EXCEPT ![t].at = "responded", ![t].response = response, ![t].setCookie = set, ![t].pending = {}]

Denied(code) == [kind |-> "error", code |-> code]
Redirect(uri) == [kind |-> "redirect", uri |-> uri]
Permit(claims) == [kind |-> "permit", claims |-> claims]

-----------------------------------------------------------------------------
(* The browser. *)

Navigate(t, page) ==
  /\ tab[t].at = "idle"
  /\ tab' = [tab EXCEPT ![t] = [IdleTab EXCEPT !.at = "requested", !.wants = {page}, !.uri = {page}, !.cookie = cookie]]
  /\ UNCHANGED <<oidcClock, cookie, logins, codes, account, granted>>

(* The authorization service sends the user back with a code. *)
LogIn(t) ==
  /\ tab[t].at = "provider"
  /\ tab' = [tab EXCEPT ![t].at = "requested", ![t].uri = {}, ![t].cookie = cookie]
  /\ codes' = codes \cup tab[t].callback
  /\ UNCHANGED <<oidcClock, cookie, logins, account, granted>>

Receive(t) ==
  LET response == tab[t].response
      jar      == IF tab[t].setCookie = Nothing THEN cookie ELSE tab[t].setCookie
  IN  /\ tab[t].at = "responded"
      /\ cookie' = jar
      /\ tab' = [tab EXCEPT ![t] =
           CASE response.kind = "login"    -> [@ EXCEPT !.at = "provider", !.callback = {response.verifier}, !.response = Nothing,
                                                        !.setCookie = Nothing]
             [] response.kind = "redirect" -> [@ EXCEPT !.at = "requested", !.uri = {response.uri}, !.callback = {}, !.cookie = jar,
                                                        !.response = Nothing,
                                                        !.setCookie = Nothing]
             [] OTHER                      -> IdleTab]
      /\ UNCHANGED <<oidcClock, logins, codes, account, granted>>

-----------------------------------------------------------------------------
(* The authenticator. *)

(* Its requests for tokens, and those for claims, may fail.  A token has   *)
(* an expiration time, or not.                                             *)
TokenObtained(t, default, callback) ==
  \E expiry \in {{}, {oidcClock + 1}} :
    tab' = [tab EXCEPT ![t].at = "claims", ![t].pending = {[expiry |-> expiry, default |-> default, callback |-> callback]}]

(* A request for the redirect URL. *)
AuthenticateCallback(t) ==
  LET session == tab[t].cookie
  IN  /\ tab[t].at = "requested" /\ tab[t].uri = {}
      /\ IF session.kind = "authenticating" /\ session.verifier \in tab[t].callback
         THEN /\ \/ session.verifier \in codes /\ TokenObtained(t, DefaultExpiration, TRUE)
                 \/ Respond(t, Denied("Unknown"), Nothing)
              /\ codes' = codes \ {session.verifier}
         ELSE /\ Respond(t, Denied("InvalidArgument"), Nothing)
              /\ UNCHANGED codes
      /\ UNCHANGED <<oidcClock, cookie, logins, account, granted>>

(* No valid session.  Only navigation is redirected, not the requests for  *)
(* what else is on a page ("Sec-Fetch-Dest").                              *)
RequestLogin(t) ==
  \/ Respond(t, Denied("Unauthenticated"), Nothing) /\ UNCHANGED logins
  \/ /\ logins < MaxLogins
     /\ logins' = logins + 1
     /\ \E uri \in tab[t].uri : Respond(t, [kind |-> "login", verifier |-> logins + 1], Authenticating(logins + 1, uri))

(* Any other request. *)
AuthenticateRequest(t) ==
  LET session == tab[t].cookie
  IN  /\ tab[t].at = "requested" /\ tab[t].uri # {}
      /\ IF session.kind = "authenticated" /\ oidcClock < session.expiration
         THEN Respond(t, Permit(session.claims), Nothing) /\ UNCHANGED logins
         ELSE \/ RequestLogin(t)
              \/ /\ session.kind = "authenticated" /\ account.refreshable
                 /\ TokenObtained(t, session.defaultExpiration, FALSE)
                 /\ UNCHANGED logins
      /\ UNCHANGED <<oidcClock, cookie, codes, account, granted>>

(* Mutant: after a login, the browser is always sent to the same page. *)
GetClaimsAndSetCookieFrontPage(t) ==
  \E token \in tab[t].pending :
    LET expiration == IF token.expiry = {} THEN oidcClock + token.default ELSE CHOOSE e \in token.expiry : TRUE
        session    == Authenticated(account.claims, expiration, token.default)
    IN  /\ tab[t].at = "claims"
        /\ granted' = [granted EXCEPT ![account.claims] = Max({@, expiration})]
        /\ IF token.callback
           THEN Respond(t, Redirect(CHOOSE page \in Pages : TRUE), session)
           ELSE Respond(t, Permit(account.claims), session)
        /\ UNCHANGED <<oidcClock, cookie, logins, codes, account>>

(* getClaimsAndSetCookie(), and what its callers do with its result. *)
GetClaimsAndSetCookie(t) ==
  \E token \in tab[t].pending :
    LET expiration == IF token.expiry = {} THEN oidcClock + token.default ELSE CHOOSE e \in token.expiry : TRUE
        default    == IF token.expiry = {} THEN 2 * token.default ELSE token.default
        session    == Authenticated(account.claims, expiration, default)
    IN  /\ tab[t].at = "claims"
        /\ \/ /\ granted' = [granted EXCEPT ![account.claims] = Max({@, expiration})]
              /\ IF token.callback
                 THEN Respond(t, Redirect(tab[t].cookie.originalRequestURI), session)
                 ELSE Respond(t, Permit(account.claims), session)
              /\ UNCHANGED logins
           \/ /\ IF token.callback
                 THEN Respond(t, Denied("Unavailable"), Nothing) /\ UNCHANGED logins
                 ELSE RequestLogin(t)
              /\ UNCHANGED granted
        /\ UNCHANGED <<oidcClock, cookie, codes, account>>

OIDCAuthenticate(t) == AuthenticateCallback(t) \/ AuthenticateRequest(t) \/ GetClaimsAndSetCookie(t)

-----------------------------------------------------------------------------
(* The environment: the user's claims change, after which refreshing may   *)
(* be disallowed, and time passes.                                         *)
AccountChanges ==
  /\ account.claims < MaxClaims
  /\ \E refreshable \in BOOLEAN : account' = [claims |-> account.claims + 1, refreshable |-> refreshable]
  /\ UNCHANGED <<oidcClock, cookie, tab, logins, codes, granted>>

OIDCClockTicks ==
  /\ oidcClock < MaxOIDCTime
  /\ oidcClock' = oidcClock + 1
  /\ UNCHANGED <<cookie, tab, logins, codes, account, granted>>

OIDCNext ==
  \/ \E t \in Tabs : \/ \E page \in Pages : Navigate(t, page)
                     \/ LogIn(t) \/ Receive(t) \/ OIDCAuthenticate(t)
  \/ AccountChanges \/ OIDCClockTicks

-----------------------------------------------------------------------------
(* As a tab's request is permitted, it is with claims that the service has *)
(* granted it or another tab, and that have not expired, unless they were  *)
(* obtained for that request itself.  The page is the one that the tab     *)
(* asked for, however the logins of the tabs overwrite each other's cookie. *)
SessionsCurrent ==
  [][\A t \in Tabs : tab'[t].at = "responded" /\ tab[t].at # "responded" /\ tab'[t].response.kind = "permit" =>
       /\ \/ oidcClock < granted[tab'[t].response.claims]
          \/ tab[t].at = "claims" /\ tab'[t].response.claims = account.claims
       /\ tab[t].uri = tab[t].wants]_oidcVars
=============================================================================
