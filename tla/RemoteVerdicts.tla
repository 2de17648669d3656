--------------------------- MODULE RemoteVerdicts ---------------------------
(***************************************************************************)
(* remoteAuthorizer and remoteRequestHeadersAuthenticator (pkg/auth), which *)
(* ask a remote service for a verdict, cache the responses, and make       *)
(* concurrent calls for the same request wait for one of them.             *)
(*                                                                         *)
(* The service decides by a policy that may change.  It says until when a  *)
(* response may be used; time 0 is that of responses that must not be.     *)
(***************************************************************************)
EXTENDS CachedKeys

CONSTANTS
  AuthCalls,            \* concurrent callers
  AuthRequests,         \* the requests, as hashed to keys of the cache
  MaximumAuthCacheSize,
  MaxAuthTime,          \* bound on the clock
  MaxAuthFaults,        \* bound on failures of the service and on cancellation
  MaxPolicyChanges      \* bound on changes of the policy

ASSUME AuthAssumption == MaximumAuthCacheSize \in Nat

VARIABLES
  decider,              \* "authorizer" or "authenticator"
  authCacheSize,        \* 0 if the cache is disabled
  authClock,
  policy,               \* request -> "allow", "deny" or "invalid"
  pendingRequests,      \* request -> the call that was first
  cachedResponses,      \* request -> [verdict, expirationTime]
  authEvictionSet,
  authCall,             \* what each caller is doing
  authFaults,
  policyChanges

authVars == <<decider, authCacheSize, authClock, policy, pendingRequests, cachedResponses, authEvictionSet, authCall,
              authFaults, policyChanges>>

authEnvironment == <<decider, authCacheSize, authClock, policy, policyChanges>>

(* "fresh" are the verdicts of the responses for the request that arrived  *)
(* during the call, or that were cached and had not expired.               *)
NoAuthCall == [at |-> "idle", key |-> {}, now |-> 0, leader |-> {}, response |-> {}, verdict |-> {}, failed |-> FALSE,
               fresh |-> {}]

AuthInit ==
  /\ decider \in {"authorizer", "authenticator"}
  /\ authCacheSize \in {0, MaximumAuthCacheSize}
  /\ authClock = 1
  /\ policy = [r \in AuthRequests |-> "deny"]
  /\ pendingRequests = <<>> /\ cachedResponses = <<>> /\ authEvictionSet = <<>>
  /\ authCall = [c \in AuthCalls |-> NoAuthCall]
  /\ authFaults = 0 /\ policyChanges = 0

CallAt(c, at) == authCall' = [authCall EXCEPT ![c].at = at]

Verdict(c, verdict) == authCall' = [authCall EXCEPT ![c].at = "returned", ![c].verdict = {verdict}]

(* The error of the service, or that of the context. *)
AuthError(c) == authCall' = [authCall EXCEPT ![c].at = "returned", ![c].failed = TRUE]

AuthFault == authFaults < MaxAuthFaults /\ authFaults' = authFaults + 1

-----------------------------------------------------------------------------
BeginAuth(c, key) ==
  /\ authCall[c].at = "idle"
  /\ authCall' = [authCall EXCEPT ![c] =
       [NoAuthCall EXCEPT !.at = IF authCacheSize = 0 THEN "remote" ELSE "clock", !.key = {key}]]
  /\ UNCHANGED <<authEnvironment, pendingRequests, cachedResponses, authEvictionSet, authFaults>>

Key(c) == CHOOSE key \in authCall[c].key : TRUE

ReadClock(c) ==
  /\ authCall[c].at = "clock"
  /\ authCall' = [authCall EXCEPT ![c].at = "lookup", ![c].now = authClock]
  /\ UNCHANGED <<authEnvironment, pendingRequests, cachedResponses, authEvictionSet, authFaults>>

(* Use a cached response, wait for a pending request, or make one. *)
LookUpResponse(c) ==
  LET key    == Key(c)
      cached == key \in DOMAIN cachedResponses
  IN  /\ authCall[c].at = "lookup"
      /\ authEvictionSet' = IF cached THEN Touch(authEvictionSet, key) ELSE authEvictionSet
      /\ \/ /\ cached /\ cachedResponses[key].expirationTime > authCall[c].now
            /\ authCall' = [authCall EXCEPT ![c].at = "returned", ![c].verdict = {cachedResponses[key].verdict},
                                            ![c].fresh = @ \cup {cachedResponses[key].verdict}]
            /\ UNCHANGED pendingRequests
         \/ /\ ~(cached /\ cachedResponses[key].expirationTime > authCall[c].now)
            /\ IF key \in DOMAIN pendingRequests
               THEN /\ authCall' = [authCall EXCEPT ![c].at = "wait", ![c].leader = {pendingRequests[key]}]
                    /\ UNCHANGED pendingRequests
               ELSE /\ CallAt(c, "remote")
                    /\ pendingRequests' = Assign(pendingRequests, key, c)
      /\ UNCHANGED <<authEnvironment, cachedResponses, authFaults>>

(* The response of the service, or that the call to it failed.  Verdicts   *)
(* that can't be made sense of are denials.                                *)
AskRemotely(c) ==
  /\ authCall[c].at = "remote"
  /\ \/ /\ \E expirationTime \in {0, authClock + 1} :
             authCall' = [authCall EXCEPT ![c].at = "publish",
                            ![c].response = {[verdict |-> policy[Key(c)], expirationTime |-> expirationTime]}]
        /\ UNCHANGED authFaults
     \/ /\ AuthFault
        /\ authCall' = [authCall EXCEPT ![c].at = "publish", ![c].response = {}]
  /\ UNCHANGED <<authEnvironment, pendingRequests, cachedResponses, authEvictionSet>>

Response(c) == CHOOSE response \in authCall[c].response : TRUE

(* insertCacheEntry() *)
InsertResponse(key, response) ==
  LET full == Cardinality(DOMAIN cachedResponses) >= authCacheSize
  IN  IF key \in DOMAIN cachedResponses
      THEN /\ authEvictionSet' = Touch(authEvictionSet, key)
           /\ cachedResponses' = [cachedResponses EXCEPT ![key] = response]
      ELSE /\ authEvictionSet' \in InsertInto(IF full THEN RemoveFrom(authEvictionSet) ELSE authEvictionSet, key)
           /\ cachedResponses' =
                Assign(Restrict(cachedResponses, DOMAIN cachedResponses \ (IF full THEN {Peek(authEvictionSet)} ELSE {})),
                       key, response)

(* The outcome of a call, for itself and for those that wait for it. *)
Outcome(c) == authCall[c].response

Published(c, d) ==
  [authCall[d] EXCEPT !.fresh = @ \cup (IF authCall[d].key = authCall[c].key THEN {r.verdict : r \in Outcome(c)} ELSE {})]

(* Mutant: those that wait get the error of the call that was first. *)
AwakenedFailing(c, d) ==
  IF authCall[d].at = "wait" /\ authCall[d].leader = {c}
  THEN [Published(c, d) EXCEPT !.at = IF Outcome(c) = {} THEN "returned" ELSE "recheck", !.leader = {}]
  ELSE Published(c, d)

(* Mutant: those that wait are only woken up if there is a response. *)
AwakenedOnSuccess(c, d) ==
  IF authCall[d].at = "wait" /\ authCall[d].leader = {c} /\ Outcome(c) # {}
  THEN [Published(c, d) EXCEPT !.at = "recheck", !.leader = {}]
  ELSE Published(c, d)

Awakened(c, d) ==
  IF authCall[d].at = "wait" /\ authCall[d].leader = {c}
  THEN [Published(c, d) EXCEPT !.at = "recheck", !.leader = {}]
  ELSE Published(c, d)

Responded(c) ==
  [Published(c, c) EXCEPT !.at = "returned", !.failed = Outcome(c) = {}, !.verdict = {r.verdict : r \in Outcome(c)}]

(* With the lock held, the request is no longer pending, those that wait   *)
(* are woken up, and the response is cached, if there is one.              *)
PublishResponse(c) ==
  /\ authCall[c].at = "publish" /\ authCacheSize > 0
  /\ pendingRequests' = Restrict(pendingRequests, DOMAIN pendingRequests \ {Key(c)})
  /\ authCall' = [d \in AuthCalls |-> IF d # c THEN Awakened(c, d) ELSE Responded(c)]
  /\ IF Outcome(c) = {} THEN UNCHANGED <<cachedResponses, authEvictionSet>> ELSE InsertResponse(Key(c), Response(c))
  /\ UNCHANGED <<authEnvironment, authFaults>>

(* Without a cache, the response is returned right away. *)
ReturnResponse(c) ==
  /\ authCall[c].at = "publish" /\ authCacheSize = 0
  /\ authCall' = [authCall EXCEPT ![c] = Responded(c)]
  /\ UNCHANGED <<authEnvironment, pendingRequests, cachedResponses, authEvictionSet, authFaults>>

(* A cached response is used without looking at its expiration time. *)
RecheckCache(c) ==
  /\ authCall[c].at = "recheck"
  /\ IF Key(c) \in DOMAIN cachedResponses THEN Verdict(c, cachedResponses[Key(c)].verdict) ELSE CallAt(c, "clock")
  /\ UNCHANGED <<authEnvironment, pendingRequests, cachedResponses, authEvictionSet, authFaults>>

AuthCanceled(c) ==
  /\ authCall[c].at = "wait"
  /\ AuthFault
  /\ AuthError(c)
  /\ UNCHANGED <<authEnvironment, pendingRequests, cachedResponses, authEvictionSet>>

-----------------------------------------------------------------------------
(* The two methods consist of the same steps. *)
DecisionStep(c) ==
  ReadClock(c) \/ LookUpResponse(c) \/ AskRemotely(c) \/ PublishResponse(c) \/ ReturnResponse(c) \/ RecheckCache(c)

AuthorizeSingle(c) == decider = "authorizer" /\ (DecisionStep(c) \/ AuthCanceled(c))

AuthenticateHeaders(c) == decider = "authenticator" /\ (DecisionStep(c) \/ AuthCanceled(c))

(* The environment.  An authenticator's allow verdict may have metadata    *)
(* that is invalid.                                                        *)
PolicyChanges(key) ==
  /\ policyChanges < MaxPolicyChanges
  /\ \E verdict \in {"allow", "deny"} \cup (IF decider = "authenticator" THEN {"invalid"} ELSE {}) :
       /\ verdict # policy[key]
       /\ policy' = [policy EXCEPT ![key] = verdict]
  /\ policyChanges' = policyChanges + 1
  /\ UNCHANGED <<decider, authCacheSize, authClock, pendingRequests, cachedResponses, authEvictionSet, authCall, authFaults>>

AuthClockTicks ==
  /\ authClock < MaxAuthTime
  /\ authClock' = authClock + 1
  /\ UNCHANGED <<decider, authCacheSize, policy, policyChanges, pendingRequests, cachedResponses, authEvictionSet, authCall,
                 authFaults>>

AuthNext ==
  \/ \E c \in AuthCalls : \/ \E key \in AuthRequests : BeginAuth(c, key)
                          \/ AuthorizeSingle(c) \/ AuthenticateHeaders(c)
  \/ \E key \in AuthRequests : PolicyChanges(key)
  \/ AuthClockTicks

AuthSpec == AuthInit /\ [][AuthNext]_authVars

AuthFairness == \A c \in AuthCalls : WF_authVars(DecisionStep(c))

-----------------------------------------------------------------------------
(* There is at most one request to the service at a time for each key, the *)
(* cache doesn't outgrow its maximum size, and calls fail because of their *)
(* own failures only, not those of the call that they waited for.          *)
RequestsDeduplicated ==
  /\ \A c, d \in AuthCalls :
       c # d /\ authCacheSize > 0 /\ {authCall[c].at, authCall[d].at} \subseteq {"remote", "publish"} =>
         authCall[c].key # authCall[d].key
  /\ Cardinality(DOMAIN cachedResponses) <= authCacheSize
  /\ Range(authEvictionSet) = DOMAIN cachedResponses /\ IsInjective(authEvictionSet)
  /\ \A c \in AuthCalls : authCall[c].at = "returned" => authCall[c].failed \/ authCall[c].verdict # {}

(* Calls return, also if those that they wait for fail. *)
VerdictsReturned == \A c \in AuthCalls : authCall[c].at # "idle" ~> authCall[c].at = "returned"

(* A verdict is that of a response that arrived during the call, or of a   *)
(* cached one that had not expired: as authorizeSingle() says, a response  *)
(* that was waited for "is as fresh as it can be".  That isn't so for a    *)
(* call that waited for one that failed, which uses whatever is cached.    *)
VerdictsFresh ==
  \A c \in AuthCalls :
    \/ authCall[c].verdict \subseteq authCall[c].fresh
    \/ \E d \in AuthCalls \ {c} : authCall[d].failed /\ authCall[d].key = authCall[c].key

(* What is returned to callers is their own, current verdict. *)
VerdictsSound == RequestsDeduplicated /\ VerdictsFresh
=============================================================================
