---------------------------- MODULE JSONWebTokens ----------------------------
(***************************************************************************)
(* AuthorizationHeaderParser (pkg/jwt), which validates the JSON Web       *)
(* Tokens in HTTP "Authorization" headers and caches what it found out     *)
(* about them, while the set of keys is reloaded from a file.              *)
(***************************************************************************)
EXTENDS CachedKeys, SequencesExt, FiniteSetsExt

CONSTANTS
  Tokens,                \* the headers: records of what parsing them yields
  HeaderLists,           \* the sequences of them that requests have
  KeySetFiles,           \* what the file with the key set may hold
  TokenCallers,          \* concurrent calls
  MaximumTokenCacheSize,
  MaxTokenTime           \* bound on the clock

ASSUME TokenAssumption == MaximumTokenCacheSize \in Nat \ {0}

VARIABLES
  tokenClock,
  keySetFile,            \* contents of the file
  keySet,                \* the keys that the validator uses
  cachedAuthorizationHeaders, tokenEvictionSet,
  tokenCall,             \* what each caller is doing
  validated              \* tokens that all of the key sets so far, and some of them, validate

tokenVars == <<tokenClock, keySetFile, keySet, cachedAuthorizationHeaders, tokenEvictionSet, tokenCall, validated>>

-----------------------------------------------------------------------------
(* Key sets: sequences of keys. *)

(* The algorithms that a type of key can validate: that of the curve, the  *)
(* one of Ed25519, and two kinds of padding with three hash functions.     *)
ECDSAKeys == [ES256 |-> {"ES256"}, ES384 |-> {"ES384"}, ES512 |-> {"ES512"}]

Ed25519Keys == [Ed25519 |-> {"EdDSA"}]

RSAKeys == [RSA |-> {"PS256", "PS384", "PS512", "RS256", "RS384", "RS512"}]

AlgorithmsOf == ECDSAKeys @@ Ed25519Keys @@ RSAKeys

KeyIDs(keys) == SelectSeq([i \in DOMAIN keys |-> keys[i].id], LAMBDA id : id # "")

(* NewSignatureValidatorFromJSONWebKeySet() *)
ValidKeySet(keys) ==
  /\ \A i \in DOMAIN keys : keys[i].type \in DOMAIN AlgorithmsOf
  /\ IsInjective(KeyIDs(keys))

KeyValidates(key, token) == token.algorithm \in AlgorithmsOf[key.type] /\ token.signedBy = key.secret

(* demultiplexingSignatureValidator: a token that names a key, or not. *)
ValidateSignature(keys, token) ==
  IF token.keyID = ""
  THEN \E i \in DOMAIN keys : KeyValidates(keys[i], token)
  ELSE \E i \in DOMAIN keys : keys[i].id = token.keyID /\ KeyValidates(keys[i], token)

-----------------------------------------------------------------------------
Unauthenticated == [notBefore |-> 1000, expirationTime |-> 0]

(* Mutant: tokens that are not valid yet are treated as invalid ones. *)
ParseSingleAuthorizationHeaderEarly(token, keys, now) ==
  IF token.wellFormed /\ ValidateSignature(keys, token) /\ token.claims /\ token.extracts /\ token.nbf <= now
  THEN [notBefore |-> token.nbf, expirationTime |-> token.exp]
  ELSE Unauthenticated

(* The time plays no role. *)
ParseSingleAuthorizationHeader(token, keys, now) ==
  IF token.wellFormed /\ ValidateSignature(keys, token) /\ token.claims /\ token.extracts
  THEN [notBefore |-> token.nbf, expirationTime |-> token.exp]
  ELSE Unauthenticated

IsAuthenticated(response, now) == response.notBefore <= now /\ now < response.expirationTime

(* The loop that makes room, and the insertion. *)
CacheToken(token, response) ==
  LET cached  == DOMAIN cachedAuthorizationHeaders
      evicted == IF Cardinality(cached) >= MaximumTokenCacheSize THEN {Peek(tokenEvictionSet)} ELSE {}
      headers == Restrict(cachedAuthorizationHeaders, cached \ evicted)
      order   == IF evicted = {} THEN tokenEvictionSet ELSE RemoveFrom(tokenEvictionSet)
  IN  /\ tokenEvictionSet' \in IF token \in DOMAIN headers THEN {Touch(order, token)} ELSE InsertInto(order, token)
      /\ cachedAuthorizationHeaders' = (token :> response) @@ headers

-----------------------------------------------------------------------------
(* The lock is held by the call that is at "check". *)
NoTokenCall == [at |-> "idle", now |-> 0, headers |-> <<>>, headersToCheck |-> <<>>, accepted |-> FALSE]

TokenInit ==
  /\ tokenClock = 0
  /\ keySetFile \in {f \in KeySetFiles : ValidKeySet(f)}
  /\ keySet = keySetFile
  /\ cachedAuthorizationHeaders = <<>> /\ tokenEvictionSet = <<>>
  /\ tokenCall = [c \in TokenCallers |-> NoTokenCall]
  /\ validated = [always |-> {t \in Tokens : ValidateSignature(keySet, t)}, ever |-> {t \in Tokens : ValidateSignature(keySet, t)}]

(* The time is obtained before the lock is. *)
BeginAuthentication(c, headers) ==
  /\ tokenCall[c].at \in {"idle", "returned"}
  /\ tokenCall' = [tokenCall EXCEPT ![c] = [NoTokenCall EXCEPT !.at = "now", !.now = tokenClock, !.headers = headers]]
  /\ UNCHANGED <<tokenClock, keySetFile, keySet, cachedAuthorizationHeaders, tokenEvictionSet, validated>>

(* The first loop of ParseAuthorizationHeaders() touches the headers that  *)
(* are cached, until one of them is in bounds.                             *)
LookUpTokens(c) ==
  LET headers  == tokenCall[c].headers
      Cached(header) == header \in DOMAIN cachedAuthorizationHeaders
      accepted == {i \in DOMAIN headers :
                     Cached(headers[i]) /\ IsAuthenticated(cachedAuthorizationHeaders[headers[i]], tokenCall[c].now)}
      seen     == IF accepted = {} THEN headers ELSE SubSeq(headers, 1, Min(accepted))
  IN  /\ tokenCall[c].at = "now"
      /\ \A d \in TokenCallers : tokenCall[d].at # "check"
      /\ tokenEvictionSet' = FoldLeft(Touch, tokenEvictionSet, SelectSeq(seen, Cached))
      /\ tokenCall' = [tokenCall EXCEPT ![c].at = IF accepted # {} THEN "returned" ELSE "check",
                                        ![c].accepted = accepted # {},
                                        ![c].headersToCheck = SelectSeq(headers, LAMBDA header : accepted = {} /\ ~Cached(header))]
      /\ UNCHANGED <<tokenClock, keySetFile, keySet, cachedAuthorizationHeaders, validated>>

(* The second loop validates the other ones, until one of them is.  The    *)
(* keys may be replaced halfway.                                           *)
CheckToken(c) ==
  LET call     == tokenCall[c]
      response == ParseSingleAuthorizationHeader(Head(call.headersToCheck), keySet, call.now)
  IN  /\ call.at = "check" /\ call.headersToCheck # <<>>
      /\ CacheToken(Head(call.headersToCheck), response)
      /\ tokenCall' = [tokenCall EXCEPT ![c] =
           IF IsAuthenticated(response, call.now)
           THEN [@ EXCEPT !.at = "returned", !.accepted = TRUE, !.headersToCheck = <<>>]
           ELSE [@ EXCEPT !.headersToCheck = Tail(@)]]
      /\ UNCHANGED <<tokenClock, keySetFile, keySet, validated>>

RejectTokens(c) ==
  /\ tokenCall[c].at = "check" /\ tokenCall[c].headersToCheck = <<>>
  /\ tokenCall' = [tokenCall EXCEPT ![c].at = "returned"]
  /\ UNCHANGED <<tokenClock, keySetFile, keySet, cachedAuthorizationHeaders, tokenEvictionSet, validated>>

ParseAuthorizationHeaders(c) == LookUpTokens(c) \/ CheckToken(c) \/ RejectTokens(c)

(* forwardingSignatureValidator.Replace() *)
Replace(keys) == keySet' = keys

(* The ticker.  A file that can't be used leaves the keys as they are. *)
ReloadKeySet ==
  /\ keySet # keySetFile
  /\ ValidKeySet(keySetFile)
  /\ Replace(keySetFile)
  /\ validated' = [always |-> {t \in validated.always : ValidateSignature(keySetFile, t)},
                   ever   |-> validated.ever \cup {t \in Tokens : ValidateSignature(keySetFile, t)}]
  /\ UNCHANGED <<tokenClock, keySetFile, cachedAuthorizationHeaders, tokenEvictionSet, tokenCall>>

KeySetFileChanges ==
  /\ \E file \in KeySetFiles \ {keySetFile} : keySetFile' = file
  /\ UNCHANGED <<tokenClock, keySet, cachedAuthorizationHeaders, tokenEvictionSet, tokenCall, validated>>

TokenClockTicks ==
  /\ tokenClock < MaxTokenTime
  /\ tokenClock' = tokenClock + 1
  /\ UNCHANGED <<keySetFile, keySet, cachedAuthorizationHeaders, tokenEvictionSet, tokenCall, validated>>

TokenNext ==
  \/ \E c \in TokenCallers : \/ \E headers \in HeaderLists : BeginAuthentication(c, headers)
                             \/ ParseAuthorizationHeaders(c)
  \/ ReloadKeySet \/ KeySetFileChanges \/ TokenClockTicks

-----------------------------------------------------------------------------
Acceptable(token, now) == token.wellFormed /\ token.claims /\ token.extracts /\ token.nbf <= now /\ now < token.exp

(* A call succeeds only if one of its tokens is in bounds at the time of   *)
(* the call, and has been validated by a set of keys.  It doesn't fail if  *)
(* there is such a token that all of the sets of keys validate, whatever   *)
(* is cached of it and of other tokens.  The cache doesn't outgrow its     *)
(* maximum size, and nothing in it can be missed when it is replaced.      *)
TokensCurrent ==
  /\ \A c \in TokenCallers : tokenCall[c].at = "returned" =>
       LET headers == ToSet(tokenCall[c].headers)
           now     == tokenCall[c].now
       IN  IF tokenCall[c].accepted
           THEN \E token \in headers \cap validated.ever : Acceptable(token, now)
           ELSE \A token \in headers \cap validated.always : ~Acceptable(token, now)
  /\ Cardinality(DOMAIN cachedAuthorizationHeaders) <= MaximumTokenCacheSize
  /\ ToSet(tokenEvictionSet) = DOMAIN cachedAuthorizationHeaders /\ IsInjective(tokenEvictionSet)
=============================================================================
