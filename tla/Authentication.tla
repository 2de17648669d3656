--------------------------- MODULE Authentication ---------------------------
(***************************************************************************)
(* Authenticators of gRPC and HTTP servers (pkg/grpc, pkg/http/server,     *)
(* pkg/x509), and authorizers (pkg/auth), as functions of what the client  *)
(* provides.  Metadata is a function from the names of its fields to their *)
(* values.  What is obtained from JMESPath expressions, JSON Web Tokens    *)
(* and remote services is part of the input.                               *)
(***************************************************************************)
EXTENDS Digests

RECURSIVE NewAuthenticator(_)
RECURSIVE GRPCAuthenticate(_, _)
RECURSIVE NewHTTPAuthenticator(_)
RECURSIVE HTTPAuthenticate(_, _)
RECURSIVE Authorize(_, _, _)

Granted(metadata) == [code |-> "OK", metadata |-> metadata, responded |-> FALSE]

Refused(code) == [code |-> code, metadata |-> <<>>, responded |-> FALSE]

(* The authenticator wrote a redirect, and returns nothing. *)
Responded == [code |-> "OK", metadata |-> <<>>, responded |-> TRUE]

NewAuthenticationMetadataFromRaw(raw) == IF raw.valid THEN Granted(raw.metadata) ELSE Refused("InvalidArgument")

(* proto.Merge(): values of the last message prevail. *)
MergeMetadata(messages) == FoldLeft(LAMBDA merged, metadata : metadata @@ merged, <<>>, messages)

-----------------------------------------------------------------------------
(* Client certificates. *)

RECURSIVE CertificateVerifies(_, _, _)
(* crypto/x509: there is a chain of valid certificates to an authority. *)
CertificateVerifies(certificate, intermediates, clientCAs) ==
  /\ certificate.inTime
  /\ \/ certificate.issuer \in clientCAs
     \/ \E i \in intermediates :
          i.name = certificate.issuer /\ CertificateVerifies(i, intermediates \ {i}, clientCAs)

(* "claims" and "extracts" are the results of the JMESPath expressions. *)
VerifyClientCertificate(certificates, clientCAs) ==
  CASE certificates = <<>> -> Refused("Unauthenticated")
    [] certificates # <<>> /\ ~CertificateVerifies(Head(certificates), ToSet(Tail(certificates)), clientCAs) ->
         Refused("Unauthenticated")
    [] OTHER -> LET leaf == Head(certificates)
                IN  IF leaf.claims # "true" \/ ~leaf.extracts
                    THEN Refused("Unauthenticated")
                    ELSE NewAuthenticationMetadataFromRaw(leaf.raw)

-----------------------------------------------------------------------------
(* gRPC. *)

(* Mutant: the last error is reported, whatever it is. *)
AnyOfLast(outcomes) ==
  LET granted == {i \in DOMAIN outcomes : outcomes[i].code = "OK"}
  IN  IF granted # {} THEN outcomes[Min(granted)] ELSE Last(outcomes)

(* Access is granted by the first that does so.  Failing that, errors that *)
(* are not about the client's identity are reported first.                 *)
AnyOf(outcomes) ==
  LET granted == {i \in DOMAIN outcomes : outcomes[i].code = "OK"}
      other   == {i \in DOMAIN outcomes : outcomes[i].code \notin {"OK", "Unauthenticated"}}
  IN  CASE granted # {}                -> outcomes[Min(granted)]
        [] granted = {} /\ other # {}  -> outcomes[Min(other)]
        [] OTHER                       -> outcomes[1]

NewAnyAuthenticator(children) ==
  CASE children = <<>>   -> [kind |-> "deny"]
    [] Len(children) = 1 -> children[1]
    [] OTHER             -> [kind |-> "any", children |-> children]

AllOf(outcomes) ==
  LET failed == {i \in DOMAIN outcomes : outcomes[i].code # "OK"}
  IN  IF failed # {} THEN outcomes[Min(failed)]
      ELSE Granted(MergeMetadata([i \in DOMAIN outcomes |-> outcomes[i].metadata]))

NewAllAuthenticator(children) ==
  IF Len(children) = 1 THEN children[1] ELSE [kind |-> "all", children |-> children]

(* JSON Web Tokens and remote services see the headers of the policy only. *)
HeadersAuthenticate(a, headers) ==
  LET selected == {h \in headers : h.name \in {a.headerKeys[i].name : i \in DOMAIN a.headerKeys}}
  IN  IF \E h \in selected : h.value = a.credential THEN Granted([user |-> a.credential]) ELSE Refused(a.failure)

PeerCredentialsAuthenticate(authInfo) ==
  CASE authInfo.type # "unix"                        -> Refused("Unauthenticated")
    [] authInfo.type = "unix" /\ ~authInfo.extracts  -> Refused("Unauthenticated")
    [] OTHER                                         -> NewAuthenticationMetadataFromRaw(authInfo.raw)

TLSClientCertificateAuthenticate(a, authInfo) ==
  IF authInfo.type # "tls" THEN Refused("Unauthenticated") ELSE VerifyClientCertificate(authInfo.certificates, a.clientCAs)

(* A context of a call: its headers and how the connection was set up. *)
GRPCAuthenticate(a, ctx) ==
  CASE a.kind = "allow"   -> Granted(a.metadata)
    [] a.kind = "deny"    -> Refused("Unauthenticated")
    [] a.kind = "any"     -> AnyOf([i \in DOMAIN a.children |-> GRPCAuthenticate(a.children[i], ctx)])
    [] a.kind = "all"     -> AllOf([i \in DOMAIN a.children |-> GRPCAuthenticate(a.children[i], ctx)])
    [] a.kind = "tls"     -> TLSClientCertificateAuthenticate(a, ctx.authInfo)
    [] a.kind = "peer"    -> PeerCredentialsAuthenticate(ctx.authInfo)
    [] a.kind = "headers" -> HeadersAuthenticate(a, ctx.headers)

InvalidPolicy == [ok |-> FALSE]

ValidPolicy(a, needsPeer, requestTLS) ==
  [ok |-> TRUE, authenticator |-> a, needsPeerTransportCredentials |-> needsPeer, requestTLSClientCertificate |-> requestTLS]

(* Policies of multiple children need what one of these needs. *)
OfChildren(new, a) ==
  IF \E i \in DOMAIN new : ~new[i].ok
  THEN InvalidPolicy
  ELSE ValidPolicy(a, \E i \in DOMAIN new : new[i].needsPeerTransportCredentials,
                      \E i \in DOMAIN new : new[i].requestTLSClientCertificate)

ChildrenOf(new) == [i \in DOMAIN new |-> new[i].authenticator]

NewAuthenticator(policy) ==
  LET new == [i \in DOMAIN policy.children |-> NewAuthenticator(policy.children[i])]
      ok  == \A i \in DOMAIN new : new[i].ok
  IN  CASE policy.kind = "allow" /\ ~policy.raw.valid -> InvalidPolicy
        [] policy.kind = "allow" /\ policy.raw.valid  -> ValidPolicy([kind |-> "allow", metadata |-> policy.raw.metadata], FALSE, FALSE)
        [] policy.kind = "any"     -> OfChildren(new, IF ok THEN NewAnyAuthenticator(ChildrenOf(new)) ELSE InvalidPolicy)
        [] policy.kind = "all"     -> OfChildren(new, IF ok THEN NewAllAuthenticator(ChildrenOf(new)) ELSE InvalidPolicy)
        [] policy.kind = "peer"    -> ValidPolicy(policy, TRUE, FALSE)
        [] policy.kind = "tls"     -> ValidPolicy(policy, FALSE, TRUE)
        [] policy.kind \in {"deny", "headers"} -> ValidPolicy(policy, FALSE, FALSE)
        [] OTHER                   -> InvalidPolicy

(* What the interceptors of unary and streaming calls call the handler     *)
(* with, if they do.                                                       *)
AuthenticatingInterceptor(a, ctx) ==
  LET outcome == GRPCAuthenticate(a, ctx)
  IN  [code |-> outcome.code, called |-> outcome.code = "OK", metadata |-> outcome.metadata]

-----------------------------------------------------------------------------
(* HTTP. *)

NewHTTPRequestHeadersAuthenticator(policy) ==
  IF \A i \in DOMAIN policy.headerKeys : policy.headerKeys[i].canonical THEN ValidPolicy(policy, FALSE, FALSE) ELSE InvalidPolicy

NewHTTPAuthenticator(policy) ==
  LET new == [i \in DOMAIN policy.children |-> NewHTTPAuthenticator(policy.children[i])]
      ok  == \A i \in DOMAIN new : new[i].ok
  IN  CASE policy.kind = "allow" /\ ~policy.raw.valid -> InvalidPolicy
        [] policy.kind = "allow" /\ policy.raw.valid  -> ValidPolicy([kind |-> "allow", metadata |-> policy.raw.metadata], FALSE, FALSE)
        [] policy.kind = "any"     -> OfChildren(new, IF ok THEN NewAnyAuthenticator(ChildrenOf(new)) ELSE InvalidPolicy)
        [] policy.kind = "accept"  -> IF ok THEN ValidPolicy([kind |-> "accept", base |-> new[1].authenticator,
                                                              mediaTypes |-> policy.mediaTypes], FALSE, FALSE)
                                      ELSE InvalidPolicy
        [] policy.kind = "headers" -> NewHTTPRequestHeadersAuthenticator(policy)
        [] policy.kind = "oidc"    -> IF policy.cookieSeed THEN ValidPolicy(policy, FALSE, FALSE) ELSE InvalidPolicy
        [] policy.kind = "deny"    -> ValidPolicy(policy, FALSE, FALSE)
        [] OTHER                   -> InvalidPolicy

(* The HTTP server has an implementation of its own, which is the same. *)
HTTPAnyOf(outcomes) == AnyOf(outcomes)

AcceptHeaderMatches(a, request) == a.mediaTypes \cap request.accept # {}

HTTPAuthenticate(a, request) ==
  CASE a.kind = "allow"   -> Granted(a.metadata)
    [] a.kind = "deny"    -> Refused("Unauthenticated")
    [] a.kind = "any"     -> HTTPAnyOf([i \in DOMAIN a.children |-> HTTPAuthenticate(a.children[i], request)])
    [] a.kind = "accept"  -> IF AcceptHeaderMatches(a, request) THEN HTTPAuthenticate(a.base, request) ELSE Refused("Unauthenticated")
    [] a.kind = "headers" -> HeadersAuthenticate(a, request.headers)
    [] a.kind = "oidc"    -> request.oidc

StatusCodeFromGRPCCode(code) ==
  CASE code \in {"InvalidArgument", "FailedPrecondition", "OutOfRange"} -> 400
    [] code = "Unauthenticated"             -> 401
    [] code = "PermissionDenied"            -> 403
    [] code = "NotFound"                    -> 404
    [] code \in {"AlreadyExists", "Aborted"} -> 409
    [] code = "ResourceExhausted"           -> 429
    [] code = "Canceled"                    -> 499
    [] code = "Unimplemented"               -> 501
    [] code = "Unavailable"                 -> 503
    [] code = "DeadlineExceeded"            -> 504
    [] OTHER                                -> 500

(* authenticatingHandler.ServeHTTP().  0 is the status of the handler. *)
ServeHTTP(a, request) ==
  LET outcome == HTTPAuthenticate(a, request)
  IN  CASE outcome.code # "OK"                        -> [status |-> StatusCodeFromGRPCCode(outcome.code), called |-> FALSE]
        [] outcome.code = "OK" /\ outcome.responded   -> [status |-> 303, called |-> FALSE]
        [] OTHER                                      -> [status |-> 0, called |-> TRUE]

-----------------------------------------------------------------------------
(* Authorizers: the status codes for a list of instance names. *)

StaticAuthorize(matches, instanceNames) ==
  [i \in DOMAIN instanceNames |-> IF instanceNames[i] \in matches THEN "OK" ELSE "PermissionDenied"]

(* The expression is evaluated for the client's metadata, and may fail. *)
JMESPathAuthorize(results, metadata, instanceNames) ==
  [i \in DOMAIN instanceNames |-> IF <<metadata, instanceNames[i]>> \in results THEN "OK" ELSE "PermissionDenied"]

DeniedIndices(errs) == SelectSeq([i \in DOMAIN errs |-> i], LAMBDA i : errs[i] = "PermissionDenied")

(* Successive backends are asked about the instance names that have been   *)
(* denied so far.                                                          *)
AnyAuthorize(children, metadata, instanceNames) ==
  LET first == Authorize(children[1], metadata, instanceNames)
      Ask(acc, authorizer) ==
        IF acc.index = <<>> THEN acc
        ELSE LET names == [j \in DOMAIN acc.index |-> instanceNames[acc.index[j]]]
                 errs  == Authorize(authorizer, metadata, names)
                 next  == DeniedIndices(errs)
             IN  [errs  |-> [i \in DOMAIN acc.errs |->
                               IF \E j \in DOMAIN acc.index : acc.index[j] = i /\ errs[j] # "PermissionDenied"
                               THEN errs[CHOOSE j \in DOMAIN acc.index : acc.index[j] = i]
                               ELSE acc.errs[i]],
                  index |-> [j \in DOMAIN next |-> acc.index[next[j]]]]
  IN  FoldLeft(Ask, [errs |-> first, index |-> DeniedIndices(first)], Tail(children)).errs

Authorize(a, metadata, instanceNames) ==
  CASE a.kind = "static"   -> StaticAuthorize(a.matches, instanceNames)
    [] a.kind = "jmespath" -> JMESPathAuthorize(a.results, metadata, instanceNames)
    [] a.kind = "remote"   -> [i \in DOMAIN instanceNames |-> a.verdicts[instanceNames[i]]]
    [] a.kind = "any"      -> AnyAuthorize(a.children, metadata, instanceNames)

NewAnyAuthorizer(children) ==
  CASE children = <<>>   -> [kind |-> "static", matches |-> {}]
    [] Len(children) = 1 -> children[1]
    [] OTHER             -> [kind |-> "any", children |-> children]

AuthorizeSingleInstanceName(a, metadata, instanceName) == Authorize(a, metadata, <<instanceName>>)[1]

(* Instance names of the system whose prefix is allowed. *)
AllowedByPrefix(prefixes, instanceNames) ==
  LET trie == FoldLeft(LAMBDA t, prefix : TrieSet(t, GetComponents(prefix), 0), NewInstanceNameTrie, prefixes)
  IN  {i \in instanceNames : ContainsPrefix(trie, GetComponents(i))}

NewAuthorizer(config, instanceNames) ==
  CASE config.kind = "allow" -> [ok |-> TRUE, authorizer |-> [kind |-> "static", matches |-> instanceNames]]
    [] config.kind = "deny"  -> [ok |-> TRUE, authorizer |-> [kind |-> "static", matches |-> {}]]
    [] config.kind = "prefix" ->
         IF \E i \in DOMAIN config.prefixes : ~NewInstanceName(config.prefixes[i]).ok
         THEN InvalidPolicy
         ELSE [ok |-> TRUE, authorizer |-> [kind |-> "static", matches |-> AllowedByPrefix(config.prefixes, instanceNames)]]
    [] config.kind \in {"jmespath", "remote"} -> [ok |-> TRUE, authorizer |-> config]
    [] OTHER -> InvalidPolicy
=============================================================================
