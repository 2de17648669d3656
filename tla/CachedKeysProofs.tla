-------------------------- MODULE CachedKeysProofs --------------------------
(***************************************************************************)
(* Proofs about the components that cache what they found out about a key: *)
(* RemoteVerdicts and ReadCanarying, for every number of callers, cache    *)
(* size and eviction policy, with the lemmas about the eviction sets of    *)
(* CachedKeys that both rest on.                                           *)
(***************************************************************************)
EXTENDS RemoteVerdicts, ReadCanarying, FiniteSetTheorems, TLAPS

(* Parts of a sequence. *)
LEMMA SubSeqProperties ==
  ASSUME NEW S, NEW s \in Seq(S), NEW m \in 1 .. Len(s) + 1, NEW n \in 0 .. Len(s), m <= n + 1
  PROVE  LET t == SubSeq(s, m, n)
         IN  t \in Seq(S) /\ Len(t) = n - m + 1 /\ \A i \in 1 .. n - m + 1 : t[i] = s[m + i - 1]
OBVIOUS

(* One sequence after another. *)
LEMMA ConcatProperties ==
  ASSUME NEW S, NEW s \in Seq(S), NEW t \in Seq(S)
  PROVE  LET u == s \o t
         IN  /\ u \in Seq(S) /\ Len(u) = Len(s) + Len(t)
             /\ \A i \in 1 .. Len(s) + Len(t) : u[i] = IF i <= Len(s) THEN s[i] ELSE t[i - Len(s)]
OBVIOUS

(* Appending to a slice. *)
LEMMA AppendProperties ==
  ASSUME NEW S, NEW s \in Seq(S), NEW e \in S
  PROVE  LET t == Append(s, e)
         IN  /\ t \in Seq(S) /\ Len(t) = Len(s) + 1 /\ t[Len(s) + 1] = e
             /\ \A i \in 1 .. Len(s) : t[i] = s[i]
OBVIOUS

(* Assigning to an element of a slice. *)
LEMMA ExceptSeq ==
  ASSUME NEW S, NEW s \in Seq(S), NEW i \in 1 .. Len(s), NEW e \in S
  PROVE  LET t == [s EXCEPT ![i] = e]
         IN  t \in Seq(S) /\ Len(t) = Len(s) /\ \A j \in 1 .. Len(s) : t[j] = IF j = i THEN e ELSE s[j]
OBVIOUS

(* Storing under a key leaves the other keys of a map alone. *)
LEMMA Assigned ==
  ASSUME NEW f, NEW key, NEW value
  PROVE  LET g == Assign(f, key, value)
         IN  /\ DOMAIN g = DOMAIN f \cup {key} /\ g[key] = value
             /\ \A k \in DOMAIN f : k # key => g[k] = f[k]
BY Zenon DEF Assign

(* Deleting from a map leaves the keys that remain alone. *)
LEMMA Restricted ==
  ASSUME NEW f, NEW S \in SUBSET DOMAIN f
  PROVE  LET g == Restrict(f, S)
         IN  DOMAIN g = S /\ \A k \in S : g[k] = f[k]
BY Zenon DEF Restrict

(* The elements of an eviction set, each of which is there once. *)
EvictionSetOf(elements, S) == elements \in Seq(S) /\ IsInjective(elements) /\ Range(elements) = S

(* Touch() reorders the elements of an eviction set. *)
LEMMA Touching ==
  ASSUME NEW S, NEW s, EvictionSetOf(s, S), NEW value \in S
  PROVE  EvictionSetOf(Touch(s, value), S)
<1>1. CASE EvictionPolicy # "LRU"
  BY Zenon, <1>1 DEF Touch
<1>2. CASE EvictionPolicy = "LRU"
  <2> DEFINE i == CHOOSE i \in DOMAIN s : s[i] = value
             t == Touch(s, value)
  <2>1. i \in 1 .. Len(s) /\ s[i] = value /\ s \in Seq(S) /\ Len(s) \in Nat
    BY DEF EvictionSetOf, Range
  <2> HIDE DEF i
  <2>2. /\ t \in Seq(S) /\ Len(t) = Len(s) /\ t[Len(s)] = value
        /\ \A j \in 1 .. Len(s) - 1 : t[j] = IF j < i THEN s[j] ELSE s[j + 1]
    <3> DEFINE left == SubSeq(s, 1, i - 1)
               right == SubSeq(s, i + 1, Len(s))
               rest == left \o right
    <3>1. \A j \in 1 .. Len(s) : s[j] \in S
      BY <2>1
    <3>2. left \in Seq(S) /\ Len(left) = i - 1 /\ \A j \in 1 .. i - 1 : left[j] = s[j]
      BY <2>1, <3>1, SubSeqProperties
    <3>3. right \in Seq(S) /\ Len(right) = Len(s) - i /\ \A j \in 1 .. Len(s) - i : right[j] = s[i + j]
      BY <2>1, <3>1, SubSeqProperties
    <3> HIDE DEF left, right
    <3>4. /\ rest \in Seq(S) /\ Len(rest) = Len(s) - 1
          /\ \A j \in 1 .. Len(s) - 1 : rest[j] = IF j < i THEN s[j] ELSE s[j + 1]
      <4>1. /\ rest \in Seq(S) /\ Len(rest) = Len(left) + Len(right)
            /\ \A j \in 1 .. Len(left) + Len(right) : rest[j] = IF j <= Len(left) THEN left[j] ELSE right[j - Len(left)]
        BY <3>2, <3>3, ConcatProperties, Zenon
      <4> HIDE DEF rest
      <4>a. i \in Int /\ Len(s) \in Int /\ i >= 1 /\ i <= Len(s) /\ Len(left) + Len(right) = Len(s) - 1
        BY <2>1, <3>2, <3>3
      <4>b. \A j \in 1 .. Len(s) - 1 : rest[j] = IF j <= i - 1 THEN left[j] ELSE right[j - (i - 1)]
        BY Zenon, <3>2, <4>1, <4>a
      <4>2. ASSUME NEW j \in 1 .. Len(s) - 1 PROVE rest[j] = IF j < i THEN s[j] ELSE s[j + 1]
        <5>1. CASE j < i
          BY <3>2, <4>a, <4>b, <5>1
        <5>2. CASE j >= i
          <6>1. rest[j] = right[j - (i - 1)] /\ j - (i - 1) \in 1 .. Len(s) - i
            BY <4>a, <4>b, <5>2
          <6>2. right[j - (i - 1)] = s[i + (j - (i - 1))] /\ i + (j - (i - 1)) = j + 1
            BY <2>1, <3>3, <6>1
          <6>3. QED
            BY <2>1, <5>2, <6>1, <6>2
        <5>3. QED
          BY <2>1, <5>1, <5>2
      <4>3. QED
        BY <2>1, <3>2, <3>3, <4>1, <4>2
    <3> HIDE DEF rest
    <3>5. t = Append(rest, value)
      BY Zenon, <1>2 DEF Touch, i, rest, left, right
    <3> HIDE DEF t
    <3>6. QED
      BY <2>1, <3>4, <3>5, AppendProperties
  <2> HIDE DEF t
  <2>3. IsInjective(t)
    <3> SUFFICES ASSUME NEW a \in 1 .. Len(s), NEW b \in 1 .. Len(s), t[a] = t[b] PROVE a = b
      BY <2>2 DEF IsInjective
    <3>1. IsInjective(s)
      BY Zenon DEF EvictionSetOf
    <3> DEFINE at(j) == IF j = Len(s) THEN i ELSE IF j < i THEN j ELSE j + 1
    <3>2. \A j \in 1 .. Len(s) : at(j) \in 1 .. Len(s) /\ t[j] = s[at(j)]
      BY <2>1, <2>2
    <3>3. at(a) = at(b)
      BY SMTT(30), <2>1, <3>1, <3>2 DEF IsInjective
    <3>4. QED
      BY <2>1, <3>3
  <2>4. S \subseteq Range(t)
    <3> SUFFICES ASSUME NEW j \in 1 .. Len(s) PROVE s[j] \in Range(t)
      BY <2>1 DEF EvictionSetOf, Range
    <3>1. CASE j = i
      BY <2>1, <2>2, <3>1 DEF Range
    <3>2. CASE j < i
      <4>1. j \in 1 .. Len(s) - 1 /\ t[j] = s[j]
        BY <2>1, <2>2, <3>2
      <4>2. QED
        BY <2>2, <4>1 DEF Range
    <3>3. CASE j > i
      <4>1. j - 1 \in 1 .. Len(s) - 1 /\ t[j - 1] = s[j]
        BY <2>1, <2>2, <3>3
      <4>2. QED
        BY <2>2, <4>1 DEF Range
    <3>4. QED
      BY <2>1, <3>1, <3>2, <3>3
  <2>5. Range(t) \subseteq S
    BY <2>2 DEF Range
  <2>6. QED
    BY <2>2, <2>3, <2>4, <2>5, Zenon DEF EvictionSetOf, t
<1>3. QED
  BY Zenon, <1>1, <1>2

(* Remove() takes away the element that Peek() returned. *)
LEMMA Removing ==
  ASSUME NEW S, NEW s, EvictionSetOf(s, S), S # {}
  PROVE  Peek(s) \in S /\ EvictionSetOf(RemoveFrom(s), S \ {Peek(s)})
<1>1. s \in Seq(S) /\ IsInjective(s) /\ Len(s) \in Nat /\ Len(s) # 0 /\ Range(s) = S
  BY DEF EvictionSetOf, Range
<1>2. CASE EvictionPolicy = "RR"
  <2> DEFINE t == SubSeq(s, 1, Len(s) - 1)
  <2>1. t \in Seq(S) /\ Len(t) = Len(s) - 1 /\ \A j \in 1 .. Len(s) - 1 : t[j] = s[j]
    <3> DEFINE n == Len(s) - 1
    <3>1. n \in Nat /\ 1 \in Int /\ \A j \in 1 .. n : s[j] \in S
      BY <1>1
    <3> HIDE DEF n
    <3>2. /\ SubSeq(s, 1, n) \in Seq(S) /\ Len(SubSeq(s, 1, n)) = IF 1 <= n THEN n - 1 + 1 ELSE 0
          /\ \A j \in 1 .. n - 1 + 1 : SubSeq(s, 1, n)[j] = s[1 + j - 1]
      BY <3>1, SubSeqProperties
    <3>3. t = SubSeq(s, 1, n)
      BY Zenon DEF n
    <3> HIDE DEF t
    <3>4. t \in Seq(S) /\ Len(t) = n /\ \A j \in 1 .. n : t[j] = s[j]
      BY <3>1, <3>2, <3>3
    <3>5. QED
      BY Zenon, <3>4 DEF n
  <2> HIDE DEF t
  <2>2. \A j \in 1 .. Len(s) - 1 : s[j] # s[Len(s)]
    BY <1>1 DEF IsInjective
  <2>3. t \in Seq(S \ {s[Len(s)]})
    BY <1>1, <2>1, <2>2
  <2>4. IsInjective(t)
    BY SMTT(30), <1>1, <2>1 DEF IsInjective
  <2>5. Range(t) = S \ {s[Len(s)]}
    <3>1. ASSUME NEW x \in S \ {s[Len(s)]} PROVE x \in Range(t)
      <4>1. PICK j \in 1 .. Len(s) - 1 : x = s[j]
        BY <1>1 DEF Range
      <4>2. QED
        BY <2>1, <4>1 DEF Range
    <3>2. Range(t) \subseteq S \ {s[Len(s)]}
      BY <1>1, <2>1, <2>3 DEF Range
    <3>3. QED
      BY Zenon, <3>1, <3>2
  <2>6. QED
    BY <1>1, <1>2, <2>3, <2>4, <2>5 DEF EvictionSetOf, Peek, RemoveFrom, t
<1>3. CASE EvictionPolicy # "RR"
  <2> DEFINE t == Tail(s)
  <2>1. t \in Seq(S) /\ Len(t) = Len(s) - 1 /\ \A j \in 1 .. Len(s) - 1 : t[j] = s[j + 1]
    BY <1>1
  <2> HIDE DEF t
  <2>2. \A j \in 1 .. Len(s) - 1 : s[j + 1] # s[1]
    BY <1>1 DEF IsInjective
  <2>3. t \in Seq(S \ {s[1]})
    BY <1>1, <2>1, <2>2
  <2>4. IsInjective(t)
    <3> SUFFICES ASSUME NEW a \in 1 .. Len(s) - 1, NEW b \in 1 .. Len(s) - 1, t[a] = t[b] PROVE a = b
      BY <2>1 DEF IsInjective
    <3>1. s[a + 1] = s[b + 1] /\ a + 1 \in 1 .. Len(s) /\ b + 1 \in 1 .. Len(s)
      BY <1>1, <2>1
    <3>2. a + 1 = b + 1
      BY <1>1, <3>1 DEF IsInjective
    <3>3. QED
      BY <3>2
  <2>5. Range(t) = S \ {s[1]}
    <3>1. ASSUME NEW x \in S \ {s[1]} PROVE x \in Range(t)
      <4>1. PICK j \in 2 .. Len(s) : x = s[j]
        BY <1>1 DEF Range
      <4>2. j - 1 \in 1 .. Len(s) - 1 /\ t[j - 1] = x
        BY <1>1, <2>1, <4>1
      <4>3. QED
        BY <2>1, <4>2 DEF Range
    <3>2. Range(t) \subseteq S \ {s[1]}
      BY SMTT(30), <1>1, <2>1, <2>3 DEF Range
    <3>3. QED
      BY Zenon, <3>1, <3>2
  <2>6. QED
    BY <1>1, <1>3, <2>3, <2>4, <2>5 DEF EvictionSetOf, Peek, RemoveFrom, t
<1>4. QED
  BY Zenon, <1>2, <1>3

(* Insert() adds a single element, wherever it ends up. *)
LEMMA Inserting ==
  ASSUME NEW S, NEW s, EvictionSetOf(s, S), NEW value, value \notin S, NEW t \in InsertInto(s, value)
  PROVE  EvictionSetOf(t, S \cup {value})
<1>1. s \in Seq(S) /\ IsInjective(s) /\ Len(s) \in Nat /\ Range(s) = S /\ \A j \in 1 .. Len(s) : s[j] # value
  BY DEF EvictionSetOf, Range
<1>2. CASE t = Append(s, value)
  <2>1. t \in Seq(S \cup {value}) /\ Len(t) = Len(s) + 1 /\ t[Len(s) + 1] = value /\ \A j \in 1 .. Len(s) : t[j] = s[j]
    BY <1>1, <1>2
  <2>2. IsInjective(t)
    BY <1>1, <2>1 DEF IsInjective
  <2>3. Range(t) = S \cup {value}
    BY SMTT(30), <1>1, <2>1 DEF Range
  <2>4. QED
    BY Zenon, <2>1, <2>2, <2>3 DEF EvictionSetOf
<1>3. ASSUME NEW i \in DOMAIN s, t = [Append(s, s[i]) EXCEPT ![i] = value]
      PROVE  EvictionSetOf(t, S \cup {value})
  <2>1. /\ t \in Seq(S \cup {value}) /\ Len(t) = Len(s) + 1 /\ t[Len(s) + 1] = s[i] /\ t[i] = value
        /\ \A j \in 1 .. Len(s) : j # i => t[j] = s[j]
    <3> DEFINE T == S \cup {value}
               u == Append(s, s[i])
    <3>1. s \in Seq(T) /\ s[i] \in T /\ value \in T /\ i \in 1 .. Len(s)
      BY <1>1, <1>3
    <3>2. u \in Seq(T) /\ Len(u) = Len(s) + 1 /\ u[Len(s) + 1] = s[i] /\ \A j \in 1 .. Len(s) : u[j] = s[j]
      BY <1>1, <3>1, AppendProperties
    <3> HIDE DEF u
    <3>3. t = [u EXCEPT ![i] = value] /\ i \in 1 .. Len(u)
      BY <1>1, <1>3, <3>1, <3>2 DEF u
    <3> HIDE DEF T
    <3>4. t \in Seq(T) /\ Len(t) = Len(u) /\ \A j \in 1 .. Len(u) : t[j] = IF j = i THEN value ELSE u[j]
      BY <3>1, <3>2, <3>3, ExceptSeq
    <3>5. QED
      BY <1>1, <3>1, <3>2, <3>4 DEF T
  <2>2. IsInjective(t)
    BY <1>1, <1>3, <2>1 DEF IsInjective
  <2>3. Range(t) = S \cup {value}
    <3>1. ASSUME NEW x \in S PROVE x \in Range(t)
      <4>1. PICK j \in 1 .. Len(s) : x = s[j]
        BY <1>1 DEF Range
      <4>2. CASE j = i
        BY <1>1, <2>1, <4>1, <4>2 DEF Range
      <4>3. CASE j # i
        BY SMTT(30), <1>1, <2>1, <4>1, <4>3 DEF Range
      <4>4. QED
        BY Zenon, <4>2, <4>3
    <3>2. value \in Range(t)
      BY <1>1, <1>3, <2>1 DEF Range
    <3>3. Range(t) \subseteq S \cup {value}
      BY <1>1, <2>1 DEF Range
    <3>4. QED
      BY Zenon, <3>1, <3>2, <3>3
  <2>4. QED
    BY Zenon, <2>1, <2>2, <2>3 DEF EvictionSetOf
<1>4. QED
  BY <1>2, <1>3, Zenon DEF InsertInto
-----------------------------------------------------------------------------
(* RemoteVerdicts. *)

Verdicts == {"allow", "deny", "invalid"}

CallState ==
  [at : {"idle", "clock", "lookup", "wait", "remote", "publish", "recheck", "returned"},
   key : SUBSET AuthRequests, now : Nat, leader : SUBSET AuthCalls,
   response : SUBSET [verdict : Verdicts, expirationTime : Nat],
   verdict : SUBSET Verdicts, failed : BOOLEAN, fresh : SUBSET Verdicts]

AuthTypeOK ==
  /\ decider \in {"authorizer", "authenticator"}
  /\ authCacheSize \in Nat /\ authClock \in Nat
  /\ policy \in [AuthRequests -> Verdicts]
  /\ DOMAIN cachedResponses \subseteq AuthRequests
  /\ \A key \in DOMAIN cachedResponses : cachedResponses[key].verdict \in Verdicts
  /\ authCall \in [AuthCalls -> CallState]

Asking(c) == authCall[c].at \in {"remote", "publish"}

(* Whether the call may use an older response, as one that it may have     *)
(* waited for failed.                                                      *)
Excused(c) == \E d \in AuthCalls \ {c} : authCall[d].failed /\ authCall[d].key = authCall[c].key

CallSound(c) ==
  /\ authCall[c].at = "idle" \/ \E key \in AuthRequests : authCall[c].key = {key}
  /\ authCall[c].at # "returned" => authCall[c].verdict = {} /\ ~authCall[c].failed
  /\ authCall[c].at = "returned" => authCall[c].failed \/ authCall[c].verdict # {}
  /\ authCall[c].verdict \subseteq authCall[c].fresh \/ Excused(c)
  /\ authCall[c].at = "recheck" =>
       \/ \A key \in authCall[c].key \cap DOMAIN cachedResponses : cachedResponses[key].verdict \in authCall[c].fresh
       \/ Excused(c)
  /\ authCall[c].at = "wait" =>
       \E d \in AuthCalls : authCall[c].leader = {d} /\ Asking(d) /\ authCall[d].key = authCall[c].key
  /\ authCall[c].at \in {"clock", "lookup", "wait", "recheck"} => authCacheSize > 0

(* With a cache, the calls that ask are those that are pending. *)
PendingAsk ==
  /\ \A c \in AuthCalls : authCacheSize > 0 /\ Asking(c) =>
       \A key \in authCall[c].key : key \in DOMAIN pendingRequests /\ pendingRequests[key] = c
  /\ \A key \in DOMAIN pendingRequests :
       /\ pendingRequests[key] \in AuthCalls /\ Asking(pendingRequests[key])
       /\ authCall[pendingRequests[key]].key = {key}
       /\ authCacheSize > 0

CacheBounded ==
  /\ EvictionSetOf(authEvictionSet, DOMAIN cachedResponses)
  /\ IsFiniteSet(DOMAIN cachedResponses) /\ Cardinality(DOMAIN cachedResponses) <= authCacheSize

AuthInv ==
  /\ AuthTypeOK /\ PendingAsk /\ CacheBounded
  /\ \A c \in AuthCalls : CallSound(c)

(* What the inductive invariant is for. *)
LEMMA AuthInvImplies == AuthInv => VerdictsSound
<1> SUFFICES ASSUME AuthInv PROVE VerdictsSound
  BY Zenon
<1>1. RequestsDeduplicated
  <2>1. ASSUME NEW c \in AuthCalls, NEW d \in AuthCalls, c # d, authCacheSize > 0,
               {authCall[c].at, authCall[d].at} \subseteq {"remote", "publish"}
        PROVE  authCall[c].key # authCall[d].key
    <3>1. Asking(c) /\ Asking(d)
      BY Zenon, <2>1 DEF Asking
    <3>2. PICK key \in AuthRequests : authCall[c].key = {key}
      BY Zenon, <3>1 DEF AuthInv, CallSound, Asking
    <3>3. QED
      BY <2>1, <3>1, <3>2 DEF AuthInv, PendingAsk
  <2>2. QED
    BY Zenon, <2>1 DEF RequestsDeduplicated, AuthInv, CacheBounded, EvictionSetOf, CallSound
<1>2. VerdictsFresh
  BY Zenon DEF VerdictsFresh, AuthInv, CallSound, Excused
<1>3. QED
  BY Zenon, <1>1, <1>2 DEF VerdictsSound

(* Calls start out with an empty cache, and nothing to wait for. *)
LEMMA AuthInitially == AuthInit => AuthInv
<1> SUFFICES ASSUME AuthInit PROVE AuthInv
  BY Zenon
<1>1. \A c \in AuthCalls : authCall[c] = NoAuthCall
  BY Zenon DEF AuthInit
<1>2. DOMAIN cachedResponses = {} /\ DOMAIN pendingRequests = {} /\ authEvictionSet = <<>>
  BY DEF AuthInit
<1>3. AuthTypeOK
  <2>1. NoAuthCall \in CallState
    BY Zenon DEF NoAuthCall, CallState
  <2>2. QED
    BY <1>2, <2>1, AuthAssumption DEF AuthTypeOK, AuthInit, Verdicts
<1>4. PendingAsk
  BY <1>1, <1>2 DEF PendingAsk, Asking, NoAuthCall
<1>5. CacheBounded
  <2>1. EvictionSetOf(<<>>, {})
    BY DEF EvictionSetOf, IsInjective, Range
  <2>2. authCacheSize \in Nat
    BY Zenon, <1>3 DEF AuthTypeOK
  <2>3. QED
    BY <1>2, <2>1, <2>2, FS_EmptySet DEF CacheBounded
<1>6. \A c \in AuthCalls : CallSound(c)
  BY <1>1 DEF CallSound, NoAuthCall
<1>7. QED
  BY Zenon, <1>3, <1>4, <1>5, <1>6 DEF AuthInv

(* A step of one call that doesn't change what is cached. *)
LEMMA OtherCalls ==
  ASSUME AuthInv, NEW c \in AuthCalls, NEW after \in CallState, authCall' = [authCall EXCEPT ![c] = after],
         authCall[c].failed => after.failed /\ after.key = authCall[c].key,
         authCacheSize > 0 /\ Asking(c) => after.at \in {"remote", "publish"} /\ after.key = authCall[c].key,
         UNCHANGED <<authCacheSize, cachedResponses>>
  PROVE  /\ authCall' \in [AuthCalls -> CallState] /\ authCall'[c] = after
         /\ \A d \in AuthCalls : d # c => authCall'[d] = authCall[d] /\ CallSound(d)'
         /\ Excused(c) /\ after.key = authCall[c].key => Excused(c)'
<1>1. /\ authCall' \in [AuthCalls -> CallState] /\ authCall'[c] = after
      /\ \A d \in AuthCalls : d # c => authCall'[d] = authCall[d]
  BY Zenon DEF AuthInv, AuthTypeOK
<1>2. ASSUME NEW d \in AuthCalls, d # c PROVE CallSound(d)'
  <2>1. authCall'[d] = authCall[d] /\ CallSound(d)
    BY Zenon, <1>1, <1>2 DEF AuthInv
  <2>2. Excused(d) => Excused(d)'
    BY <1>1, <2>1 DEF Excused
  <2>3. authCall[d].at = "wait" =>
          \E e \in AuthCalls : authCall[d].leader = {e} /\ Asking(e)' /\ authCall'[e].key = authCall[d].key
    <3> SUFFICES ASSUME authCall[d].at = "wait"
                 PROVE  \E e \in AuthCalls : authCall[d].leader = {e} /\ Asking(e)' /\ authCall'[e].key = authCall[d].key
      BY Zenon
    <3>1. PICK e \in AuthCalls : authCall[d].leader = {e} /\ Asking(e) /\ authCall[e].key = authCall[d].key
      BY Zenon, <2>1 DEF CallSound
    <3>2. authCacheSize > 0
      BY Zenon, <2>1 DEF CallSound
    <3>3. CASE e = c
      BY Zenon, <1>1, <3>1, <3>2, <3>3 DEF Asking
    <3>4. CASE e # c
      BY Zenon, <1>1, <3>1, <3>4 DEF Asking
    <3>5. QED
      BY Zenon, <3>3, <3>4
  <2>4. QED
    BY Zenon, <2>1, <2>2, <2>3 DEF CallSound
<1>3. Excused(c) /\ after.key = authCall[c].key => Excused(c)'
  BY Zenon, <1>1 DEF Excused
<1>4. QED
  BY Zenon, <1>1, <1>2, <1>3

(* If in addition the call does not start or stop asking. *)
LEMMA PendingUnchanged ==
  ASSUME AuthInv, NEW c \in AuthCalls, \A d \in AuthCalls : d # c => authCall'[d] = authCall[d],
         authCacheSize > 0 => (Asking(c)' <=> Asking(c)),
         Asking(c) => authCall'[c].key = authCall[c].key,
         UNCHANGED <<authCacheSize, pendingRequests>>
  PROVE  PendingAsk'
<1>1. ASSUME NEW d \in AuthCalls, authCacheSize > 0, Asking(d)', NEW key \in authCall'[d].key
      PROVE  key \in DOMAIN pendingRequests /\ pendingRequests[key] = d
  <2>1. Asking(d) /\ authCall'[d].key = authCall[d].key
    BY Zenon, <1>1 DEF Asking
  <2>2. QED
    BY Zenon, <1>1, <2>1 DEF AuthInv, PendingAsk
<1>2. ASSUME NEW key \in DOMAIN pendingRequests
      PROVE  /\ pendingRequests[key] \in AuthCalls /\ Asking(pendingRequests[key])'
             /\ authCall'[pendingRequests[key]].key = {key}
             /\ authCacheSize > 0
  BY Zenon DEF AuthInv, PendingAsk, Asking
<1>3. QED
  BY Zenon, <1>1, <1>2 DEF PendingAsk

(* AuthInv, if the call that takes a step remains sound. *)
LEMMA CallStepPreserves ==
  ASSUME AuthInv, NEW c \in AuthCalls, NEW after \in CallState, authCall' = [authCall EXCEPT ![c] = after],
         authCall[c].failed => after.failed /\ after.key = authCall[c].key,
         authCacheSize > 0 => (after.at \in {"remote", "publish"} <=> Asking(c)),
         Asking(c) => after.key = authCall[c].key,
         CallSound(c)',
         UNCHANGED <<authEnvironment, pendingRequests, cachedResponses>>, CacheBounded'
  PROVE  AuthInv'
<1>1. /\ authCall' \in [AuthCalls -> CallState] /\ authCall'[c] = after
      /\ \A d \in AuthCalls : d # c => authCall'[d] = authCall[d] /\ CallSound(d)'
  BY OtherCalls, Zenon DEF authEnvironment
<1>2. AuthTypeOK'
  BY Zenon, <1>1 DEF AuthInv, AuthTypeOK, authEnvironment
<1>3. PendingAsk'
  BY Zenon, <1>1, PendingUnchanged DEF Asking, authEnvironment
<1>4. QED
  BY Zenon, <1>1, <1>2, <1>3 DEF AuthInv

(* Bounds of the cache, if it is left alone. *)
LEMMA CacheUntouched ==
  ASSUME AuthInv, UNCHANGED <<authCacheSize, cachedResponses, authEvictionSet>>
  PROVE  CacheBounded'
BY Zenon DEF AuthInv, CacheBounded

(* A call computes the key of its request. *)
LEMMA BeginAuthPreserves ==
  ASSUME AuthInv, NEW c \in AuthCalls, NEW key \in AuthRequests, BeginAuth(c, key)
  PROVE  AuthInv'
<1> DEFINE after == [NoAuthCall EXCEPT !.at = IF authCacheSize = 0 THEN "remote" ELSE "clock", !.key = {key}]
<1>1. /\ after \in CallState /\ after.key = {key} /\ after.verdict = {} /\ ~after.failed
      /\ after.at = IF authCacheSize = 0 THEN "remote" ELSE "clock"
  BY Zenon DEF NoAuthCall, CallState
<1>2. /\ authCall' = [authCall EXCEPT ![c] = after] /\ authCall[c].at = "idle"
      /\ UNCHANGED <<authEnvironment, pendingRequests, cachedResponses, authEvictionSet>>
  BY Zenon DEF BeginAuth
<1> HIDE DEF after
<1>3. ~authCall[c].failed /\ authCall'[c] = after
  BY Zenon, <1>2 DEF AuthInv, CallSound, AuthTypeOK
<1>4. authCacheSize \in Nat /\ UNCHANGED authCacheSize
  BY Zenon, <1>2 DEF AuthInv, AuthTypeOK, authEnvironment
<1>5. CallSound(c)'
  BY <1>1, <1>3, <1>4 DEF CallSound
<1>6. CacheBounded'
  BY Zenon, <1>2, <1>4, CacheUntouched
<1>7. ~Asking(c) /\ (authCacheSize > 0 => after.at \notin {"remote", "publish"})
  BY <1>1, <1>2, <1>4 DEF Asking
<1>8. QED
  BY <1>1, <1>2, <1>3, <1>5, <1>6, <1>7, CallStepPreserves, Zenon

(* The time is read before the lock is taken. *)
LEMMA ReadClockPreserves ==
  ASSUME AuthInv, NEW c \in AuthCalls, ReadClock(c)
  PROVE  AuthInv'
<1> DEFINE after == [authCall[c] EXCEPT !.at = "lookup", !.now = authClock]
<1>0. authCall[c] \in CallState /\ authClock \in Nat /\ CallSound(c)
  BY Zenon DEF AuthInv, AuthTypeOK
<1>1. /\ after \in CallState /\ after.key = authCall[c].key /\ after.verdict = authCall[c].verdict
      /\ after.failed = authCall[c].failed /\ after.at = "lookup"
  BY <1>0, Zenon DEF CallState
<1>2. /\ authCall' = [authCall EXCEPT ![c] = after] /\ authCall[c].at = "clock"
      /\ UNCHANGED <<authEnvironment, pendingRequests, cachedResponses, authEvictionSet>>
  BY Zenon DEF ReadClock
<1> HIDE DEF after
<1>3. authCall'[c] = after
  BY Zenon, <1>2 DEF AuthInv, AuthTypeOK
<1>4. UNCHANGED authCacheSize
  BY Zenon, <1>2 DEF authEnvironment
<1>5. CallSound(c)'
  BY Zenon, <1>0, <1>1, <1>2, <1>3, <1>4 DEF CallSound
<1>6. CacheBounded'
  BY Zenon, <1>2, <1>4, CacheUntouched
<1>7. ~Asking(c) /\ after.at \notin {"remote", "publish"}
  BY Zenon, <1>1, <1>2 DEF Asking
<1>8. QED
  BY <1>1, <1>2, <1>5, <1>6, <1>7, CallStepPreserves, Zenon

(* A call that waited for another one looks into the cache again. *)
LEMMA RecheckCachePreserves ==
  ASSUME AuthInv, NEW c \in AuthCalls, RecheckCache(c)
  PROVE  AuthInv'
<1>1. /\ authCall[c] \in CallState /\ CallSound(c) /\ authCall[c].at = "recheck"
      /\ UNCHANGED <<authEnvironment, pendingRequests, cachedResponses, authEvictionSet>>
  BY Zenon DEF AuthInv, AuthTypeOK, RecheckCache
<1>2. PICK key \in AuthRequests : authCall[c].key = {key} /\ Key(c) = key
  BY Zenon, <1>1 DEF CallSound, Key
<1>3. UNCHANGED authCacheSize /\ authCacheSize > 0 /\ ~Asking(c) /\ ~authCall[c].failed /\ authCall[c].verdict = {}
  BY Zenon, <1>1 DEF authEnvironment, CallSound, Asking
<1>4. CacheBounded'
  BY Zenon, <1>1, <1>3, CacheUntouched
<1>5. CASE key \in DOMAIN cachedResponses
  <2> DEFINE verdict == cachedResponses[key].verdict
             after == [authCall[c] EXCEPT !.at = "returned", !.verdict = {verdict}]
  <2>1. verdict \in Verdicts
    BY Zenon, <1>5 DEF AuthInv, AuthTypeOK
  <2> HIDE DEF verdict
  <2>2. /\ after \in CallState /\ after.key = authCall[c].key /\ after.verdict = {verdict}
        /\ after.fresh = authCall[c].fresh /\ after.at = "returned"
    BY <1>1, <2>1, Zenon DEF CallState
  <2>3. authCall' = [authCall EXCEPT ![c] = after]
    BY <1>2, <1>5, Zenon DEF RecheckCache, Verdict, verdict
  <2> HIDE DEF after
  <2>4. authCall'[c] = after /\ (Excused(c) => Excused(c)')
    BY Zenon, <1>1, <1>3, <2>2, <2>3, OtherCalls
  <2>5. CallSound(c)'
    <3>1. verdict \in authCall[c].fresh \/ Excused(c)
      BY Zenon, <1>1, <1>2, <1>5 DEF CallSound, verdict
    <3>2. QED
      BY Zenon, <1>2, <2>2, <2>4, <3>1 DEF CallSound
  <2>6. QED
    BY <1>1, <1>3, <1>4, <2>2, <2>3, <2>5, CallStepPreserves, Zenon
<1>6. CASE key \notin DOMAIN cachedResponses
  <2> DEFINE after == [authCall[c] EXCEPT !.at = "clock"]
  <2>1. /\ after \in CallState /\ after.key = authCall[c].key /\ after.verdict = {}
        /\ after.failed = authCall[c].failed /\ after.at = "clock"
    BY Zenon, <1>1, <1>3 DEF CallState
  <2>2. authCall' = [authCall EXCEPT ![c] = after]
    BY Zenon, <1>2, <1>6 DEF RecheckCache, CallAt
  <2> HIDE DEF after
  <2>3. authCall'[c] = after
    BY Zenon, <2>2 DEF AuthInv, AuthTypeOK
  <2>4. CallSound(c)'
    BY Zenon, <1>2, <1>3, <2>1, <2>3 DEF CallSound
  <2>5. QED
    BY <1>1, <1>3, <1>4, <2>1, <2>2, <2>4, CallStepPreserves, Zenon
<1>7. QED
  BY Zenon, <1>5, <1>6

(* A call gives up waiting as its context is canceled. *)
LEMMA AuthCanceledPreserves ==
  ASSUME AuthInv, NEW c \in AuthCalls, AuthCanceled(c)
  PROVE  AuthInv'
<1> DEFINE after == [authCall[c] EXCEPT !.at = "returned", !.failed = TRUE]
<1>0. authCall[c] \in CallState /\ CallSound(c)
  BY Zenon DEF AuthInv, AuthTypeOK
<1>1. /\ after \in CallState /\ after.key = authCall[c].key /\ after.verdict = authCall[c].verdict
      /\ after.failed /\ after.at = "returned"
  BY <1>0, Zenon DEF CallState
<1>2. /\ authCall' = [authCall EXCEPT ![c] = after] /\ authCall[c].at = "wait"
      /\ UNCHANGED <<authEnvironment, pendingRequests, cachedResponses, authEvictionSet>>
  BY Zenon DEF AuthCanceled, AuthError
<1> HIDE DEF after
<1>3. authCall'[c] = after
  BY Zenon, <1>2 DEF AuthInv, AuthTypeOK
<1>4. UNCHANGED authCacheSize
  BY Zenon, <1>2 DEF authEnvironment
<1>5. CallSound(c)'
  BY Zenon, <1>0, <1>1, <1>2, <1>3 DEF CallSound
<1>6. CacheBounded'
  BY Zenon, <1>2, <1>4, CacheUntouched
<1>7. ~Asking(c) /\ after.at \notin {"remote", "publish"}
  BY Zenon, <1>1, <1>2 DEF Asking
<1>8. QED
  BY <1>1, <1>2, <1>5, <1>6, <1>7, CallStepPreserves, Zenon

(* The remote service answers, or the call to it fails. *)
LEMMA AskRemotelyPreserves ==
  ASSUME AuthInv, NEW c \in AuthCalls, AskRemotely(c)
  PROVE  AuthInv'
<1>1. /\ authCall[c] \in CallState /\ CallSound(c) /\ authCall[c].at = "remote" /\ authClock \in Nat
      /\ UNCHANGED <<authEnvironment, pendingRequests, cachedResponses, authEvictionSet>>
  BY Zenon DEF AuthInv, AuthTypeOK, AskRemotely
<1>2. PICK key \in AuthRequests : authCall[c].key = {key} /\ Key(c) = key
  BY Zenon, <1>1 DEF CallSound, Key
<1>3. PICK response \in SUBSET [verdict : Verdicts, expirationTime : Nat] :
        authCall' = [authCall EXCEPT ![c].at = "publish", ![c].response = response]
  <2>1. policy[key] \in Verdicts
    BY Zenon DEF AuthInv, AuthTypeOK
  <2>2. \A e \in {0, authClock + 1} : {[verdict |-> policy[key], expirationTime |-> e]} \in SUBSET [verdict : Verdicts, expirationTime : Nat]
    BY <1>1, <2>1
  <2>3. QED
    BY <1>2, <2>2, Zenon DEF AskRemotely
<1> DEFINE after == [authCall[c] EXCEPT !.at = "publish", !.response = response]
<1>4. /\ after \in CallState /\ after.key = authCall[c].key /\ after.verdict = authCall[c].verdict
      /\ after.failed = authCall[c].failed /\ after.at = "publish"
  BY <1>1, Zenon DEF CallState
<1>5. authCall' = [authCall EXCEPT ![c] = after]
  BY <1>3, Zenon
<1> HIDE DEF after
<1>6. authCall'[c] = after /\ UNCHANGED authCacheSize
  BY Zenon, <1>1, <1>5 DEF AuthInv, AuthTypeOK, authEnvironment
<1>7. CallSound(c)'
  BY Zenon, <1>1, <1>2, <1>4, <1>6 DEF CallSound
<1>8. CacheBounded'
  BY Zenon, <1>1, <1>6, CacheUntouched
<1>9. Asking(c) /\ after.at \in {"remote", "publish"}
  BY Zenon, <1>1, <1>4 DEF Asking
<1>10. QED
  BY <1>1, <1>4, <1>5, <1>7, <1>8, <1>9, CallStepPreserves, Zenon

(* A call returns a cached verdict, waits for the call that asks already,  *)
(* or asks by itself.                                                      *)
LEMMA LookUpResponsePreserves ==
  ASSUME AuthInv, NEW c \in AuthCalls, LookUpResponse(c)
  PROVE  AuthInv'
<1>1. /\ authCall[c] \in CallState /\ CallSound(c) /\ authCall[c].at = "lookup"
      /\ UNCHANGED <<authEnvironment, cachedResponses>>
  BY Zenon DEF AuthInv, AuthTypeOK, LookUpResponse
<1>2. PICK key \in AuthRequests : authCall[c].key = {key} /\ Key(c) = key
  BY Zenon, <1>1 DEF CallSound, Key
<1>3. UNCHANGED authCacheSize /\ authCacheSize > 0 /\ ~Asking(c) /\ ~authCall[c].failed /\ authCall[c].verdict = {}
  BY Zenon, <1>1 DEF authEnvironment, CallSound, Asking
<1>4. CacheBounded'
  <2>1. authEvictionSet' = IF key \in DOMAIN cachedResponses THEN Touch(authEvictionSet, key) ELSE authEvictionSet
    BY Zenon, <1>2 DEF LookUpResponse
  <2>2. EvictionSetOf(authEvictionSet', DOMAIN cachedResponses)
    BY Zenon, <2>1, Touching DEF AuthInv, CacheBounded
  <2>3. QED
    BY Zenon, <1>1, <1>3, <2>2 DEF AuthInv, CacheBounded
<1>5. CASE key \in DOMAIN cachedResponses /\ cachedResponses[key].expirationTime > authCall[c].now
  <2> DEFINE verdict == cachedResponses[key].verdict
             after == [authCall[c] EXCEPT !.at = "returned", !.verdict = {verdict}, !.fresh = @ \cup {verdict}]
  <2>1. verdict \in Verdicts
    BY Zenon, <1>5 DEF AuthInv, AuthTypeOK
  <2> HIDE DEF verdict
  <2>2. /\ after \in CallState /\ after.key = authCall[c].key /\ after.verdict = {verdict}
        /\ verdict \in after.fresh /\ after.at = "returned"
    BY <1>1, <2>1, Zenon DEF CallState
  <2>3. authCall' = [authCall EXCEPT ![c] = after] /\ UNCHANGED pendingRequests
    BY <1>2, <1>5, Zenon DEF LookUpResponse, verdict
  <2> HIDE DEF after
  <2>4. authCall'[c] = after
    BY Zenon, <2>3 DEF AuthInv, AuthTypeOK
  <2>5. CallSound(c)'
    BY Zenon, <1>2, <2>2, <2>4 DEF CallSound
  <2>6. QED
    BY Zenon, <1>1, <1>3, <1>4, <2>2, <2>3, <2>5, CallStepPreserves
<1>6. CASE ~(key \in DOMAIN cachedResponses /\ cachedResponses[key].expirationTime > authCall[c].now) /\ key \in DOMAIN pendingRequests
  <2>1. PICK leader \in AuthCalls :
          leader = pendingRequests[key] /\ Asking(leader) /\ authCall[leader].key = {key} /\ leader # c
    BY <1>3, <1>6 DEF AuthInv, PendingAsk
  <2> DEFINE after == [authCall[c] EXCEPT !.at = "wait", !.leader = {leader}]
  <2>2. /\ after \in CallState /\ after.key = authCall[c].key /\ after.verdict = {}
        /\ after.failed = authCall[c].failed /\ after.leader = {leader} /\ after.at = "wait"
    BY <1>1, <1>3, <2>1, Zenon DEF CallState
  <2>3. authCall' = [authCall EXCEPT ![c] = after] /\ UNCHANGED pendingRequests
    BY ZenonT(30), <1>2, <1>6, <2>1 DEF LookUpResponse
  <2> HIDE DEF after
  <2>4. authCall'[c] = after /\ authCall'[leader] = authCall[leader]
    BY Zenon, <2>1, <2>3 DEF AuthInv, AuthTypeOK
  <2>5. CallSound(c)'
    <3>1. Asking(leader)' /\ authCall'[leader].key = authCall'[c].key
      BY <1>2, <2>1, <2>2, <2>4, Zenon DEF Asking
    <3>2. QED
      BY Zenon, <1>2, <1>3, <2>1, <2>2, <2>4, <3>1 DEF CallSound
  <2>6. QED
    BY ZenonT(30), <1>1, <1>3, <1>4, <2>2, <2>3, <2>5, CallStepPreserves
<1>7. CASE ~(key \in DOMAIN cachedResponses /\ cachedResponses[key].expirationTime > authCall[c].now) /\ key \notin DOMAIN pendingRequests
  <2> DEFINE after == [authCall[c] EXCEPT !.at = "remote"]
  <2>1. /\ after \in CallState /\ after.key = authCall[c].key /\ after.verdict = {}
        /\ after.failed = authCall[c].failed /\ after.at = "remote"
    BY Zenon, <1>1, <1>3 DEF CallState
  <2>2. authCall' = [authCall EXCEPT ![c] = after] /\ pendingRequests' = Assign(pendingRequests, key, c)
    BY Zenon, <1>2, <1>7 DEF LookUpResponse, CallAt
  <2> HIDE DEF after
  <2>3. /\ authCall' \in [AuthCalls -> CallState] /\ authCall'[c] = after
        /\ \A d \in AuthCalls : d # c => authCall'[d] = authCall[d] /\ CallSound(d)'
    BY ZenonT(30), <1>1, <1>3, <2>1, <2>2, OtherCalls
  <2>4. CallSound(c)'
    BY Zenon, <1>2, <1>3, <2>1, <2>3 DEF CallSound
  <2>5. AuthTypeOK'
    BY Zenon, <1>1, <2>3 DEF AuthInv, AuthTypeOK, authEnvironment
  <2>6. /\ DOMAIN pendingRequests' = DOMAIN pendingRequests \cup {key} /\ pendingRequests'[key] = c
        /\ \A k \in DOMAIN pendingRequests : k # key => pendingRequests'[k] = pendingRequests[k]
    BY Zenon, <2>2 DEF Assign
  <2>7. PendingAsk'
    <3>1. ASSUME NEW d \in AuthCalls, Asking(d)', NEW k \in authCall'[d].key
          PROVE  k \in DOMAIN pendingRequests' /\ pendingRequests'[k] = d
      <4>1. CASE d = c
        BY Zenon, <1>2, <2>1, <2>3, <2>6, <3>1, <4>1
      <4>2. CASE d # c
        <5>1. Asking(d) /\ k \in authCall[d].key
          BY Zenon, <2>3, <3>1, <4>2 DEF Asking
        <5>2. k \in DOMAIN pendingRequests /\ pendingRequests[k] = d
          BY Zenon, <1>3, <5>1 DEF AuthInv, PendingAsk
        <5>3. QED
          BY Zenon, <1>7, <2>6, <5>2
      <4>3. QED
        BY Zenon, <4>1, <4>2
    <3>2. ASSUME NEW k \in DOMAIN pendingRequests'
          PROVE  /\ pendingRequests'[k] \in AuthCalls /\ authCall'[pendingRequests'[k]].at \in {"remote", "publish"}
                 /\ authCall'[pendingRequests'[k]].key = {k}
      <4>1. CASE k = key
        BY Zenon, <1>2, <2>1, <2>3, <2>6, <4>1 DEF Asking
      <4>2. CASE k # key
        <5>1. /\ pendingRequests'[k] = pendingRequests[k] /\ pendingRequests[k] \in AuthCalls /\ Asking(pendingRequests[k])
              /\ authCall[pendingRequests[k]].key = {k} /\ pendingRequests[k] # c
          BY Zenon, <1>3, <2>6, <3>2, <4>2 DEF AuthInv, PendingAsk
        <5>2. QED
          BY Zenon, <2>3, <5>1 DEF Asking
      <4>3. QED
        BY Zenon, <4>1, <4>2
    <3>3. QED
      BY Zenon, <1>3, <3>1, <3>2 DEF PendingAsk, Asking
  <2>8. QED
    BY Zenon, <1>4, <2>3, <2>4, <2>5, <2>7 DEF AuthInv
<1>8. QED
  BY Zenon, <1>5, <1>6, <1>7

(* What the response for a call says. *)
VerdictsOf(c) == {r.verdict : r \in Outcome(c)}

(* The verdicts that a call may obtain from the remote service. *)
LEMMA Publishing ==
  ASSUME AuthInv, NEW c \in AuthCalls, NEW d \in AuthCalls
  PROVE  LET after == Published(c, d)
         IN  /\ after \in CallState /\ VerdictsOf(c) \in SUBSET Verdicts
             /\ after.at = authCall[d].at /\ after.key = authCall[d].key /\ after.leader = authCall[d].leader
             /\ after.verdict = authCall[d].verdict /\ after.failed = authCall[d].failed
             /\ authCall[d].fresh \subseteq after.fresh
             /\ authCall[d].key = authCall[c].key => VerdictsOf(c) \subseteq after.fresh
<1>1. authCall[c] \in CallState /\ authCall[d] \in CallState
  BY Zenon DEF AuthInv, AuthTypeOK
<1>2. VerdictsOf(c) \in SUBSET Verdicts
  BY <1>1 DEF VerdictsOf, Outcome, CallState
<1> DEFINE news == IF authCall[d].key = authCall[c].key THEN VerdictsOf(c) ELSE {}
<1>3. news \in SUBSET Verdicts /\ (authCall[d].key = authCall[c].key => news = VerdictsOf(c))
  BY Zenon, <1>2
<1>4. Published(c, d) = [authCall[d] EXCEPT !.fresh = authCall[d].fresh \cup news]
  BY Zenon DEF Published, VerdictsOf
<1> HIDE DEF news
<1>5. QED
  BY <1>1, <1>2, <1>3, <1>4 DEF CallState

(* The calls that waited for the one that ends go on. *)
LEMMA Awakening ==
  ASSUME AuthInv, NEW c \in AuthCalls, NEW d \in AuthCalls
  PROVE  LET after == Awakened(c, d)
             awakened == authCall[d].at = "wait" /\ authCall[d].leader = {c}
         IN  /\ after \in CallState /\ after.key = authCall[d].key
             /\ after.verdict = authCall[d].verdict /\ after.failed = authCall[d].failed
             /\ authCall[d].fresh \subseteq after.fresh
             /\ authCall[d].key = authCall[c].key => VerdictsOf(c) \subseteq after.fresh
             /\ awakened => after.at = "recheck"
             /\ ~awakened => after.at = authCall[d].at /\ after.leader = authCall[d].leader
<1> DEFINE before == Published(c, d)
<1>1. /\ before \in CallState
      /\ before.at = authCall[d].at /\ before.key = authCall[d].key /\ before.leader = authCall[d].leader
      /\ before.verdict = authCall[d].verdict /\ before.failed = authCall[d].failed
      /\ authCall[d].fresh \subseteq before.fresh
      /\ authCall[d].key = authCall[c].key => VerdictsOf(c) \subseteq before.fresh
  BY Zenon, Publishing
<1> HIDE DEF before
<1>2. CASE authCall[d].at = "wait" /\ authCall[d].leader = {c}
  <2> DEFINE after == [before EXCEPT !.at = "recheck", !.leader = {}]
  <2>1. /\ after \in CallState /\ after.key = before.key /\ after.verdict = before.verdict
        /\ after.failed = before.failed /\ after.fresh = before.fresh /\ after.at = "recheck"
    BY <1>1, Zenon DEF CallState
  <2>2. Awakened(c, d) = after
    BY Zenon, <1>2 DEF Awakened, before
  <2> HIDE DEF after
  <2>3. QED
    BY Zenon, <1>1, <1>2, <2>1, <2>2
<1>3. CASE ~(authCall[d].at = "wait" /\ authCall[d].leader = {c})
  <2>1. Awakened(c, d) = before
    BY Zenon, <1>3 DEF Awakened, before
  <2>2. QED
    BY Zenon, <1>1, <1>3, <2>1
<1>4. QED
  BY Zenon, <1>2, <1>3

Ending(state, failed, verdict) == [state EXCEPT !.at = "returned", !.failed = failed, !.verdict = verdict]

(* The fields of a call that returns. *)
LEMMA EndingState ==
  ASSUME NEW state \in CallState, NEW failed \in BOOLEAN, NEW verdict \in SUBSET Verdicts
  PROVE  LET after == Ending(state, failed, verdict)
         IN  /\ after \in CallState /\ after.key = state.key /\ after.fresh = state.fresh
             /\ after.at = "returned" /\ after.failed = failed /\ after.verdict = verdict
BY ZenonT(30) DEF CallState, Ending

(* What a call returns is what the remote service told it. *)
LEMMA Responding ==
  ASSUME AuthInv, NEW c \in AuthCalls
  PROVE  LET after == Responded(c)
         IN  /\ after \in CallState /\ after.key = authCall[c].key /\ after.at = "returned"
             /\ after.failed <=> Outcome(c) = {}
             /\ after.verdict = VerdictsOf(c)
             /\ VerdictsOf(c) \subseteq after.fresh
             /\ after.failed \/ after.verdict # {}
<1> DEFINE before == Published(c, c)
           failed == Outcome(c) = {}
<1>1. /\ before \in CallState /\ VerdictsOf(c) \in SUBSET Verdicts
      /\ before.key = authCall[c].key /\ VerdictsOf(c) \subseteq before.fresh
  BY Zenon, Publishing
<1>2. failed \in BOOLEAN /\ (failed <=> Outcome(c) = {})
  BY Zenon
<1>3. Responded(c) = Ending(before, failed, VerdictsOf(c))
  BY Zenon DEF Responded, Ending, VerdictsOf
<1>4. Outcome(c) # {} => VerdictsOf(c) # {}
  BY Zenon DEF VerdictsOf
<1> HIDE DEF before, failed
<1>5. QED
  BY SMTT(30), <1>1, <1>2, <1>3, <1>4, EndingState

(* insertCacheEntry() *)
LEMMA InsertingResponse ==
  ASSUME AuthInv, authCacheSize > 0, UNCHANGED authCacheSize, NEW key \in AuthRequests, NEW response,
         InsertResponse(key, response)
  PROVE  /\ CacheBounded'
         /\ key \in DOMAIN cachedResponses' /\ cachedResponses'[key] = response
         /\ \A k \in DOMAIN cachedResponses' :
              k # key => k \in DOMAIN cachedResponses /\ cachedResponses'[k] = cachedResponses[k]
<1> DEFINE keys == DOMAIN cachedResponses
<1>1. /\ EvictionSetOf(authEvictionSet, keys) /\ IsFiniteSet(keys) /\ Cardinality(keys) <= authCacheSize
      /\ authCacheSize \in Nat /\ Cardinality(keys) \in Nat
  BY Zenon, FS_CardinalityType DEF AuthInv, AuthTypeOK, CacheBounded
<1>2. CASE key \in keys
  <2>1. authEvictionSet' = Touch(authEvictionSet, key) /\ cachedResponses' = [cachedResponses EXCEPT ![key] = response]
    BY Zenon, <1>2 DEF InsertResponse
  <2>2. DOMAIN cachedResponses' = keys
    BY Zenon, <2>1
  <2>3. CacheBounded'
    BY Zenon, <1>1, <1>2, <2>1, <2>2, Touching DEF CacheBounded
  <2>4. QED
    BY Zenon, <1>2, <2>1, <2>3
<1>3. CASE key \notin keys
  <2> DEFINE full == Cardinality(keys) >= authCacheSize
             kept == keys \ (IF full THEN {Peek(authEvictionSet)} ELSE {})
             order == IF full THEN RemoveFrom(authEvictionSet) ELSE authEvictionSet
             rest == Restrict(cachedResponses, kept)
  <2>1. authEvictionSet' \in InsertInto(order, key) /\ cachedResponses' = Assign(rest, key, response)
    BY Zenon, <1>3 DEF InsertResponse
  <2>2. EvictionSetOf(order, kept) /\ IsFiniteSet(kept) /\ Cardinality(kept) < authCacheSize /\ Cardinality(kept) \in Nat
    <3>1. CASE full
      <4>1. keys # {}
        BY <1>1, <3>1, FS_EmptySet
      <4>2. Peek(authEvictionSet) \in keys /\ EvictionSetOf(RemoveFrom(authEvictionSet), keys \ {Peek(authEvictionSet)})
        BY Zenon, <1>1, <4>1, Removing
      <4>3. IsFiniteSet(keys \ {Peek(authEvictionSet)}) /\ Cardinality(keys \ {Peek(authEvictionSet)}) = Cardinality(keys) - 1
        BY Zenon, <1>1, <4>2, FS_RemoveElement
      <4>4. kept = keys \ {Peek(authEvictionSet)} /\ order = RemoveFrom(authEvictionSet)
        BY Zenon, <3>1
      <4> HIDE DEF kept, order
      <4>5. IsFiniteSet(kept) /\ Cardinality(kept) \in Nat /\ Cardinality(kept) = Cardinality(keys) - 1
        BY Zenon, <4>3, <4>4, FS_CardinalityType
      <4>6. QED
        BY <1>1, <4>2, <4>4, <4>5
    <3>2. CASE ~full
      <4>1. kept = keys /\ order = authEvictionSet
        BY Zenon, <3>2
      <4>2. QED
        BY <1>1, <3>2, <4>1
    <3>3. QED
      BY Zenon, <3>1, <3>2
  <2>3. kept \subseteq keys /\ key \notin kept
    BY Zenon, <1>3
  <2> HIDE DEF full, kept, order, keys
  <2>4. DOMAIN rest = kept /\ \A k \in kept : rest[k] = cachedResponses[k]
    BY Zenon DEF Restrict
  <2> HIDE DEF rest
  <2>5. /\ DOMAIN cachedResponses' = kept \cup {key} /\ cachedResponses'[key] = response
        /\ \A k \in kept : cachedResponses'[k] = cachedResponses[k]
    BY Zenon, <2>1, <2>3, <2>4 DEF Assign
  <2>6. EvictionSetOf(authEvictionSet', kept \cup {key})
    BY Zenon, <2>1, <2>2, <2>3, Inserting
  <2>7. IsFiniteSet(kept \cup {key}) /\ Cardinality(kept \cup {key}) <= authCacheSize
    <3>1. IsFiniteSet(kept \cup {key}) /\ Cardinality(kept \cup {key}) = Cardinality(kept) + 1
      BY Zenon, <2>2, <2>3, FS_AddElement
    <3>2. QED
      BY <1>1, <2>2, <3>1
  <2>8. CacheBounded'
    BY Zenon, <2>5, <2>6, <2>7 DEF CacheBounded
  <2>9. QED
    BY Zenon, <2>3, <2>5, <2>8 DEF keys
<1>4. QED
  BY Zenon, <1>2, <1>3

(* The response is cached, and those that wait for it are awakened. *)
LEMMA PublishResponsePreserves ==
  ASSUME AuthInv, NEW c \in AuthCalls, PublishResponse(c)
  PROVE  AuthInv'
<1>1. /\ authCall[c] \in CallState /\ CallSound(c) /\ authCall[c].at = "publish" /\ authCacheSize > 0
      /\ UNCHANGED <<decider, authCacheSize, authClock, policy>> /\ ~authCall[c].failed /\ Asking(c)
  BY ZenonT(30) DEF AuthInv, AuthTypeOK, PublishResponse, authEnvironment, CallSound, Asking
<1>2. PICK key \in AuthRequests : authCall[c].key = {key} /\ Key(c) = key
  BY Zenon, <1>1 DEF CallSound, Key
<1>3. /\ DOMAIN pendingRequests' = DOMAIN pendingRequests \ {key}
      /\ \A k \in DOMAIN pendingRequests : k # key => pendingRequests'[k] = pendingRequests[k]
  BY Zenon, <1>2 DEF PublishResponse, Restrict
<1>4. /\ authCall' \in [AuthCalls -> CallState] /\ authCall'[c] = Responded(c)
      /\ \A d \in AuthCalls : d # c => authCall'[d] = Awakened(c, d)
  <2>1. authCall' = [d \in AuthCalls |-> IF d # c THEN Awakened(c, d) ELSE Responded(c)]
    BY Zenon DEF PublishResponse
  <2>2. \A d \in AuthCalls : Awakened(c, d) \in CallState
    BY Zenon, Awakening
  <2>3. Responded(c) \in CallState
    BY Zenon, Responding
  <2>4. QED
    BY Zenon, <2>1, <2>2, <2>3
<1>5. /\ authCall'[c].key = {key} /\ authCall'[c].at = "returned"
      /\ authCall'[c].failed <=> Outcome(c) = {}
      /\ authCall'[c].verdict \subseteq authCall'[c].fresh
      /\ authCall'[c].failed \/ authCall'[c].verdict # {}
  BY Zenon, <1>2, <1>4, Responding
<1>6. ASSUME NEW d \in AuthCalls, d # c
      PROVE  /\ authCall'[d].key = authCall[d].key
             /\ authCall'[d].verdict = authCall[d].verdict /\ authCall'[d].failed = authCall[d].failed
             /\ authCall[d].fresh \subseteq authCall'[d].fresh
             /\ authCall[d].key = {key} => VerdictsOf(c) \subseteq authCall'[d].fresh
             /\ authCall[d].at = "wait" /\ authCall[d].leader = {c} => authCall'[d].at = "recheck"
             /\ ~(authCall[d].at = "wait" /\ authCall[d].leader = {c}) =>
                  authCall'[d].at = authCall[d].at /\ authCall'[d].leader = authCall[d].leader
             /\ Asking(d)' <=> Asking(d)
  <2>1. authCall'[d] = Awakened(c, d)
    BY Zenon, <1>4, <1>6
  <2>2. /\ authCall'[d].key = authCall[d].key
        /\ authCall'[d].verdict = authCall[d].verdict /\ authCall'[d].failed = authCall[d].failed
        /\ authCall[d].fresh \subseteq authCall'[d].fresh
        /\ authCall[d].key = authCall[c].key => VerdictsOf(c) \subseteq authCall'[d].fresh
    BY SMTT(30), <2>1, Awakening
  <2>3. CASE authCall[d].at = "wait" /\ authCall[d].leader = {c}
    <3>1. authCall'[d].at = "recheck"
      BY SMTT(30), <2>1, <2>3, Awakening
    <3>2. QED
      BY Zenon, <1>2, <2>2, <2>3, <3>1 DEF Asking
  <2>4. CASE ~(authCall[d].at = "wait" /\ authCall[d].leader = {c})
    <3>1. authCall'[d].at = authCall[d].at /\ authCall'[d].leader = authCall[d].leader
      BY SMTT(30), <2>1, <2>4, Awakening
    <3>2. QED
      BY Zenon, <1>2, <2>2, <2>4, <3>1 DEF Asking
  <2>5. QED
    BY <2>3, <2>4, Zenon
<1>7. /\ CacheBounded'
      /\ Outcome(c) = {} => UNCHANGED cachedResponses
      /\ Outcome(c) # {} =>
           /\ key \in DOMAIN cachedResponses' /\ cachedResponses'[key].verdict \in VerdictsOf(c)
           /\ cachedResponses'[key].verdict \in Verdicts
           /\ \A k \in DOMAIN cachedResponses' :
                k # key => k \in DOMAIN cachedResponses /\ cachedResponses'[k] = cachedResponses[k]
  <2>1. CASE Outcome(c) = {}
    BY Zenon, <1>1, <2>1, CacheUntouched DEF PublishResponse
  <2>2. CASE Outcome(c) # {}
    <3>1. InsertResponse(key, Response(c))
      BY Zenon, <1>2, <2>2 DEF PublishResponse
    <3>2. Response(c) \in authCall[c].response
      BY Zenon, <2>2 DEF Response, Outcome
    <3>3. Response(c).verdict \in VerdictsOf(c) /\ Response(c).verdict \in Verdicts
      BY Zenon, <1>1, <3>2 DEF VerdictsOf, Outcome, CallState
    <3>4. QED
      BY Zenon, <1>1, <2>2, <3>1, <3>3, InsertingResponse
  <2>3. QED
    BY Zenon, <2>1, <2>2
<1>8. AuthTypeOK'
  <2>1. DOMAIN cachedResponses' \subseteq AuthRequests /\ \A k \in DOMAIN cachedResponses' : cachedResponses'[k].verdict \in Verdicts
    BY Zenon, <1>7 DEF AuthInv, AuthTypeOK
  <2>2. QED
    BY Zenon, <1>1, <1>4, <2>1 DEF AuthInv, AuthTypeOK
<1>9. PendingAsk'
  <2>1. ASSUME NEW d \in AuthCalls, Asking(d)', NEW k \in authCall'[d].key
        PROVE  k \in DOMAIN pendingRequests' /\ pendingRequests'[k] = d
    <3>1. d # c
      BY Zenon, <1>5, <2>1 DEF Asking
    <3>2. Asking(d) /\ k \in authCall[d].key
      BY Zenon, <1>6, <2>1, <3>1
    <3>3. k \in DOMAIN pendingRequests /\ pendingRequests[k] = d /\ pendingRequests[key] = c
      BY Zenon, <1>1, <1>2, <3>2 DEF AuthInv, PendingAsk
    <3>4. QED
      BY Zenon, <1>3, <3>1, <3>3
  <2>2. ASSUME NEW k \in DOMAIN pendingRequests'
        PROVE  /\ pendingRequests'[k] \in AuthCalls /\ authCall'[pendingRequests'[k]].at \in {"remote", "publish"}
               /\ authCall'[pendingRequests'[k]].key = {k}
    <3>1. PICK d \in AuthCalls : pendingRequests'[k] = d /\ Asking(d) /\ authCall[d].key = {k} /\ k # key
      BY Zenon, <1>3, <2>2 DEF AuthInv, PendingAsk
    <3>2. d # c
      BY Zenon, <1>2, <3>1
    <3>3. Asking(d)' /\ authCall'[d].key = {k}
      BY Zenon, <1>6, <3>1, <3>2
    <3>4. QED
      BY Zenon, <3>1, <3>3 DEF Asking
  <2>3. QED
    BY Zenon, <1>1, <2>1, <2>2 DEF PendingAsk, Asking
<1>10. CallSound(c)'
  BY Zenon, <1>5 DEF CallSound
<1>11. ASSUME NEW d \in AuthCalls, d # c
       PROVE  CallSound(d)'
  <2>1. CallSound(d)
    BY Zenon DEF AuthInv
  <2>2. Excused(d) => Excused(d)'
    <3> SUFFICES ASSUME Excused(d) PROVE Excused(d)'
      BY Zenon
    <3>1. PICK e \in AuthCalls \ {d} : authCall[e].failed /\ authCall[e].key = authCall[d].key
      BY Zenon DEF Excused
    <3>2. e # c
      BY Zenon, <1>1, <3>1
    <3>3. authCall'[e].failed /\ authCall'[e].key = authCall'[d].key
      BY Zenon, <1>6, <1>11, <3>1, <3>2
    <3>4. QED
      BY Zenon, <3>1, <3>3 DEF Excused
  <2>3. ASSUME authCall'[d].at = "recheck"
        PROVE  \/ \A k \in authCall'[d].key \cap DOMAIN cachedResponses' : cachedResponses'[k].verdict \in authCall'[d].fresh
               \/ Excused(d)'
    <3>1. CASE authCall[d].at = "wait" /\ authCall[d].leader = {c}
      <4>1. authCall[d].key = {key}
        BY Zenon, <1>2, <2>1, <3>1 DEF CallSound
      <4>2. CASE Outcome(c) = {}
        <5>1. authCall'[c].failed /\ authCall'[c].key = authCall'[d].key
          BY Zenon, <1>5, <1>6, <1>11, <4>1, <4>2
        <5>2. QED
          BY Zenon, <1>11, <5>1 DEF Excused
      <4>3. CASE Outcome(c) # {}
        BY ZenonT(30), <1>6, <1>7, <1>11, <4>1, <4>3
      <4>4. QED
        BY Zenon, <4>2, <4>3
    <3>2. CASE ~(authCall[d].at = "wait" /\ authCall[d].leader = {c})
      <4>1. authCall[d].at = "recheck"
        BY Zenon, <1>6, <1>11, <2>3, <3>2
      <4>2. \/ \A k \in authCall[d].key \cap DOMAIN cachedResponses : cachedResponses[k].verdict \in authCall[d].fresh
            \/ Excused(d)
        BY Zenon, <2>1, <4>1 DEF CallSound
      <4>3. CASE Outcome(c) = {}
        BY Zenon, <1>6, <1>7, <1>11, <2>2, <4>2, <4>3
      <4>4. CASE Outcome(c) # {}
        <5>1. PICK k \in AuthRequests : authCall[d].key = {k}
          BY Zenon, <2>1, <4>1 DEF CallSound
        <5>2. QED
          BY SMTT(30), <1>6, <1>7, <1>11, <2>2, <4>2, <4>4, <5>1
      <4>5. QED
        BY Zenon, <4>3, <4>4
    <3>3. QED
      BY Zenon, <3>1, <3>2
  <2>4. ASSUME authCall'[d].at = "wait"
        PROVE  \E e \in AuthCalls : authCall'[d].leader = {e} /\ Asking(e)' /\ authCall'[e].key = authCall'[d].key
    <3>1. authCall[d].at = "wait" /\ authCall[d].leader # {c} /\ authCall'[d].leader = authCall[d].leader
      BY Zenon, <1>6, <1>11, <2>4
    <3>2. PICK e \in AuthCalls : authCall[d].leader = {e} /\ Asking(e) /\ authCall[e].key = authCall[d].key
      BY Zenon, <2>1, <3>1 DEF CallSound
    <3>3. e # c
      BY Zenon, <3>1, <3>2
    <3>4. QED
      BY Zenon, <1>6, <1>11, <3>1, <3>2, <3>3
  <2>5. authCall'[d].at = "idle" \/ \E k \in AuthRequests : authCall'[d].key = {k}
    BY Zenon, <1>6, <1>11, <2>1 DEF CallSound
  <2>6. /\ authCall'[d].at # "returned" => authCall'[d].verdict = {} /\ ~authCall'[d].failed
        /\ authCall'[d].at = "returned" => authCall'[d].failed \/ authCall'[d].verdict # {}
        /\ authCall'[d].verdict \subseteq authCall'[d].fresh \/ Excused(d)'
    BY Zenon, <1>6, <1>11, <2>1, <2>2 DEF CallSound
  <2>7. QED
    BY <1>1, <2>3, <2>4, <2>5, <2>6, Zenon DEF CallSound
<1>12. QED
  BY Zenon, <1>7, <1>8, <1>9, <1>10, <1>11 DEF AuthInv

(* Without a cache. *)
LEMMA ReturnResponsePreserves ==
  ASSUME AuthInv, NEW c \in AuthCalls, ReturnResponse(c)
  PROVE  AuthInv'
<1>1. /\ authCall[c] \in CallState /\ CallSound(c) /\ authCall[c].at = "publish" /\ authCacheSize = 0
      /\ UNCHANGED <<authEnvironment, pendingRequests, cachedResponses, authEvictionSet>>
      /\ authCall' = [authCall EXCEPT ![c] = Responded(c)]
  BY Zenon DEF AuthInv, AuthTypeOK, ReturnResponse
<1> DEFINE after == Responded(c)
<1>2. /\ after \in CallState /\ after.key = authCall[c].key /\ after.at = "returned"
      /\ after.verdict \subseteq after.fresh
      /\ after.failed \/ after.verdict # {}
  BY <1>1, Responding, Zenon
<1> HIDE DEF after
<1>3. ~authCall[c].failed /\ authCall'[c] = after /\ UNCHANGED authCacheSize
  BY ZenonT(30), <1>1 DEF CallSound, AuthInv, AuthTypeOK, authEnvironment, after
<1>4. CallSound(c)'
  BY Zenon, <1>1, <1>2, <1>3 DEF CallSound
<1>5. CacheBounded'
  BY Zenon, <1>1, <1>3, CacheUntouched
<1>6. authCall' = [authCall EXCEPT ![c] = after] /\ ~(authCacheSize > 0)
  BY <1>1 DEF after
<1>7. QED
  BY Zenon, <1>1, <1>2, <1>3, <1>4, <1>5, <1>6, CallStepPreserves

(* Time passes, contexts are canceled and the remote service changes its   *)
(* mind.                                                                   *)
LEMMA EnvironmentPreserves ==
  ASSUME AuthInv, (\E key \in AuthRequests : PolicyChanges(key)) \/ AuthClockTicks \/ UNCHANGED authVars
  PROVE  AuthInv'
<1>1. /\ UNCHANGED <<decider, authCacheSize, pendingRequests, cachedResponses, authEvictionSet, authCall>>
      /\ policy' \in [AuthRequests -> Verdicts] /\ authClock' \in Nat
  BY DEF PolicyChanges, AuthClockTicks, authVars, AuthInv, AuthTypeOK, Verdicts
<1>2. AuthTypeOK'
  BY Zenon, <1>1 DEF AuthInv, AuthTypeOK
<1>3. PendingAsk' /\ CacheBounded'
  BY Zenon, <1>1 DEF AuthInv, PendingAsk, Asking, CacheBounded
<1>4. \A c \in AuthCalls : CallSound(c)'
  BY <1>1 DEF AuthInv, CallSound, Asking, Excused
<1>5. QED
  BY Zenon, <1>2, <1>3, <1>4 DEF AuthInv

(* Concurrent calls for a verdict make one request at a time, neither      *)
(* outgrow the cache nor fail because of each other, and return verdicts   *)
(* that are as fresh as those of the remote service.                       *)
THEOREM VerdictSoundness == AuthSpec => []VerdictsSound
<1>1. AuthInv /\ [AuthNext]_authVars => AuthInv'
  <2> SUFFICES ASSUME AuthInv, [AuthNext]_authVars PROVE AuthInv'
    BY Zenon
  <2>1. ASSUME NEW c \in AuthCalls, NEW key \in AuthRequests, BeginAuth(c, key)
        PROVE  AuthInv'
    BY Zenon, <2>1, BeginAuthPreserves
  <2>2. ASSUME NEW c \in AuthCalls, DecisionStep(c) \/ AuthCanceled(c)
        PROVE  AuthInv'
    BY Zenon, <2>2, ReadClockPreserves, LookUpResponsePreserves, AskRemotelyPreserves,
       PublishResponsePreserves,
       ReturnResponsePreserves, RecheckCachePreserves, AuthCanceledPreserves DEF DecisionStep
  <2>3. CASE (\E key \in AuthRequests : PolicyChanges(key)) \/ AuthClockTicks \/ UNCHANGED authVars
    BY Zenon, <2>3, EnvironmentPreserves
  <2>4. QED
    BY Zenon, <2>1, <2>2, <2>3 DEF AuthNext, AuthorizeSingle, AuthenticateHeaders
<1>2. QED
  BY <1>1, AuthInitially, AuthInvImplies, PTL DEF AuthSpec
-----------------------------------------------------------------------------
(* ReadCanarying. *)

(* An eviction set has as many elements as the map that it belongs to. *)
LEMMA EvictionSetSize ==
  ASSUME NEW S, NEW s, EvictionSetOf(s, S)
  PROVE  IsFiniteSet(S) /\ Cardinality(S) = Len(s) /\ Len(s) \in Nat
<1>1. s \in Seq(S) /\ Len(s) \in Nat /\ DOMAIN s = 1 .. Len(s) /\ s \in [1 .. Len(s) -> S]
  BY DEF EvictionSetOf
<1>2. \A a, b \in 1 .. Len(s) : s[a] = s[b] => a = b
  BY Zenon, <1>1 DEF EvictionSetOf, IsInjective
<1>3. \A x \in S : \E a \in 1 .. Len(s) : s[a] = x
  BY Zenon, <1>1 DEF EvictionSetOf, Range
<1>4. s \in Bijection(1 .. Len(s), S)
  BY Zenon, <1>1, <1>2, <1>3 DEF Bijection, Injection, Surjection, IsInjective
<1>5. ExistsBijection(1 .. Len(s), S)
  BY Zenon, <1>4 DEF ExistsBijection
<1>6. Cardinality(S) = Len(s)
  BY Zenon, <1>1, <1>5, FS_CountingElements
<1>7. IsFiniteSet(S)
  BY Zenon, <1>1, <1>5, FS_NatBijection
<1>8. QED
  BY Zenon, <1>1, <1>6, <1>7

(* Repeated calls to Remove() leave a part of an eviction set. *)
LEMMA RemovingMany ==
  ASSUME NEW S, NEW s, EvictionSetOf(s, S), NEW n \in 0 .. Len(s)
  PROVE  LET t == RemoveMany(s, n)
         IN  Range(t) \subseteq S /\ EvictionSetOf(t, Range(t)) /\ Len(t) = Len(s) - n
<1> DEFINE t == RemoveMany(s, n)
           first == IF EvictionPolicy = "RR" THEN 0 ELSE n
<1>1. s \in Seq(S) /\ Len(s) \in Nat /\ n \in Nat /\ n <= Len(s) /\ first \in {0, n}
  BY SMTT(30) DEF EvictionSetOf
<1>2. t \in Seq(S) /\ Len(t) = Len(s) - n /\ \A j \in 1 .. Len(s) - n : t[j] = s[first + j]
  <2>1. CASE EvictionPolicy = "RR"
    BY <1>1, <2>1, SubSeqProperties DEF RemoveMany
  <2>2. CASE EvictionPolicy # "RR"
    BY <1>1, <2>2, SubSeqProperties DEF RemoveMany
  <2>3. QED
    BY Zenon, <2>1, <2>2
<1>3. \A j \in 1 .. Len(s) - n : first + j \in 1 .. Len(s)
  BY <1>1
<1> HIDE DEF t, first
<1>4. IsInjective(t)
  <2> SUFFICES ASSUME NEW a \in 1 .. Len(s) - n, NEW b \in 1 .. Len(s) - n, t[a] = t[b] PROVE a = b
    BY SMTT(30), <1>2 DEF IsInjective
  <2>1. s[first + a] = s[first + b] /\ first + a \in DOMAIN s /\ first + b \in DOMAIN s
    BY SMTT(30), <1>1, <1>2, <1>3
  <2>2. IsInjective(s)
    BY Zenon DEF EvictionSetOf
  <2>3. first + a = first + b
    BY Zenon, <2>1, <2>2 DEF IsInjective
  <2>4. QED
    BY <1>1, <2>3
<1>5. Range(t) \subseteq S /\ t \in Seq(Range(t))
  BY SMTT(30), <1>2 DEF Range
<1>6. QED
  BY Zenon, <1>2, <1>4, <1>5 DEF EvictionSetOf, t

RequestState ==
  {Idle} \cup [at : {"replica", "source"}, instance : InstanceNames]
    \cup [at : {"record"}, instance : InstanceNames, failed : BOOLEAN]

CacheInv ==
  /\ EvictionSetOf(evictionSet, DOMAIN cachedInstanceNames)
  /\ Len(evictionSet) <= MaximumCacheSize + 1

CanaryInv ==
  /\ request \in [Requests -> RequestState]
  /\ CacheInv
  /\ \A i \in DOMAIN cachedInstanceNames : cachedInstanceNames[i].canaryInProgress => AtReplica(i) # {}

(* getAndTouchCacheEntry() makes room for an entry if there is none, and   *)
(* leaves the others alone.                                                *)
LEMMA EntryTouched ==
  ASSUME CacheInv, NEW i, NEW entry, GetAndTouchCacheEntry(i, entry)
  PROVE  /\ CacheInv'
         /\ cachedInstanceNames'[i] = entry
         /\ \A j \in DOMAIN cachedInstanceNames' :
              j # i => j \in DOMAIN cachedInstanceNames /\ cachedInstanceNames'[j] = cachedInstanceNames[j]
<1> DEFINE names == DOMAIN cachedInstanceNames
<1>1. IsFiniteSet(names) /\ Cardinality(names) = Len(evictionSet) /\ Len(evictionSet) \in Nat /\ MaximumCacheSize \in Nat
  BY Zenon, EvictionSetSize, CanaryAssumption DEF CacheInv
<1>2. CASE i \in names
  <2>1. /\ evictionSet' = Touch(evictionSet, i)
        /\ cachedInstanceNames' = [cachedInstanceNames EXCEPT ![i] = entry]
    BY Zenon, <1>2 DEF GetAndTouchCacheEntry
  <2>2. /\ DOMAIN cachedInstanceNames' = names /\ cachedInstanceNames'[i] = entry
        /\ \A j \in names : j # i => cachedInstanceNames'[j] = cachedInstanceNames[j]
    BY Zenon, <1>2, <2>1
  <2>3. EvictionSetOf(evictionSet', names)
    BY Zenon, <1>2, <2>1, Touching DEF CacheInv
  <2>4. Len(evictionSet') = Len(evictionSet)
    BY Zenon, <1>1, <2>3, EvictionSetSize
  <2>5. QED
    BY Zenon, <2>2, <2>3, <2>4 DEF CacheInv
<1>3. CASE i \notin names
  <2> DEFINE kept == RemoveMany(evictionSet, Excess)
             rest == Restrict(cachedInstanceNames, Range(kept))
  <2>1. Excess \in 0 .. Len(evictionSet) /\ Len(evictionSet) - Excess <= MaximumCacheSize
    BY <1>1 DEF Excess
  <2>2. Range(kept) \subseteq names /\ EvictionSetOf(kept, Range(kept)) /\ Len(kept) = Len(evictionSet) - Excess
    BY Zenon, <2>1, RemovingMany DEF CacheInv
  <2> HIDE DEF kept
  <2>3. names \ (Range(evictionSet) \ Range(kept)) = Range(kept)
    BY Zenon, <2>2 DEF CacheInv, EvictionSetOf
  <2>4. evictionSet' \in InsertInto(kept, i) /\ cachedInstanceNames' = Assign(rest, i, entry)
    BY Zenon, <1>3, <2>3 DEF GetAndTouchCacheEntry, kept
  <2>5. DOMAIN rest = Range(kept) /\ \A j \in Range(kept) : rest[j] = cachedInstanceNames[j]
    BY Zenon, <2>2, Restricted
  <2> HIDE DEF rest
  <2>6. /\ DOMAIN cachedInstanceNames' = Range(kept) \cup {i} /\ cachedInstanceNames'[i] = entry
        /\ \A j \in Range(kept) : j # i => cachedInstanceNames'[j] = rest[j]
    BY Zenon, <2>4, <2>5 DEF Assign
  <2>7. EvictionSetOf(evictionSet', Range(kept) \cup {i})
    BY Zenon, <1>3, <2>2, <2>4, Inserting
  <2>8. Len(evictionSet') = Len(kept) + 1
    <3>1. /\ IsFiniteSet(Range(kept)) /\ Cardinality(Range(kept)) = Len(kept)
          /\ Cardinality(Range(kept) \cup {i}) = Len(evictionSet')
      BY Zenon, <2>2, <2>7, EvictionSetSize
    <3>2. i \notin Range(kept)
      BY Zenon, <1>3, <2>2
    <3>3. QED
      BY Zenon, <3>1, <3>2, FS_AddElement
  <2>9. Len(evictionSet') <= MaximumCacheSize + 1
    BY SMTT(30), <1>1, <2>1, <2>2, <2>8
  <2>10. QED
    BY Zenon, <2>2, <2>5, <2>6, <2>7, <2>9 DEF CacheInv
<1>4. QED
  BY Zenon, <1>2, <1>3

(* Changing what a single request is doing. *)
LEMMA OtherRequests ==
  ASSUME CanaryInv, NEW r \in Requests, NEW after \in RequestState, request' = [request EXCEPT ![r] = after]
  PROVE  /\ request' \in [Requests -> RequestState]
         /\ \A i : (after.at \in {"replica", "record"} /\ after.instance = i) => AtReplica(i)' # {}
         /\ \A i : /\ AtReplica(i) # {}
                   /\ request[r].at \in {"replica", "record"} /\ request[r].instance = i =>
                        after.at \in {"replica", "record"} /\ after.instance = i
                   => AtReplica(i)' # {}
<1>1. /\ request' \in [Requests -> RequestState] /\ request'[r] = after
      /\ \A q \in Requests : q # r => request'[q] = request[q]
  BY Zenon DEF CanaryInv
<1>2. QED
  BY Zenon, <1>1 DEF AtReplica

(* While the cache says that a canary is under way, a request is at the    *)
(* replica or about to record what that replied, whatever the sizes of     *)
(* cache and the eviction policy (CanariesConclude).                       *)
THEOREM CanaryProgress == CanarySpec => []CanariesConclude
<1>1. CanaryInit => CanaryInv
  <2> SUFFICES ASSUME CanaryInit PROVE CanaryInv
    BY Zenon
  <2>1. EvictionSetOf(<<>>, {}) /\ DOMAIN cachedInstanceNames = {} /\ evictionSet = <<>>
    BY DEF EvictionSetOf, IsInjective, Range, CanaryInit
  <2>2. request \in [Requests -> RequestState]
    BY Zenon DEF CanaryInit, RequestState
  <2>3. QED
    BY <2>1, <2>2, CanaryAssumption DEF CanaryInv, CacheInv
<1>2. CanaryInv /\ [CanaryNext]_canaryVars => CanaryInv'
  <2> SUFFICES ASSUME CanaryInv, [CanaryNext]_canaryVars PROVE CanaryInv'
    BY Zenon
  <2>1. ASSUME NEW r \in Requests, NEW i \in InstanceNames, ShouldSendToReplica(r, i) PROVE CanaryInv'
    <3> DEFINE entry == cachedInstanceNames[i]
               known == i \in DOMAIN cachedInstanceNames /\ (entry.canaryInProgress \/ clock < entry.expirationTime)
               after == [at |-> IF ~entry.canaryInProgress /\ entry.shouldSendToReplica THEN "replica" ELSE "source",
                         instance |-> i]
    <3>1. request[r] = Idle /\ ~(request[r].at \in {"replica", "record"})
      BY SMTT(30), <2>1 DEF ShouldSendToReplica, Idle
    <3>2. CASE known
      <4>1. GetAndTouchCacheEntry(i, entry) /\ request' = [request EXCEPT ![r] = after] /\ i \in DOMAIN cachedInstanceNames
        BY Zenon, <2>1, <3>2 DEF ShouldSendToReplica
      <4>2. after \in RequestState
        BY Zenon DEF RequestState
      <4> HIDE DEF after
      <4>3. /\ CacheInv' /\ cachedInstanceNames'[i] = entry
            /\ \A j \in DOMAIN cachedInstanceNames' :
                 j # i => j \in DOMAIN cachedInstanceNames /\ cachedInstanceNames'[j] = cachedInstanceNames[j]
        BY Zenon, <4>1, EntryTouched DEF CanaryInv
      <4>4. request' \in [Requests -> RequestState] /\ \A j : AtReplica(j) # {} => AtReplica(j)' # {}
        BY Zenon, <3>1, <4>1, <4>2, OtherRequests
      <4>5. QED
        BY Zenon, <4>1, <4>3, <4>4 DEF CanaryInv
    <3>3. CASE ~known
      <4> DEFINE canary == [at |-> "replica", instance |-> i]
      <4>1. GetAndTouchCacheEntry(i, InProgress) /\ request' = [request EXCEPT ![r] = canary]
        BY Zenon, <2>1, <3>3 DEF ShouldSendToReplica
      <4>2. canary \in RequestState /\ canary.at = "replica" /\ canary.instance = i
        BY Zenon DEF RequestState
      <4> HIDE DEF canary
      <4>3. /\ CacheInv'
            /\ \A j \in DOMAIN cachedInstanceNames' :
                 j # i => j \in DOMAIN cachedInstanceNames /\ cachedInstanceNames'[j] = cachedInstanceNames[j]
        BY Zenon, <4>1, EntryTouched DEF CanaryInv
      <4>4. /\ request' \in [Requests -> RequestState] /\ AtReplica(i)' # {}
            /\ \A j : AtReplica(j) # {} => AtReplica(j)' # {}
        BY ZenonT(30), <3>1, <4>1, <4>2, OtherRequests
      <4>5. QED
        BY Zenon, <4>3, <4>4 DEF CanaryInv
    <3>4. QED
      BY Zenon, <3>2, <3>3
  <2>2. ASSUME NEW r \in Requests, ReplicaResponds(r) PROVE CanaryInv'
    <3> DEFINE after == [at |-> "record", instance |-> request[r].instance, failed |-> ~replicaUp]
    <3>1. request[r].at = "replica" /\ request' = [request EXCEPT ![r] = after]
      BY Zenon, <2>2 DEF ReplicaResponds
    <3>2. request[r].instance \in InstanceNames
      BY SMTT(30), <3>1 DEF CanaryInv, RequestState, Idle
    <3>3. after \in RequestState /\ after.at = "record" /\ after.instance = request[r].instance
      BY Zenon, <3>2 DEF RequestState
    <3> HIDE DEF after
    <3>4. request' \in [Requests -> RequestState] /\ \A j : AtReplica(j) # {} => AtReplica(j)' # {}
      BY ZenonT(30), <3>1, <3>3, OtherRequests
    <3>5. QED
      BY Zenon, <2>2, <3>4 DEF CanaryInv, CacheInv, ReplicaResponds
  <2>3. ASSUME NEW r \in Requests, RecordReplicaResponse(r) PROVE CanaryInv'
    <3> DEFINE i == request[r].instance
               after == IF request[r].failed THEN [at |-> "source", instance |-> i] ELSE Idle
               entry == [canaryInProgress |-> FALSE, shouldSendToReplica |-> ~request[r].failed,
                         expirationTime |-> clock + MaximumCacheDuration]
    <3>1. request[r].at = "record" /\ GetAndTouchCacheEntry(i, entry) /\ request' = [request EXCEPT ![r] = after]
      BY Zenon, <2>3 DEF RecordReplicaResponse
    <3>2. i \in InstanceNames
      BY <3>1 DEF CanaryInv, RequestState, Idle
    <3>3. after \in RequestState
      BY Zenon, <3>2 DEF RequestState
    <3> HIDE DEF after, i
    <3>4. /\ CacheInv' /\ ~cachedInstanceNames'[i].canaryInProgress
          /\ \A j \in DOMAIN cachedInstanceNames' :
               j # i => j \in DOMAIN cachedInstanceNames /\ cachedInstanceNames'[j] = cachedInstanceNames[j]
      BY <3>1, EntryTouched DEF CanaryInv
    <3>5. request' \in [Requests -> RequestState] /\ \A j : j # i /\ AtReplica(j) # {} => AtReplica(j)' # {}
      BY Zenon, <3>1, <3>3, OtherRequests DEF i
    <3>6. QED
      BY Zenon, <3>4, <3>5 DEF CanaryInv
  <2>4. ASSUME NEW r \in Requests, SourceResponds(r) PROVE CanaryInv'
    <3>1. request[r].at = "source" /\ request' = [request EXCEPT ![r] = Idle]
      BY Zenon, <2>4 DEF SourceResponds
    <3>2. request' \in [Requests -> RequestState] /\ \A j : AtReplica(j) # {} => AtReplica(j)' # {}
      BY Zenon, <3>1, OtherRequests DEF RequestState
    <3>3. QED
      BY Zenon, <2>4, <3>2 DEF CanaryInv, CacheInv, SourceResponds
  <2>5. CASE ClockTicks \/ ReplicaChanges \/ UNCHANGED canaryVars
    BY Zenon, <2>5 DEF ClockTicks, ReplicaChanges, canaryVars, CanaryInv, CacheInv, AtReplica
  <2>6. QED
    BY Zenon, <2>1, <2>2, <2>3, <2>4, <2>5 DEF CanaryNext
<1>3. CanaryInv => CanariesConclude
  BY Zenon DEF CanaryInv, CacheInv, EvictionSetOf, CanariesConclude
<1>4. QED
  BY <1>1, <1>2, <1>3, PTL DEF CanarySpec
=============================================================================
