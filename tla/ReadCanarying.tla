---------------------------- MODULE ReadCanarying ----------------------------
(***************************************************************************)
(* readCanaryingBlobAccess: reads go to a replica while that is known to   *)
(* work, which is found out by sending it a single request, the canary     *)
(* (pkg/blobstore/read_canarying_blob_access.go).                          *)
(*                                                                         *)
(* Requests look up the cache, talk to a backend and record the response,  *)
(* each of which is a step.  A request is Get(), GetFromComposite(), or    *)
(* FindMissing() for the digests with a single instance name.              *)
(***************************************************************************)
EXTENDS CachedKeys

CONSTANTS
  Requests,               \* the callers
  InstanceNames,
  MaximumCacheSize,
  MaximumCacheDuration,
  MaxTime                 \* bound on the clock

ASSUME CanaryAssumption ==
  MaximumCacheSize \in Nat /\ MaximumCacheDuration \in Nat /\ MaxTime \in Nat

VARIABLES
  clock,
  cachedInstanceNames,    \* instance name -> [canaryInProgress, shouldSendToReplica, expirationTime]
  evictionSet,
  request,                \* what each caller is doing
  replicaUp               \* whether the replica works

canaryVars == <<clock, cachedInstanceNames, evictionSet, request, replicaUp>>

Idle == [at |-> "idle"]

CanaryInit ==
  /\ clock = 0
  /\ cachedInstanceNames = <<>>
  /\ evictionSet = <<>>
  /\ request = [r \in Requests |-> Idle]
  /\ replicaUp \in BOOLEAN

-----------------------------------------------------------------------------
(* By how much the cache is too large: the comparison admits one name over *)
(* the maximum.                                                            *)
Excess ==
  LET size == Cardinality(DOMAIN cachedInstanceNames)
  IN  IF size > MaximumCacheSize THEN size - MaximumCacheSize ELSE 0

(* getAndTouchCacheEntry(), after which the caller sets the entry.  Names  *)
(* are only evicted when one is inserted.                                  *)
GetAndTouchCacheEntry(i, entry) ==
  LET kept    == RemoveMany(evictionSet, Excess)
      evicted == Range(evictionSet) \ Range(kept)
  IN  IF i \in DOMAIN cachedInstanceNames
      THEN /\ evictionSet' = Touch(evictionSet, i)
           /\ cachedInstanceNames' = [cachedInstanceNames EXCEPT ![i] = entry]
      ELSE /\ evictionSet' \in InsertInto(kept, i)
           /\ cachedInstanceNames' = Assign(Restrict(cachedInstanceNames, DOMAIN cachedInstanceNames \ evicted), i, entry)

InProgress == [canaryInProgress |-> TRUE, shouldSendToReplica |-> FALSE, expirationTime |-> 0]

(* shouldSendToReplica(): a valid entry decides; otherwise this request    *)
(* becomes the canary.                                                     *)
ShouldSendToReplica(r, i) ==
  LET entry == cachedInstanceNames[i]
      known == i \in DOMAIN cachedInstanceNames /\ (entry.canaryInProgress \/ clock < entry.expirationTime)
  IN  /\ request[r] = Idle
      /\ IF known
         THEN /\ GetAndTouchCacheEntry(i, entry)
              /\ request' = [request EXCEPT ![r] =
                   [at |-> IF ~entry.canaryInProgress /\ entry.shouldSendToReplica THEN "replica" ELSE "source", instance |-> i]]
         ELSE /\ GetAndTouchCacheEntry(i, InProgress)
              /\ request' = [request EXCEPT ![r] = [at |-> "replica", instance |-> i]]
      /\ UNCHANGED <<clock, replicaUp>>

(* The replica answers, or fails with an infrastructure error.  It is      *)
(* noticed once the buffer is read: in OnError(), or in Done().            *)
ReplicaResponds(r) ==
  /\ request[r].at = "replica"
  /\ request' = [request EXCEPT ![r] = [at |-> "record", instance |-> @.instance, failed |-> ~replicaUp]]
  /\ UNCHANGED <<clock, cachedInstanceNames, evictionSet, replicaUp>>

(* Mutant: only successes are recorded. *)
RecordSuccessOnly(r) ==
  LET i == request[r].instance
  IN  /\ request[r].at = "record"
      /\ IF request[r].failed
         THEN UNCHANGED <<cachedInstanceNames, evictionSet>>
         ELSE GetAndTouchCacheEntry(i, [canaryInProgress |-> FALSE, shouldSendToReplica |-> TRUE,
                                        expirationTime |-> clock + MaximumCacheDuration])
      /\ request' = [request EXCEPT ![r] = IF @.failed THEN [at |-> "source", instance |-> i] ELSE Idle]
      /\ UNCHANGED <<clock, replicaUp>>

(* recordReplicaResponse(), upon which failed requests go to the source. *)
RecordReplicaResponse(r) ==
  LET i == request[r].instance
  IN  /\ request[r].at = "record"
      /\ GetAndTouchCacheEntry(i, [canaryInProgress |-> FALSE, shouldSendToReplica |-> ~request[r].failed,
                                   expirationTime |-> clock + MaximumCacheDuration])
      /\ request' = [request EXCEPT ![r] = IF @.failed THEN [at |-> "source", instance |-> i] ELSE Idle]
      /\ UNCHANGED <<clock, replicaUp>>

SourceResponds(r) ==
  /\ request[r].at = "source"
  /\ request' = [request EXCEPT ![r] = Idle]
  /\ UNCHANGED <<clock, cachedInstanceNames, evictionSet, replicaUp>>

-----------------------------------------------------------------------------
(* The environment. *)

ClockTicks ==
  /\ clock < MaxTime
  /\ clock' = clock + 1
  /\ UNCHANGED <<cachedInstanceNames, evictionSet, request, replicaUp>>

ReplicaChanges ==
  /\ replicaUp' = ~replicaUp
  /\ UNCHANGED <<clock, cachedInstanceNames, evictionSet, request>>

CanaryNext ==
  \/ \E r \in Requests, i \in InstanceNames : ShouldSendToReplica(r, i)
  \/ \E r \in Requests : ReplicaResponds(r) \/ RecordReplicaResponse(r) \/ SourceResponds(r)
  \/ ClockTicks
  \/ ReplicaChanges

CanarySpec == CanaryInit /\ [][CanaryNext]_canaryVars

-----------------------------------------------------------------------------
AtReplica(i) == {r \in Requests : request[r].at \in {"replica", "record"} /\ request[r].instance = i}

(* While the cache says that a canary is under way, one is: were that not  *)
(* so, an instance name would be cut off from the replica for good, as     *)
(* such entries don't expire.  This must hold even if entries are evicted  *)
(* while their canary is under way, and late responses overwrite entries   *)
(* of newer canaries.  The keys of the cache and of its eviction set are   *)
(* the same, and there is at most one more than maximumCacheSize of them.  *)
CanariesConclude ==
  /\ \A i \in DOMAIN cachedInstanceNames : cachedInstanceNames[i].canaryInProgress => AtReplica(i) # {}
  /\ IsInjective(evictionSet)
  /\ Range(evictionSet) = DOMAIN cachedInstanceNames
  /\ Len(evictionSet) <= MaximumCacheSize + 1
=============================================================================
