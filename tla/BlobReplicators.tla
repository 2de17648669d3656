-------------------------- MODULE BlobReplicators --------------------------
(***************************************************************************)
(* Concurrent calls to ReplicateMultiple() (pkg/blobstore/replication):    *)
(* deduplicatingBlobReplicator on top of concurrencyLimitingBlobReplicator *)
(* and localBlobReplicator, or queuedBlobReplicator on top of              *)
(* localBlobReplicator.  The key of a digest is the digest itself.         *)
(*                                                                         *)
(* The source holds all digests but may fail, the sink may discard what it *)
(* holds, and contexts of calls may be cancelled.                          *)
(***************************************************************************)
EXTENDS CachedKeys, SequencesExt, FiniteSetsExt

CONSTANTS
  Calls,                  \* concurrent callers
  Digests,
  NoCaller,
  Permits,                \* the size of the semaphore
  ExistenceCacheSize,
  ExistenceCacheDuration,
  MaxNow,                 \* bound on the clock
  MaxFaults               \* bound on the number of failing operations

ASSUME ReplicatorAssumption == Permits \in Nat \ {0} /\ ExistenceCacheSize \in Nat \ {0}

VARIABLES
  stack,                  \* "deduplicating" or "queued"
  now,
  sink,                   \* the digests that the sink holds
  inFlightReplications,   \* digest -> the call that replicates it
  permits,                \* of the semaphore; of the queue, whether it is free
  existenceCache,
  call,                   \* what each caller is doing
  faults

replicatorVars == <<stack, now, sink, inFlightReplications, permits, existenceCache, call, faults>>

(* "todo" are the digests that a call still has to replicate; "held" are   *)
(* those that the sink held at some time during the call or one that it    *)
(* waited for, or no longer ago than the duration of the existence cache.  *)
NoCall == [at |-> "idle", todo |-> <<>>, leader |-> NoCaller, all |-> {}, held |-> {}, canceled |-> FALSE, failed |-> FALSE]

-----------------------------------------------------------------------------
(* The existence cache: insertion times of the keys, and their eviction    *)
(* set.                                                                    *)

NewExistenceCache == [times |-> <<>>, order |-> <<>>]

Unexpired(cache, key) == key \in DOMAIN cache.times /\ cache.times[key] >= now - ExistenceCacheDuration

(* The keys that remain, and the cache after having touched the others. *)
RemoveExisting(cache, keys) ==
  LET Visit(acc, key) ==
        IF Unexpired(cache, key)
        THEN [acc EXCEPT !.cache.order = Touch(@, key)]
        ELSE [acc EXCEPT !.missing = @ \cup {key}]
  IN  FoldLeft(Visit, [missing |-> {}, cache |-> cache], keys)

(* Room is made for every key, even for one that is there already. *)
MakeRoom(cache) ==
  IF Cardinality(DOMAIN cache.times) < ExistenceCacheSize
  THEN cache
  ELSE [times |-> Restrict(cache.times, DOMAIN cache.times \ {Peek(cache.order)}), order |-> RemoveFrom(cache.order)]

AddKey(caches, key) ==
  UNION {LET c == MakeRoom(cache)
         IN  IF key \in DOMAIN c.times
             THEN {[c EXCEPT !.times[key] = Max({@, now})]}
             ELSE {[times |-> (key :> now) @@ c.times, order |-> order] : order \in InsertInto(c.order, key)} :
         cache \in caches}

AddExisting(cache, keys) == FoldLeft(AddKey, {cache}, keys)

-----------------------------------------------------------------------------
Slots == IF stack = "queued" THEN 1 ELSE Permits

ReplicatorInit ==
  /\ stack \in {"deduplicating", "queued"}
  /\ now = 0
  /\ sink = {}
  /\ inFlightReplications = <<>>
  /\ permits = Slots
  /\ existenceCache = NewExistenceCache
  /\ call = [c \in Calls |-> NoCall]
  /\ faults = 0

(* The digests that calls are about to add to the cache, or have added. *)
Recent ==
  {d \in Digests : Unexpired(existenceCache, d)}
    \cup UNION {ToSet(call[c].todo) : c \in {d \in Calls : call[d].at = "add"}}

Returned == {"idle", "ok", "error"}

Start(c, digests) ==
  /\ call[c].at = "idle"
  /\ call' = [call EXCEPT ![c] =
       [NoCall EXCEPT !.at = IF stack = "queued" THEN "check" ELSE "register", !.todo = SetToSeq(digests), !.all = digests,
                      !.held = (sink \cup Recent) \cap digests]]
  /\ UNCHANGED <<stack, now, sink, inFlightReplications, permits, existenceCache, faults>>

Goto(c, at) == [call EXCEPT ![c].at = at]

(* A call returns an error: its own failure, or that of its context. *)
Fails(c) == [call EXCEPT ![c].at = "error"]

Fault(c) == faults < MaxFaults /\ faults' = faults + 1

-----------------------------------------------------------------------------
(* deduplicatingBlobReplicator. *)

Current(c) == Head(call[c].todo)

NextDigest(c) == IF Len(call[c].todo) = 1 THEN "ok" ELSE "register"

(* Look up whether somebody is replicating the digest, and if not, become  *)
(* that somebody.                                                          *)
Register(c) ==
  /\ call[c].at = "register"
  /\ IF Current(c) \in DOMAIN inFlightReplications
     THEN /\ call' = [call EXCEPT ![c].at = "wait", ![c].leader = inFlightReplications[Current(c)]]
          /\ UNCHANGED inFlightReplications
     ELSE /\ call' = Goto(c, "find")
          /\ inFlightReplications' = (Current(c) :> c) @@ inFlightReplications
  /\ UNCHANGED <<stack, now, sink, permits, existenceCache, faults>>

FindMissing(c) ==
  /\ call[c].at = "find"
  /\ \/ Fault(c) /\ call' = [call EXCEPT ![c].at = "delete", ![c].failed = TRUE]
     \/ UNCHANGED faults /\ call' = Goto(c, IF Current(c) \in sink THEN "delete" ELSE "acquire")
  /\ UNCHANGED <<stack, now, sink, inFlightReplications, permits, existenceCache>>

(* Remove the replication from the map, and then announce its outcome. *)
Delete(c) ==
  /\ call[c].at = "delete"
  /\ inFlightReplications' = Restrict(inFlightReplications, DOMAIN inFlightReplications \ {Current(c)})
  /\ call' = Goto(c, "finish")
  /\ UNCHANGED <<stack, now, sink, permits, existenceCache, faults>>

(* Mutant: those that wait always continue with their next digest. *)
FinishSuccess(c) ==
  LET Advanced(w) == [call[w] EXCEPT !.todo = Tail(@), !.at = NextDigest(w), !.leader = NoCaller,
                                      !.held = @ \cup (call[c].held \cap call[w].all)]
  IN  /\ call[c].at = "finish"
      /\ call' = [w \in Calls |->
           CASE w = c -> IF call[c].failed THEN [call[c] EXCEPT !.at = "error"] ELSE Advanced(c)
             [] w # c /\ call[w].at = "wait" /\ call[w].leader = c -> Advanced(w)
             [] OTHER -> call[w]]
      /\ UNCHANGED <<stack, now, sink, inFlightReplications, permits, existenceCache, faults>>

(* Closing the channel makes those that wait continue with their next      *)
(* digest, or retry if the replication failed.                             *)
Finish(c) ==
  LET Advanced(w) == [call[w] EXCEPT !.todo = Tail(@), !.at = NextDigest(w), !.leader = NoCaller,
                                      !.held = @ \cup (call[c].held \cap call[w].all)]
  IN  /\ call[c].at = "finish"
      /\ call' = [w \in Calls |->
           CASE w = c -> IF call[c].failed THEN [call[c] EXCEPT !.at = "error"] ELSE Advanced(c)
             [] w # c /\ call[w].at = "wait" /\ call[w].leader = c ->
                  IF call[c].failed THEN [call[w] EXCEPT !.at = "register", !.leader = NoCaller] ELSE Advanced(w)
             [] OTHER -> call[w]]
      /\ UNCHANGED <<stack, now, sink, inFlightReplications, permits, existenceCache, faults>>

WaitCanceled(c) ==
  /\ call[c].at = "wait" /\ call[c].canceled
  /\ call' = Fails(c)
  /\ UNCHANGED <<stack, now, sink, inFlightReplications, permits, existenceCache, faults>>

-----------------------------------------------------------------------------
(* concurrencyLimitingBlobReplicator. *)

AcquireSemaphore(c) ==
  /\ call[c].at = "acquire"
  /\ \/ permits > 0 /\ permits' = permits - 1 /\ call' = Goto(c, "replicate")
     \/ call[c].canceled /\ call' = [call EXCEPT ![c].at = "delete", ![c].failed = TRUE] /\ UNCHANGED permits
  /\ UNCHANGED <<stack, now, sink, inFlightReplications, existenceCache, faults>>

(* localBlobReplicator copies, and the semaphore is released. *)
Held(digests) ==
  [w \in Calls |-> [call[w] EXCEPT !.held = @ \cup (digests \cap call[w].all)]]

Replicate(c) ==
  /\ call[c].at = "replicate"
  /\ permits' = permits + 1
  /\ \/ /\ Fault(c) \/ (call[c].canceled /\ UNCHANGED faults)
        /\ call' = [call EXCEPT ![c].at = "delete", ![c].failed = TRUE]
        /\ UNCHANGED sink
     \/ /\ UNCHANGED faults
        /\ sink' = sink \cup {Current(c)}
        /\ call' = [Held({Current(c)}) EXCEPT ![c].at = "delete"]
  /\ UNCHANGED <<stack, now, inFlightReplications, existenceCache>>

-----------------------------------------------------------------------------
(* queuedBlobReplicator. *)

(* Calls whose digests are all in the cache don't queue. *)
CheckCache(c) ==
  LET r == RemoveExisting(existenceCache, call[c].todo)
  IN  /\ call[c].at = "check"
      /\ existenceCache' = r.cache
      /\ call' = Goto(c, IF r.missing = {} THEN "ok" ELSE "queued")
      /\ UNCHANGED <<stack, now, sink, inFlightReplications, permits, faults>>

Wait(c) ==
  /\ call[c].at = "queued"
  /\ \/ permits > 0 /\ permits' = permits - 1 /\ call' = Goto(c, "filter")
     \/ call[c].canceled /\ call' = Fails(c) /\ UNCHANGED permits
  /\ UNCHANGED <<stack, now, sink, inFlightReplications, existenceCache, faults>>

FilterCached(c) ==
  LET r == RemoveExisting(existenceCache, call[c].todo)
  IN  /\ call[c].at = "filter"
      /\ existenceCache' = r.cache
      /\ call' = [call EXCEPT ![c].at = "forward", ![c].todo = SetToSeq(r.missing)]
      /\ UNCHANGED <<stack, now, sink, inFlightReplications, permits, faults>>

(* All of the digests are replicated, or some of them and an error.  They  *)
(* are added to the cache, unless that fails, and the next call is let in. *)
Forward(c) ==
  /\ call[c].at = "forward"
  /\ \/ /\ Fault(c) \/ (call[c].canceled /\ UNCHANGED faults)
        /\ \E some \in SUBSET ToSet(call[c].todo) : sink' = sink \cup some /\ call' = [Held(some) EXCEPT ![c].at = "error", ![c].failed = TRUE]
        /\ permits' = permits + 1
        /\ UNCHANGED existenceCache
     \/ /\ sink' = sink \cup ToSet(call[c].todo)
        /\ call' = [Held(ToSet(call[c].todo)) EXCEPT ![c].at = "add"]
        /\ UNCHANGED <<permits, existenceCache, faults>>
  /\ UNCHANGED <<stack, now, inFlightReplications>>

AddToCache(c) ==
  /\ call[c].at = "add"
  /\ existenceCache' \in AddExisting(existenceCache, call[c].todo)
  /\ permits' = permits + 1
  /\ call' = Goto(c, "ok")
  /\ UNCHANGED <<stack, now, sink, inFlightReplications, faults>>

-----------------------------------------------------------------------------
(* The environment. *)

Cancel(c) ==
  /\ call[c].at \notin Returned /\ ~call[c].canceled
  /\ faults < MaxFaults /\ faults' = faults + 1
  /\ call' = [call EXCEPT ![c].canceled = TRUE]
  /\ UNCHANGED <<stack, now, sink, inFlightReplications, permits, existenceCache>>

SinkDiscards ==
  /\ \E d \in sink : sink' = sink \ {d}
  /\ faults < MaxFaults /\ faults' = faults + 1
  /\ UNCHANGED <<stack, now, inFlightReplications, permits, existenceCache, call>>

Tick ==
  /\ stack = "queued"
  /\ now < MaxNow /\ now' = now + 1
  /\ UNCHANGED <<stack, sink, inFlightReplications, permits, existenceCache, call, faults>>

Step(c) ==
  \/ Register(c) \/ FindMissing(c) \/ AcquireSemaphore(c) \/ Replicate(c) \/ Delete(c) \/ Finish(c) \/ WaitCanceled(c)
  \/ CheckCache(c) \/ Wait(c) \/ FilterCached(c) \/ Forward(c) \/ AddToCache(c)

ReplicatorNext ==
  \/ \E c \in Calls, digests \in SUBSET Digests \ {{}} : Start(c, digests)
  \/ \E c \in Calls : Step(c) \/ Cancel(c)
  \/ SinkDiscards
  \/ Tick

(* Goroutines run, backends answer, and the semaphore serves those that    *)
(* wait in order.                                                          *)
ReplicatorFairness == \A c \in Calls : WF_replicatorVars(Step(c)) /\ SF_replicatorVars(AcquireSemaphore(c))

-----------------------------------------------------------------------------
(* A call that succeeds had each of its digests in the sink at some time   *)
(* while it ran, or the call that it waited for, or within the duration of *)
(* the cache before that.  A call only fails because of itself: failure or *)
(* cancellation of a call that others wait for doesn't spread to these. No *)
(* digest is replicated by two calls at a time, and no more calls          *)
(* replicate than the semaphore permits, of which no permits get lost.     *)
CallsReplicate ==
  /\ \A c \in Calls :
       /\ call[c].at = "ok" => call[c].all \subseteq call[c].held
       /\ call[c].at = "error" => call[c].failed \/ call[c].canceled
  /\ \A c, d \in Calls :
       c # d /\ {call[c].at, call[d].at} \subseteq {"find", "acquire", "replicate"} => Current(c) # Current(d)
  /\ permits + Cardinality({c \in Calls : call[c].at \in {"replicate", "filter", "forward", "add"}}) = Slots

(* Every call returns: waiting for another call is never in vain. *)
CallsReturn == \A c \in Calls : call[c].at \notin Returned ~> call[c].at \in {"ok", "error"}
=============================================================================
