----------------------------- MODULE BlobAccess -----------------------------
(***************************************************************************)
(* The storage backends that are built out of other backends: what Get(),  *)
(* GetFromComposite(), Put() and FindMissing() do when one decorator of    *)
(* pkg/blobstore is placed on top of another.                              *)
(*                                                                         *)
(* A backend is a record: its type, and the backends and parameters it was *)
(* constructed with.  The leaves keep their blobs in the storage state st: *)
(*                                                                         *)
(*   st.blobs    for each leaf, the values of the keys that are present    *)
(*   st.down     the leaves that fail every call                           *)
(*   st.hung     the leaves that don't respond until the context is done   *)
(*   st.round    the counter of MirroredBlobAccess                         *)
(*   st.cancel   whether the failure of one of two parallel calls cancels  *)
(*               the other one before it has taken effect                  *)
(*   st.now      the system clock                                          *)
(*   st.existence  the keys in the existence cache                         *)
(*   st.canaried   the instance names that ReadCanaryingBlobAccess sends   *)
(*               to the replica                                            *)
(*                                                                         *)
(* An operation returns its status code, its value, and the storage state  *)
(* that it leaves behind: reading a blob may replicate it.  A read request *)
(* r stands for Get(r.digest) if r.child is None, and otherwise for        *)
(* GetFromComposite(r.digest, r.child, slicer).                            *)
(***************************************************************************)
EXTENDS Digests

CONSTANTS
  Scramble,     \* uint64(t.Unix()) * 0x936a0d2a41e8c779 for each time t
  HashServer,   \* the hash of the key of each shard
  LogFixed      \* uint64(64)<<16 - Log2Fixed(splitmix64(s ^ h)) for each hash s
                \* of a shard and each digest hash h

RECURSIVE Invoke(_, _, _)

(* The methods of the interfaces BlobAccess and BlobReplicator. *)
Read(ba, st, r) == Invoke(ba, st, [method |-> "Read", request |-> r])

Put(ba, st, d, value) == Invoke(ba, st, [method |-> "Put", digest |-> d, value |-> value])

FindMissing(ba, st, digests) == Invoke(ba, st, [method |-> "FindMissing", digests |-> digests])

ReplicateMultiple(rep, st, digests) == Invoke(rep, st, [method |-> "ReplicateMultiple", digests |-> digests])

Single(d) == [digest |-> d, child |-> None]

Get(ba, st, d) == Read(ba, st, Single(d))

Failure(st, code) == [code |-> code, value |-> None, missing |-> {}, st |-> st]

Value(st, value) == [code |-> "OK", value |-> value, missing |-> {}, st |-> st]

Missing(st, missing) == [code |-> "OK", value |-> None, missing |-> missing, st |-> st]

Done(st) == Missing(st, {})

-----------------------------------------------------------------------------
(* Leaves. *)

Unreachable(ba, st) == ba.leaf \in st.down \cup st.hung

UnreachableCode(ba, st) == IF ba.leaf \in st.hung THEN "Hang" ELSE "Unavailable"

(* The keys under which a leaf may find a blob, the preferred one first.   *)
LookupKeys(ba, d) ==
  IF ba.hierarchical
  THEN Reverse([i \in DOMAIN GetDigestsWithParentInstanceNames(d) |->
                  GetKey(GetDigestsWithParentInstanceNames(d)[i], ba.format)])
  ELSE <<GetKey(d, ba.format)>>

Found(ba, st, d) == SelectSeq(LookupKeys(ba, d), LAMBDA k : k \in DOMAIN st.blobs[ba.leaf])

(* A slicer returns the part of a value that has the digest of the child.  *)
Slice(value, child) == IF child = None THEN value ELSE [type |-> "slice", of |-> value, child |-> child.hash]

LeafRead(ba, st, r) ==
  CASE Unreachable(ba, st)              -> Failure(st, UnreachableCode(ba, st))
    [] ~Unreachable(ba, st) /\ Found(ba, st, r.digest) = <<>> -> Failure(st, "NotFound")
    [] OTHER -> Value(st, Slice(st.blobs[ba.leaf][Found(ba, st, r.digest)[1]], r.child))

LeafPut(ba, st, d, value) ==
  IF Unreachable(ba, st)
  THEN Failure(st, UnreachableCode(ba, st))
  ELSE Done([st EXCEPT !.blobs[ba.leaf] = (GetKey(d, ba.format) :> value) @@ @])

LeafFindMissing(ba, st, digests) ==
  IF Unreachable(ba, st)
  THEN Failure(st, UnreachableCode(ba, st))
  ELSE Missing(st, {d \in digests : Found(ba, st, d) = <<>>})

(* A ZIP archive: the files that it holds, by key. *)
ZIPRead(ba, st, r) ==
  IF GetKey(r.digest, ba.format) \in DOMAIN ba.files
  THEN Value(st, Slice(ba.files[GetKey(r.digest, ba.format)], r.child))
  ELSE Failure(st, "NotFound")

ZIPPut(st) == Failure(st, "InvalidArgument")

ZIPFindMissing(ba, st, digests) ==
  Missing(st, {d \in digests : GetKey(d, ba.format) \notin DOMAIN ba.files})

(* Every operation of an ErrorBlobAccess returns the configured error. *)
ErrorAny(ba, st) == Failure(st, ba.code)

-----------------------------------------------------------------------------
(* Decorators with a single backend. *)

EmptyBlob == [type |-> "empty"]

EmptyBlobInjectingRead(ba, st, r) ==
  IF (IF r.child = None THEN r.digest ELSE r.child).size = 0
  THEN Value(st, EmptyBlob)
  ELSE Read(ba.base, st, r)

EmptyBlobInjectingPut(ba, st, d, value) ==
  IF d.size = 0 THEN Done(st) ELSE Put(ba.base, st, d, value)

EmptyBlobInjectingFindMissing(ba, st, digests) ==
  FindMissing(ba.base, st, {d \in digests : d.size # 0})

AuthorizingRead(ba, st, r) ==
  IF r.digest.instance \in ba.mayGet THEN Read(ba.base, st, r) ELSE Failure(st, "PermissionDenied")

AuthorizingPut(ba, st, d, value) ==
  IF d.instance \in ba.mayPut THEN Put(ba.base, st, d, value) ELSE Failure(st, "PermissionDenied")

AuthorizingFindMissing(ba, st, digests) ==
  IF {d.instance : d \in digests} \subseteq ba.mayFindMissing
  THEN FindMissing(ba.base, st, digests)
  ELSE Failure(st, "PermissionDenied")

(* The context of the call is done when the timeout has passed. *)
DeadlineEnforcing(result) ==
  IF result.code = "Hang" THEN [result EXCEPT !.code = "DeadlineExceeded"] ELSE result

(* Mutation: only the exact instance name is tried. *)
HierarchicalInstanceNamesReadExact(ba, st, r) == Read(ba.base, st, r)

(* The digests are tried from the most specific instance name upwards, as  *)
(* long as the blob is absent.                                             *)
HierarchicalInstanceNamesRead(ba, st, r) ==
  LET parents  == GetDigestsWithParentInstanceNames(r.digest)
      children == GetDigestsWithParentInstanceNames(r.child)
      requests == [i \in DOMAIN parents |->
                     [digest |-> parents[i], child |-> IF r.child = None THEN None ELSE children[i]]]
      Try(request, result) ==
        IF result.code = "NotFound" THEN Read(ba.base, result.st, request) ELSE result
  IN  FoldRight(Try, requests, Failure(st, "NotFound"))

(* A round of FindMissing(): "waiting" holds the digests for which parents *)
(* have yet to be tried, with those parents; "known" is known to be absent *)
(* from all of them.                                                       *)
HierarchicalRoundAfter(base, acc, known) ==
  LET round == FindMissing(base, acc.result.st, {Last(w.parents) : w \in acc.waiting})
      stay  == {w \in acc.waiting : Last(w.parents) \in round.missing}
      over  == {w \in stay : Len(w.parents) = 1}
  IN  IF acc.result.code # "OK" \/ acc.waiting = {}
      THEN acc
      ELSE IF round.code # "OK"
           THEN [acc EXCEPT !.result = Failure(round.st, round.code)]
           ELSE [result  |-> Missing(round.st, known \cup {w.original : w \in over}),
                 waiting |-> {[w EXCEPT !.parents = Front(@)] : w \in stay \ over}]

(* Mutation: what earlier rounds found to be absent is forgotten. *)
HierarchicalRoundForgetful(base, acc) == HierarchicalRoundAfter(base, acc, {})

HierarchicalRound(base, acc) == HierarchicalRoundAfter(base, acc, acc.result.missing)

HierarchicalInstanceNamesFindMissing(ba, st, digests) ==
  LET initially  == FindMissing(ba.base, st, digests)
      Parents(d) == Front(GetDigestsWithParentInstanceNames(d))
      rounds     == Max({0} \cup {Len(Parents(d)) : d \in initially.missing})
      first      == [result  |-> [initially EXCEPT !.missing = {d \in @ : Parents(d) = <<>>}],
                     waiting |-> {[original |-> d, parents |-> Parents(d)] :
                                    d \in {e \in initially.missing : Parents(e) # <<>>}}]
      Round(acc, i) == HierarchicalRound(ba.base, acc)
  IN  FoldLeft(Round, first, [i \in 1 .. rounds |-> i]).result

-----------------------------------------------------------------------------
(* Decorators that choose between backends. *)

(* A route: the instance name prefix that it matches, the backend, and the *)
(* prefix that is put in its place.  The route with the longest prefix is  *)
(* taken; -1 is no route.                                                  *)
GetBackend(ba, instance) ==
  GetLongestPrefix(
    FoldLeft(LAMBDA trie, i : TrieSet(trie, GetComponents(ba.routes[i].prefix), i),
             NewInstanceNameTrie, [i \in DOMAIN ba.routes |-> i]),
    GetComponents(instance))

Patched(route, d) == IF d = None THEN None ELSE PatchDigest(route.prefix, route.newPrefix, d)

DemultiplexingRead(ba, st, r) ==
  LET i == GetBackend(ba, r.digest.instance)
  IN  IF i < 0
      THEN Failure(st, "InvalidArgument")
      ELSE Read(ba.routes[i].backend, st,
                [digest |-> Patched(ba.routes[i], r.digest), child |-> Patched(ba.routes[i], r.child)])

DemultiplexingPut(ba, st, d, value) ==
  LET i == GetBackend(ba, d.instance)
  IN  IF i < 0
      THEN Failure(st, "InvalidArgument")
      ELSE Put(ba.routes[i].backend, st, Patched(ba.routes[i], d), value)

(* One call for each of the backends that is needed; the digests that it   *)
(* reports are given their original instance names again.                  *)
DemultiplexingFindMissing(ba, st, digests) ==
  LET partition == [i \in DOMAIN ba.routes |-> {d \in digests : GetBackend(ba, d.instance) = i}]
      Call(result, i) ==
        LET route == ba.routes[i]
            found == FindMissing(route.backend, result.st, {Patched(route, d) : d \in partition[i]})
        IN  IF result.code # "OK" \/ partition[i] = {}
            THEN result
            ELSE IF found.code # "OK"
                 THEN found
                 ELSE Missing(found.st, result.missing \cup
                        {UnpatchDigest(route.prefix, route.newPrefix, d) : d \in found.missing})
  IN  IF \E d \in digests : GetBackend(ba, d.instance) < 0
      THEN Failure(st, "InvalidArgument")
      ELSE FoldLeft(Call, Done(st), [i \in DOMAIN ba.routes |-> i])

(* The shard of a digest only depends on the first bytes of its hash. *)
(* A 32-bit fixed point number in the code. *)
WeightFixed(weight) == weight * 2 ^ 8

Score(shard, hash) == WeightFixed(shard.weight) \div LogFixed[shard.hash][hash]

(* Rendezvous hashing: the shard with the highest score. *)
GetShard(selector, hash) ==
  FoldLeft(LAMBDA best, shard :
             IF Score(shard, hash) > best.score THEN [score |-> Score(shard, hash), index |-> shard.index] ELSE best,
           [score |-> 0, index |-> 1], selector).index

GetBackendIndexByDigest(ba, d) == GetShard(ba.selector, d.hash)

ShardingRead(ba, st, r) == Read(ba.shards[GetBackendIndexByDigest(ba, r.digest)], st, r)

ShardingPut(ba, st, d, value) == Put(ba.shards[GetBackendIndexByDigest(ba, d)], st, d, value)

ShardingFindMissing(ba, st, digests) ==
  LET perBackend == [i \in DOMAIN ba.shards |-> {d \in digests : GetBackendIndexByDigest(ba, d) = i}]
      Call(result, i) ==
        LET found == FindMissing(ba.shards[i], result.st, perBackend[i])
        IN  IF perBackend[i] = {}
            THEN result
            ELSE IF result.code # "OK" \/ found.code # "OK"
                 THEN Failure(found.st, IF result.code # "OK" THEN result.code ELSE found.code)
                 ELSE Missing(found.st, result.missing \cup found.missing)
  IN  FoldLeft(Call, Done(st), [i \in DOMAIN ba.shards |-> i])

-----------------------------------------------------------------------------
(* Replicators: the backends they copy from and to, and how. *)

NotFoundToInternal(result) ==
  IF result.code = "NotFound" THEN [result EXCEPT !.code = "Internal"] ELSE result

(* A buffer with a task attached fails if the task does. *)
WithTask(result, task) ==
  IF result.code # "OK" THEN [result EXCEPT !.st = task.st]
  ELSE IF task.code # "OK" THEN Failure(task.st, task.code) ELSE [result EXCEPT !.st = task.st]

LocalReplicateBlob(rep, st, d) ==
  LET source == Get(rep.source, st, d)
  IN  IF source.code # "OK" THEN source ELSE Put(rep.sink, source.st, d, source.value)

LocalReplicateMultiple(rep, st, digests) ==
  FoldSet(LAMBDA d, result : IF result.code # "OK" THEN result ELSE LocalReplicateBlob(rep, result.st, d),
          Done(st), digests)

(* ReplicateMultiple(), followed by a read from the sink. *)
ReplicateAndRead(rep, st, r) ==
  LET replicated == ReplicateMultiple(rep, st, {r.digest})
  IN  IF replicated.code # "OK"
      THEN replicated
      ELSE NotFoundToInternal(Read(rep.sink, replicated.st, r))

LocalReplicateRead(rep, st, r) ==
  IF r.child # None
  THEN ReplicateAndRead(rep, st, r)
  ELSE LET source == Read(rep.source, st, r)
       IN  IF source.code # "OK" THEN source
           ELSE WithTask(source, Put(rep.sink, source.st, r.digest, source.value))

NoopReplicateRead(rep, st, r) == Read(rep.source, st, r)

NoopReplicateMultiple(st) == Done(st)

(* Only the blobs that the sink lacks are replicated, one by one. *)
DeduplicatingReplicateBlob(rep, st, d) ==
  LET sink == FindMissing(rep.sink, st, {d})
  IN  IF sink.code # "OK" THEN sink
      ELSE IF sink.missing = {} THEN Done(sink.st) ELSE ReplicateMultiple(rep.base, sink.st, {d})

DeduplicatingReplicateMultiple(rep, st, digests) ==
  FoldSet(LAMBDA d, result :
            IF result.code # "OK" THEN result ELSE DeduplicatingReplicateBlob(rep, result.st, d),
          Done(st), digests)

(* The blob is read from the source, and replicated as a task. *)
RemoteReplicateRead(rep, st, r) ==
  LET source == Read(rep.source, st, r)
  IN  WithTask(source, ReplicateMultiple(rep.base, source.st, {r.digest}))

ReplicateRead(rep, st, r) ==
  CASE rep.type = "local"              -> LocalReplicateRead(rep, st, r)
    [] rep.type = "noop"               -> NoopReplicateRead(rep, st, r)
    [] rep.type = "deduplicating"      -> ReplicateAndRead(rep, st, r)
    [] rep.type = "concurrencyLimiting" -> ReplicateAndRead(rep, st, r)
    [] rep.type \in {"queued", "remote"} -> RemoteReplicateRead(rep, st, r)

ReplicateMultipleOf(rep, st, digests) ==
  CASE rep.type = "local"              -> LocalReplicateMultiple(rep, st, digests)
    [] rep.type = "noop"               -> NoopReplicateMultiple(st)
    [] rep.type = "deduplicating"      -> DeduplicatingReplicateMultiple(rep, st, digests)
    [] rep.type \in {"concurrencyLimiting", "queued", "remote"} -> ReplicateMultiple(rep.base, st, digests)

-----------------------------------------------------------------------------
(* Decorators that replicate between backends. *)

(* Read from one backend, and fall back to the replicator once. *)
GetWithBlobReplicator(initial, rep, st, r) ==
  LET first == Read(initial, st, r)
  IN  IF first.code = "NotFound" THEN ReplicateRead(rep, first.st, r) ELSE first

ReadCachingRead(ba, st, r) == GetWithBlobReplicator(ba.fast, ba.replicator, st, r)

ReadFallbackRead(ba, st, r) == GetWithBlobReplicator(ba.primary, ba.replicator, st, r)


ReadFallbackFindMissing(ba, st, digests) ==
  LET primary   == FindMissing(ba.primary, st, digests)
      secondary == FindMissing(ba.secondary, primary.st, primary.missing)
      replicated == ReplicateMultiple(ba.replicator, secondary.st, primary.missing \ secondary.missing)
  IN  CASE primary.code # "OK" -> primary
        [] primary.code = "OK" /\ secondary.code # "OK" -> Failure(secondary.st, secondary.code)
        [] primary.code = "OK" /\ secondary.code = "OK" /\ replicated.code # "OK" ->
             NotFoundToInternal(Failure(replicated.st, replicated.code))
        [] OTHER -> Missing(replicated.st, secondary.missing)

(* The backend that is tried first alternates. *)
MirroredRead(ba, st, r) ==
  LET next == [st EXCEPT !.round = (@ + 1) % 2]
  IN  IF next.round = 1
      THEN GetWithBlobReplicator(ba.a, ba.replicatorBToA, next, r)
      ELSE GetWithBlobReplicator(ba.b, ba.replicatorAToB, next, r)

(* Both backends are written in parallel. *)
MirroredPut(ba, st, d, value) ==
  LET onlyA == Put(ba.a, st, d, value)
      onlyB == Put(ba.b, st, d, value)
      both  == Put(ba.b, onlyA.st, d, value)
  IN  CASE onlyA.code # "OK" -> IF st.cancel THEN onlyA ELSE Failure(both.st, onlyA.code)
        [] onlyA.code = "OK" /\ onlyB.code # "OK" ->
             IF st.cancel THEN onlyB ELSE Failure(both.st, onlyB.code)
        [] OTHER -> both

MirroredFindMissing(ba, st, digests) ==
  LET a    == FindMissing(ba.a, st, digests)
      b    == FindMissing(ba.b, a.st, digests)
      aToB == ReplicateMultiple(ba.replicatorAToB, b.st, b.missing \ a.missing)
      bToA == ReplicateMultiple(ba.replicatorBToA, aToB.st, a.missing \ b.missing)
  IN  CASE a.code # "OK" -> Failure(b.st, a.code)
        [] a.code = "OK" /\ b.code # "OK" -> Failure(b.st, b.code)
        [] OTHER ->
             IF aToB.code # "OK" \/ bToA.code # "OK"
             THEN NotFoundToInternal(
                    IF aToB.code # "OK"
                    THEN Failure(IF st.cancel THEN aToB.st ELSE bToA.st, aToB.code)
                    ELSE Failure(bToA.st, bToA.code))
             ELSE Missing(bToA.st, a.missing \cap b.missing)

-----------------------------------------------------------------------------
(* Decorators with a cache, whose contents are part of the storage state. *)

ExistenceCachingFindMissing(ba, st, digests) ==
  LET maybe == {d \in digests : GetKey(d, ba.format) \notin st.existence}
      found == FindMissing(ba.base, st, maybe)
  IN  IF found.code # "OK"
      THEN found
      ELSE Missing([found.st EXCEPT !.existence = @ \cup {GetKey(d, ba.format) : d \in maybe \ found.missing}],
                   found.missing)

InfrastructureErrors == {"Internal", "Unavailable", "Unknown"}

ReadCanaryingRead(ba, st, r) ==
  LET replica == Read(ba.replica, st, r)
  IN  IF r.digest.instance \notin st.canaried
      THEN Read(ba.source, st, r)
      ELSE IF replica.code \in InfrastructureErrors
           THEN Read(ba.source, [replica.st EXCEPT !.canaried = @ \ {r.digest.instance}], r)
           ELSE replica

(* One call to the replica for each instance name that goes there, and one *)
(* to the source for what is left.                                         *)
ReadCanaryingFindMissing(ba, st, digests) ==
  LET Of(name) == {d \in digests : d.instance = name}
      Call(name, acc) ==
        LET found == FindMissing(ba.replica, acc.st, Of(name))
        IN  CASE acc.code # "OK" \/ name \notin st.canaried -> acc
              [] acc.code = "OK" /\ name \in st.canaried /\ found.code \in InfrastructureErrors ->
                   [acc EXCEPT !.st = [found.st EXCEPT !.canaried = @ \ {name}]]
              [] acc.code = "OK" /\ name \in st.canaried /\ found.code \notin InfrastructureErrors ->
                   [Missing(found.st, acc.missing \cup found.missing) EXCEPT !.code = found.code]
      replicas == FoldSet(Call, Done(st), {d.instance : d \in digests})
      source   == FindMissing(ba.source, replicas.st,
                              {d \in digests : d.instance \notin replicas.st.canaried})
  IN  CASE replicas.code # "OK" -> Failure(replicas.st, replicas.code)
        [] replicas.code = "OK" /\ source.code # "OK" -> source
        [] OTHER -> Missing(source.st, replicas.missing \cup source.missing)

-----------------------------------------------------------------------------
(* Decorators of the Action Cache. *)

(* Times are in seconds. *)
CheckWorkerCompletedTimestamp(ba, now, t) ==
  CASE t < ba.minimumTimestamp                         -> "NotFound"
    [] t >= ba.minimumTimestamp /\ ba.maximumValidityJitter = 0 -> "Panic"
    [] OTHER ->
         IF now > t + ba.minimumValidity + (Scramble[t] % ba.maximumValidityJitter)
         THEN "NotFound"
         ELSE "OK"

(* The decorators that inspect the action result that was read: CheckOf is *)
(* the status of the inspection and the storage state it leaves.           *)
Inspected(result, check, child) ==
  IF result.code # "OK"
  THEN result
  ELSE IF check.code # "OK"
       THEN Failure(check.st, check.code)
       ELSE Value(check.st, Slice(result.value, child))

ActionResultExpiringRead(ba, st, r) ==
  LET result == Get(ba.base, st, r.digest)
      code   == IF result.value.timestamp = None
                THEN "OK"
                ELSE CheckWorkerCompletedTimestamp(ba, st.now, result.value.timestamp)
  IN  Inspected(result, [code |-> code, st |-> result.st], r.child)

ActionResultTimestampInjectingPut(ba, st, d, value) ==
  Put(ba.base, st, d, IF value.timestamp # None THEN value ELSE [value EXCEPT !.timestamp = st.now])

(* findMissingQueue: the storage state, the status so far, and the digests *)
(* that are to be looked up in the next batch.                             *)
FinalizeQueue(ba, q) ==
  LET found == FindMissing(ba.contentAddressableStorage, q.st, q.pending)
  IN  CASE found.code # "OK" -> [q EXCEPT !.code = found.code, !.st = found.st]
        [] found.code = "OK" /\ found.missing # {} -> [q EXCEPT !.code = "NotFound", !.st = found.st]
        [] OTHER -> [q EXCEPT !.st = found.st, !.pending = {}]

DeriveDigest(q, proto) ==
  LET derived == NewDigestFromProto(q.function, q.instance, proto)
  IN  IF derived.ok THEN derived ELSE [ok |-> FALSE, code |-> "NotFound"]

(* Mutation: the digest that finds a full batch is dropped. *)
AddToQueueDropping(ba, q, proto) ==
  LET derived == DeriveDigest(q, proto)
  IN  CASE q.code # "OK" \/ proto = None -> q
        [] q.code = "OK" /\ proto # None /\ ~derived.ok -> [q EXCEPT !.code = derived.code]
        [] OTHER -> IF Cardinality(q.pending) >= ba.batchSize
                    THEN FinalizeQueue(ba, q)
                    ELSE [q EXCEPT !.pending = @ \cup {derived.digest}]

AddToQueue(ba, q, proto) ==
  LET derived == DeriveDigest(q, proto)
      ready   == IF Cardinality(q.pending) >= ba.batchSize THEN FinalizeQueue(ba, q) ELSE q
  IN  CASE q.code # "OK" \/ proto = None -> q
        [] q.code = "OK" /\ proto # None /\ ~derived.ok -> [q EXCEPT !.code = derived.code]
        [] OTHER -> IF ready.code # "OK"
                    THEN ready
                    ELSE [ready EXCEPT !.pending = @ \cup {derived.digest}]

AddAllToQueue(ba, q, protos) == FoldLeft(LAMBDA acc, p : AddToQueue(ba, acc, p), q, protos)

(* The files in the directories of a tree, and the directories themselves  *)
(* if the action result announces them to be separate objects.             *)
TreeProtos(tree, output) ==
  FlattenSeq([i \in DOMAIN tree.directories |->
    tree.directories[i].files
      \o IF output.rootDirectory # None THEN tree.directories[i].directories ELSE <<>>])

CheckOutputDirectory(ba, q, output) ==
  LET tree == DeriveDigest(q, output.tree)
      read == Get(ba.contentAddressableStorage, q.st, tree.digest)
  IN  CASE q.code # "OK" -> q
        [] q.code = "OK" /\ ~tree.ok -> [q EXCEPT !.code = tree.code]
        [] q.code = "OK" /\ tree.ok ->
             IF tree.digest.size > q.remaining
             THEN [q EXCEPT !.code = "NotFound"]
             ELSE IF read.code # "OK"
                  THEN [q EXCEPT !.code = read.code, !.st = read.st]
                  ELSE IF read.value.type # "tree"
                       THEN [q EXCEPT !.code = "InvalidArgument", !.st = read.st]
                       ELSE AddAllToQueue(ba,
                              [q EXCEPT !.st = read.st, !.remaining = @ - tree.digest.size],
                              TreeProtos(read.value, output))

CheckCompleteness(ba, st, d, result) ==
  LET empty  == [st |-> st, code |-> "OK", pending |-> {}, function |-> d.function,
                 instance |-> d.instance, remaining |-> ba.maximumTotalTreeSize]
      direct == result.outputFiles
                  \o FlattenSeq([i \in DOMAIN result.outputDirectories |->
                       <<result.outputDirectories[i].tree, result.outputDirectories[i].rootDirectory>>])
                  \o <<result.stdout, result.stderr>>
      all    == FoldLeft(LAMBDA q, output : CheckOutputDirectory(ba, q, output),
                         AddAllToQueue(ba, empty, direct), result.outputDirectories)
  IN  IF all.code # "OK" THEN all ELSE FinalizeQueue(ba, all)

CompletenessCheckingRead(ba, st, r) ==
  LET result == Get(ba.base, st, r.digest)
  IN  Inspected(result, CheckCompleteness(ba, result.st, r.digest, result.value), r.child)

-----------------------------------------------------------------------------
(* The Indirect Content Addressable Storage: a reference says where the    *)
(* data is.  Media outside the storage stack yield their data or an error. *)

DecodeReference(st, d, reference, data) ==
  CASE reference.decompressor \in {"IDENTITY", "ZSTD", "DEFLATE"} ->
         (* The checksum is validated once the data is read. *)
         IF data.contentsOf = d.hash THEN Value(st, data) ELSE Failure(st, "Internal")
    [] OTHER -> Failure(st, "Unimplemented")

ReferenceExpandingGet(ba, st, d) ==
  LET loaded    == Get(ba.icas, st, d)
      reference == loaded.value
      instance  == NewInstanceName(reference.instance)
      function  == GetBareFunction(reference.function, 0)
      digest    == NewDigestFromProto(function, instance.name, reference.digest)
      read      == Get(ba.contentAddressableStorage, loaded.st, digest.digest)
  IN  CASE loaded.code # "OK" -> loaded
        [] loaded.code = "OK" /\ reference.medium = "external" ->
             IF reference.reachable
             THEN DecodeReference(loaded.st, d, reference, reference.data)
             ELSE Failure(loaded.st, "Internal")
        [] loaded.code = "OK" /\ reference.medium = "cas" ->
             CASE reference.partial -> Failure(loaded.st, "Unimplemented")
               [] ~reference.partial /\ (~instance.ok \/ function = None) -> Failure(loaded.st, "Internal")
               [] OTHER -> IF ~digest.ok THEN Failure(loaded.st, "Internal")
                           ELSE IF read.code # "OK" THEN read
                           ELSE DecodeReference(read.st, d, reference, read.value)
        [] OTHER -> Failure(loaded.st, "Unimplemented")

ReferenceExpandingRead(ba, st, r) ==
  LET result == ReferenceExpandingGet(ba, st, r.digest)
  IN  IF result.code # "OK" THEN result ELSE Value(result.st, Slice(result.value, r.child))

ReferenceExpandingPut(st) == Failure(st, "InvalidArgument")

-----------------------------------------------------------------------------
(* The implementations of the interfaces. *)

ReadOf(ba, st, r) ==
  CASE ba.type = "leaf"             -> LeafRead(ba, st, r)
    [] ba.type = "zip"              -> ZIPRead(ba, st, r)
    [] ba.type = "error"            -> ErrorAny(ba, st)
    [] ba.type = "emptyBlob"        -> EmptyBlobInjectingRead(ba, st, r)
    [] ba.type = "authorizing"      -> AuthorizingRead(ba, st, r)
    [] ba.type = "deadline"         -> DeadlineEnforcing(Read(ba.base, st, r))
    [] ba.type = "hierarchical"     -> HierarchicalInstanceNamesRead(ba, st, r)
    [] ba.type = "demultiplexing"   -> DemultiplexingRead(ba, st, r)
    [] ba.type = "sharding"         -> ShardingRead(ba, st, r)
    [] ba.type = "readCaching"      -> ReadCachingRead(ba, st, r)
    [] ba.type = "readFallback"     -> ReadFallbackRead(ba, st, r)
    [] ba.type = "mirrored"         -> MirroredRead(ba, st, r)
    [] ba.type = "readCanarying"    -> ReadCanaryingRead(ba, st, r)
    [] ba.type = "expiring"         -> ActionResultExpiringRead(ba, st, r)
    [] ba.type \in {"timestamp", "existenceCaching"} -> Read(ba.base, st, r)
    [] ba.type = "completeness"     -> CompletenessCheckingRead(ba, st, r)
    [] ba.type = "referenceExpanding" -> ReferenceExpandingRead(ba, st, r)

PutOf(ba, st, d, value) ==
  CASE ba.type = "leaf"             -> LeafPut(ba, st, d, value)
    [] ba.type = "zip"              -> ZIPPut(st)
    [] ba.type = "error"            -> ErrorAny(ba, st)
    [] ba.type = "emptyBlob"        -> EmptyBlobInjectingPut(ba, st, d, value)
    [] ba.type = "authorizing"      -> AuthorizingPut(ba, st, d, value)
    [] ba.type = "deadline"         -> DeadlineEnforcing(Put(ba.base, st, d, value))
    [] ba.type = "demultiplexing"   -> DemultiplexingPut(ba, st, d, value)
    [] ba.type = "sharding"         -> ShardingPut(ba, st, d, value)
    [] ba.type = "readCaching"      -> Put(ba.slow, st, d, value)
    [] ba.type = "readFallback"     -> Put(ba.primary, st, d, value)
    [] ba.type = "mirrored"         -> MirroredPut(ba, st, d, value)
    [] ba.type = "timestamp"        -> ActionResultTimestampInjectingPut(ba, st, d, value)
    [] ba.type = "readCanarying"    -> Put(ba.source, st, d, value)
    [] ba.type \in {"hierarchical", "existenceCaching", "expiring", "completeness"} ->
         Put(ba.base, st, d, value)
    [] ba.type = "referenceExpanding" -> ReferenceExpandingPut(st)

FindMissingOf(ba, st, digests) ==
  CASE ba.type = "leaf"             -> LeafFindMissing(ba, st, digests)
    [] ba.type = "zip"              -> ZIPFindMissing(ba, st, digests)
    [] ba.type = "error"            -> ErrorAny(ba, st)
    [] ba.type = "emptyBlob"        -> EmptyBlobInjectingFindMissing(ba, st, digests)
    [] ba.type = "authorizing"      -> AuthorizingFindMissing(ba, st, digests)
    [] ba.type = "deadline"         -> DeadlineEnforcing(FindMissing(ba.base, st, digests))
    [] ba.type = "hierarchical"     -> HierarchicalInstanceNamesFindMissing(ba, st, digests)
    [] ba.type = "demultiplexing"   -> DemultiplexingFindMissing(ba, st, digests)
    [] ba.type = "sharding"         -> ShardingFindMissing(ba, st, digests)
    [] ba.type = "readCaching"      -> FindMissing(ba.slow, st, digests)
    [] ba.type = "readFallback"     -> ReadFallbackFindMissing(ba, st, digests)
    [] ba.type = "mirrored"         -> MirroredFindMissing(ba, st, digests)
    [] ba.type = "existenceCaching" -> ExistenceCachingFindMissing(ba, st, digests)
    [] ba.type = "readCanarying"    -> ReadCanaryingFindMissing(ba, st, digests)
    [] ba.type \in {"expiring", "timestamp", "completeness"} -> FindMissing(ba.base, st, digests)
    [] ba.type = "referenceExpanding" -> FindMissing(ba.icas, st, digests)

Invoke(callee, st, call) ==
  CASE call.method = "Read"              -> ReadOf(callee, st, call.request)
    [] call.method = "Put"               -> PutOf(callee, st, call.digest, call.value)
    [] call.method = "FindMissing"       -> FindMissingOf(callee, st, call.digests)
    [] call.method = "ReplicateMultiple" -> ReplicateMultipleOf(callee, st, call.digests)
=============================================================================
