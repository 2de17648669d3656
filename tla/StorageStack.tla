---------------------------- MODULE StorageStack ----------------------------
(***************************************************************************)
(* A storage daemon (cmd/bb_storage) that creates stacks of backends from  *)
(* its configuration, and serves requests from them, while the leaves of   *)
(* the stacks lose blobs and become unreachable.                           *)
(***************************************************************************)
EXTENDS BlobAccessConfiguration, TLC

CONSTANTS
  Configs,      \* the configurations that the daemon may be started with: for each
                \* kind of storage the backend and the instance names for which
                \* each operation is authorized, or None.  With the clients of
                \* the configuration, the instance names that may be sent to a
                \* replica, and what the leaves hold initially
  Contents,     \* the contents of the blobs, by hash
  LeafNames,    \* the leaves of the stacks
  MaxNow        \* bound: the last moment of the clock

VARIABLES
  stack,        \* the backends that were created, [ok |-> FALSE] if that failed,
                \* or None while the daemon has not been started
  clients,      \* what the clients store: blobs in the CAS or the ICAS, and results
                \* of actions
  st            \* the storage state

stackVars == <<stack, clients, st>>

Started == stack # None /\ stack.ok

(* The storage for blobs, and what it consists of without the authorizers  *)
(* and the wrapper that are put in front of it.                            *)
Cas == stack[clients.store].backend

Configured == IF clients.store = "cas" THEN Cas.base.base ELSE Cas.base

Ac == stack.ac.backend

ConfiguredAc == Ac.base.base

EmptyStorage ==
  [blobs |-> [l \in LeafNames |-> <<>>], down |-> {}, hung |-> {}, round |-> 0, cancel |-> FALSE,
   now |-> 0, existence |-> {}, canaried |-> {}]

NoClients == [store |-> "cas", blobs |-> {}, actions |-> {}, results |-> {}]

StackInit ==
  /\ stack = None
  /\ clients = NoClients
  /\ st = EmptyStorage

-----------------------------------------------------------------------------
(* Startup. *)

(* A storage that is not configured is not served. *)
Optional(config, created) == IF config = None THEN [ok |-> TRUE, backend |-> None] ELSE created

(* The backend, and the authorizers that decide who may use it. *)
NewScannableBlobAccess(config, creator) ==
  WithAll(<<NewBlobAccessFromConfiguration(config.backend, creator)>>, LAMBDA infos :
    Provided(None \notin {config.mayGet, config.mayPut, config.mayFindMissing},
      Info([type |-> "authorizing", base |-> infos[1].backend, mayGet |-> config.mayGet,
            mayPut |-> config.mayPut, mayFindMissing |-> config.mayFindMissing], infos[1].format)))

NewNonScannableBlobAccess(config, creator) ==
  WithAll(<<NewBlobAccessFromConfiguration(config.backend, creator)>>, LAMBDA infos :
    Provided(None \notin {config.mayGet, config.mayPut},
      Info([type |-> "authorizing", base |-> infos[1].backend, mayGet |-> config.mayGet,
            mayPut |-> config.mayPut], infos[1].format)))

(* Completeness checking of the Action Cache uses the CAS without the      *)
(* authorizers in front of it.                                             *)
ContentAddressableStorageInfo(cas) ==
  IF cas.backend = None THEN None ELSE Info(cas.backend.base, cas.format)

(* What main() makes of the configuration. *)
NewStack(c) ==
  WithAll(<<Optional(c.cas, NewScannableBlobAccess(c.cas, NewCASBlobAccessCreator))>>, LAMBDA cas :
    WithAll(<<Optional(c.ac, NewNonScannableBlobAccess(
                               c.ac, NewACBlobAccessCreator(ContentAddressableStorageInfo(cas[1])))),
              Optional(c.icas, NewScannableBlobAccess(c.icas, NewICASBlobAccessCreator)),
              Optional(c.iscc, NewNonScannableBlobAccess(c.iscc, NewISCCBlobAccessCreator)),
              Optional(c.fsac, NewNonScannableBlobAccess(c.fsac, NewFSACBlobAccessCreator))>>, LAMBDA others :
      [ok |-> TRUE, cas |-> cas[1], ac |-> others[1], icas |-> others[2], iscc |-> others[3], fsac |-> others[4]]))

(* The daemon is started.  If a backend can't be created it terminates.    *)
Start(c) ==
  /\ stack = None
  /\ stack' = NewStack(c)
  /\ IF stack'.ok
     THEN /\ clients' = c.clients
          /\ \E names \in c.canaried :
               st' = [EmptyStorage EXCEPT !.canaried = names, !.blobs = c.initially @@ @]
     ELSE UNCHANGED <<clients, st>>

-----------------------------------------------------------------------------
(* Requests. *)

UploadBlob(d) ==
  /\ \E cancel \in BOOLEAN :
       st' = [Put(Cas, [st EXCEPT !.cancel = cancel], d, Contents[d.hash]).st EXCEPT !.cancel = FALSE]
  /\ UNCHANGED <<stack, clients>>

DownloadBlob(d) ==
  /\ st' = Get(Cas, st, d).st
  /\ UNCHANGED <<stack, clients>>

FindMissingBlobs(digests) ==
  /\ Started
  /\ st' = FindMissing(Cas, st, digests).st
  /\ UNCHANGED <<stack, clients>>

UpdateActionResult(a, result) ==
  /\ st' = Put(Ac, st, a, result).st
  /\ UNCHANGED <<stack, clients>>

-----------------------------------------------------------------------------
(* What happens to the leaves in the meantime. *)

(* A leaf loses a blob.  Blobs are to stay present for longer than the     *)
(* entries of the existence cache do, for it to be of use.                 *)
LoseBlob(l) ==
  /\ st.existence = {}
  /\ \E k \in DOMAIN st.blobs[l] :
       st' = [st EXCEPT !.blobs[l] = [q \in DOMAIN @ \ {k} |-> @[q]]]
  /\ UNCHANGED <<stack, clients>>

BecomeUnreachable(l) ==
  /\ Started /\ st.down \cup st.hung = {}
  /\ \/ st' = [st EXCEPT !.down = {l}]
     \/ st' = [st EXCEPT !.hung = {l}]
  /\ UNCHANGED <<stack, clients>>

BecomeReachable ==
  /\ st.down \cup st.hung # {}
  /\ st' = [st EXCEPT !.down = {}, !.hung = {}]
  /\ UNCHANGED <<stack, clients>>

ExpireExistence ==
  /\ st.existence # {}
  /\ st' = [st EXCEPT !.existence = {}]
  /\ UNCHANGED <<stack, clients>>

Tick ==
  /\ clients.actions # {}
  /\ st.now < MaxNow
  /\ st' = [st EXCEPT !.now = @ + 1]
  /\ UNCHANGED <<stack, clients>>

StackNext ==
  \/ \E c \in Configs : Start(c)
  \/ \E d \in clients.blobs : UploadBlob(d)
  \/ \E d \in clients.blobs : DownloadBlob(d)
  \/ \E digests \in SUBSET clients.blobs : FindMissingBlobs(digests)
  \/ \E a \in clients.actions, result \in clients.results : UpdateActionResult(a, result)
  \/ \E l \in LeafNames : LoseBlob(l)
  \/ \E l \in LeafNames : BecomeUnreachable(l)
  \/ BecomeReachable
  \/ ExpireExistence
  \/ Tick

-----------------------------------------------------------------------------
(* Properties. *)

Reachable == st.down \cup st.hung = {}

FindsAll(found) == found.code = "OK" /\ found.missing = {}

(* Presence that was reported, and what reads return after it. *)
ReadsFollow(d, found, read, part) ==
  /\ FindsAll(found) /\ Configured.type # "referenceExpanding" => read.code = "OK"
  /\ read.code = "OK" => read.value = Contents[d.hash]
  /\ (read.code = "OK") = (part.code = "OK")

FoundReadable(d, found) ==
  ReadsFollow(d, found, Get(Cas, found.st, d),
              Read(Cas, found.st, [digest |-> d, child |-> [d EXCEPT !.hash = "part"]]))

WrittenReadable(d, put) ==
  put.code = "OK" =>
    /\ FindsAll(FindMissing(Cas, put.st, {d}))
    /\ Get(Cas, put.st, d).code = "OK"

(* FindMissing() and Get() tell the same story, whatever the backends are  *)
(* composed of: a blob that FindMissing() does not report can be read      *)
(* right after, and so can its parts; a blob that was written without an   *)
(* error is found, and is read back; and no blob is ever read as another   *)
(* (the contract of BlobAccess that clients of FindMissingBlobs() rely     *)
(* on).  Replicas that are read through ReadCanaryingBlobAccess may lag    *)
(* behind, and references may lead nowhere: those are left out.            *)
FoundBlobsReadable ==
  Reachable /\ st.canaried = {} =>
    \A d \in clients.blobs :
      /\ FoundReadable(d, FindMissing(Cas, st, {d}))
      /\ WrittenReadable(d, Put(Cas, st, d, Contents[d.hash]))

Separately(digests, found) ==
  found.code = "OK" => found.missing = UNION {FindMissing(Cas, st, {d}).missing : d \in digests}

(* The answer of FindMissing() for a digest does not depend on the other   *)
(* digests in the request: partitioning by backend, shard and instance     *)
(* name, patching and unpatching of instance names and the rounds over     *)
(* parent instance names mix up none of them.                              *)
FindMissingPerDigest ==
  Started => \A digests \in SUBSET clients.blobs : Separately(digests, FindMissing(Cas, st, digests))

SamePresence(first, second) ==
  first.code = "OK" /\ second.code = "OK" => (first.missing = {}) = (second.missing = {})

(* The key format that is reported for a stack is sound: digests with the  *)
(* same key are present or absent together, so that an existence cache or  *)
(* a deduplicating replicator that uses the keys never mistakes one object *)
(* for another (BlobAccessInfo.DigestKeyFormat).                           *)
KeyFormatSound ==
  Reachable /\ st.canaried = {} =>
    \A d, e \in clients.blobs :
      GetKey(d, stack[clients.store].format) = GetKey(e, stack[clients.store].format)
        => SamePresence(FindMissing(Cas, st, {d}), FindMissing(Cas, st, {e}))

(* Digests don't interfere with each other: neither in one request, nor    *)
(* because a part of the stack takes one for another by its key.           *)
DigestsIndependent == FindMissingPerDigest /\ KeyFormatSound

Replicates(rep) == rep.type # "noop"

In(backend, s, d) == FindMissing(backend, s, {d}).missing = {}

FindingRepairs(ba, d, found) ==
  /\ ba.type = "mirrored" /\ Replicates(ba.replicatorAToB) /\ Replicates(ba.replicatorBToA) /\ found.code = "OK"
       => \A half \in {"a", "b"} : In(ba[half], found.st, d) = (found.missing = {})
  /\ ba.type = "readFallback" /\ Replicates(ba.replicator) /\ found.code = "OK"
       => In(ba.primary, found.st, d) = (found.missing = {})

ReadingRepairs(ba, d, read) ==
  ba.type = "readCaching" /\ Replicates(ba.replicator) /\ read.code = "OK" => In(ba.fast, read.st, d)


-----------------------------------------------------------------------------
(* The Action Cache. *)

Derive(a, proto) == NewDigestFromProto(a.function, a.instance, proto)

(* The objects that an action result refers to, or None for one whose      *)
(* digest is malformed.                                                    *)
Referenced(a, result) ==
  LET outputs == ToSet(result.outputDirectories)
      direct  == ToSet(result.outputFiles) \cup {result.stdout, result.stderr}
                   \cup {o.tree : o \in outputs} \cup {o.rootDirectory : o \in outputs}
      inTrees == UNION {ToSet(TreeProtos(Contents[o.tree.hash], o)) : o \in outputs}
  IN  {IF Derive(a, p).ok THEN Derive(a, p).digest ELSE None : p \in (direct \cup inTrees) \ {None}}

Present(d) == d # None /\ FindMissing(Cas, st, {d}).missing = {}

TreeSize(result) ==
  FoldLeft(LAMBDA n, o : n + o.tree.size, 0, result.outputDirectories)

(* The deadline that an action result with a timestamp has. *)
Expiry(ba, t) == t + ba.minimumValidity + (Scramble[t] % ba.maximumValidityJitter)

ResultComplete(a, result) ==
  /\ \A d \in Referenced(a, result) : Present(d)
  /\ TreeSize(result) <= ConfiguredAc.maximumTotalTreeSize

Alive(expiring, result) ==
  /\ result.timestamp # None
  /\ st.now <= Expiry(expiring, result.timestamp)
  /\ result.timestamp >= expiring.minimumTimestamp

ReturnedIfComplete(a, stored, result) ==
  /\ (result.code = "OK") = (stored.code = "OK" /\ ResultComplete(a, stored.value) /\ Alive(ConfiguredAc.base, stored.value))
  /\ result.code \in {"OK", "NotFound"}
  /\ result.code = "OK" => result.value = stored.value

(* The decorators of the Action Cache: an action result is returned if and *)
(* only if all objects that it refers to, directly or through the trees of *)
(* its output directories, are present in the CAS, for every batch size of *)
(* FindMissing(), and it has not expired; it always bears a timestamp.     *)
ActionResultsComplete ==
  Reachable =>
    \A a \in clients.actions : ReturnedIfComplete(a, Get(ConfiguredAc.base.base, st, a), Get(Ac, st, a))
=============================================================================
