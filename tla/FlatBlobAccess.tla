--------------------------- MODULE FlatBlobAccess ---------------------------
(***************************************************************************)
(* The storage backend that ties a KeyLocationMap and a LocationBlobMap    *)
(* together (flat_blob_access.go), both by what they promise.  Clients run *)
(* concurrently.  Everything that happens while the storage lock is held   *)
(* is one step, as the only thing that may change in between is what is    *)
(* known to be corrupted.  The lock is not held while data is copied.      *)
(*                                                                         *)
(* A block is a row of cells, and a blob occupies consecutive cells.  The  *)
(* cells of a block that was released keep their contents: the allocator   *)
(* does not reuse it before its last reader is done (ReadersUndisturbed of *)
(* PersistentStorage).  What other clients do to the block list and to the *)
(* table of the map happens spontaneously.                                 *)
(***************************************************************************)
EXTENDS Integers, Sequences, FiniteSets, Functions

CONSTANTS
    None,
    Client,
    Key,
    Contents,          \* for each key, the data that clients store under it
    Slices,            \* for each key, the objects to extract from its data:
                       \* sequence of [key, offset]
    Uploads,           \* keys that Put is called with
    Queries,           \* sets of keys that FindMissing is called with
    UpdatesReplace,    \* the data store is mutable, like the Action Cache
    BlockSize,
    DesiredOldBlocks,
    DesiredOtherBlocks,  \* "current" and "new" blocks
    MaxBlocks,         \* bound: blocks ever created
    MaxCorruptions     \* bound: blocks that are damaged

VARIABLES
    released, toBeReleased, oldEnd, used, latestOnly,   \* LocationBlobMap
    map,               \* KeyLocationMap
    cells,             \* contents of the blocks
    damaged,           \* blocks whose contents no longer match
    clients,           \* the operation each client is running
    refreshLock,       \* the client that holds it
    seen,              \* history: keys that were present while FindMissing ran
    completed,         \* history: data whose Put was successful
    superseded         \* history: data replaced by a Put that started later

blobMapVars == <<released, toBeReleased, oldEnd, used, latestOnly>>
history == <<completed, superseded>>
vars == <<blobMapVars, map, cells, damaged, clients, refreshLock, seen,
          history>>

Blobs == INSTANCE LocationBlobMap
Map == INSTANCE KeyLocationMap
          WITH oldestBlock <- toBeReleased, nextBlock <- Blobs!NextBlock,
               Offset <- 0 .. BlockSize

SizeBytes(key) == Len(CHOOSE data \in Contents[key] : TRUE)

\* KeyLocationMap.Get(): records of unresolvable blocks are not found.
Lookup(m, key) ==
    IF m[key] # None /\ Blobs!Resolvable(m[key].block) THEN m[key] ELSE None

NeedsRefresh(location) == Blobs!NeedsRefresh(location.block)

IsMissing(m, key) == Lookup(m, key) = None
IsOld(m, key) == ~IsMissing(m, key) /\ NeedsRefresh(m[key])

DataAt(location, key) ==
    [i \in 1 .. SizeBytes(key) |-> cells[location.block][location.offset + i - 1]]

\* The data passes the integrity check of the buffer.
IsIntact(location, key) ==
    location.block \notin damaged /\ DataAt(location, key) \in Contents[key]

----------------------------------------------------------------------------
(* Steps that operations have in common.                                   *)

Is(c, at) == clients[c] # None /\ clients[c].at = at

Continue(c, state) == clients' = [clients EXCEPT ![c] = state]

\* The deferred refreshLock.Unlock().
Unlock(c) == refreshLock' = IF refreshLock = c THEN None ELSE refreshLock

Return(c) == Continue(c, None) /\ Unlock(c)

\* LocationBlobMap.Put() of enough space for key.  It may also fail.
Allocate(key, block) == Blobs!Allocate(block, SizeBytes(key))
Allocated(block) == [block |-> block, offset |-> used[Blobs!BlockIndex(block) + 1]]

WriteCells(location, data) ==
    cells' = [cells EXCEPT ![location.block] =
                 [o \in 0 .. BlockSize - 1 |->
                     IF o - location.offset + 1 \in DOMAIN data
                     THEN data[o - location.offset + 1]
                     ELSE @[o]]]

\* Mutant of FinalizerFails: the block is not looked at again.
FinalizerNeverFails(location) == FALSE

\* The LocationBlobPutFinalizer fails.
FinalizerFails(location) == location.block < toBeReleased

\* A read ends, with or without finding corruption.
Read(c) ==
    /\ Is(c, "read")
    /\ IF IsIntact(clients[c].source, clients[c].key)
       THEN UNCHANGED blobMapVars
       ELSE Blobs!DataIntegrityError(clients[c].source.block)
    /\ Return(c)
    /\ UNCHANGED <<map, cells, damaged, history>>

\* The data of a blob has been copied to the space that was allocated.
Copy(c) ==
    /\ Is(c, "copy")
    /\ IsIntact(clients[c].source, clients[c].key)
    /\ WriteCells(clients[c].target, DataAt(clients[c].source, clients[c].key))
    /\ Continue(c, [clients[c] EXCEPT !.at = "finalize"])
    /\ UNCHANGED <<blobMapVars, map, damaged, refreshLock, history>>

\* Copying failed, because of corruption or because of an I/O error.  The
\* finalizer returns the error, and the operation fails.
CopyFails(c) ==
    /\ Is(c, "copy")
    /\ IF IsIntact(clients[c].source, clients[c].key)
       THEN UNCHANGED blobMapVars
       ELSE Blobs!DataIntegrityError(clients[c].source.block)
    /\ Return(c)
    /\ UNCHANGED <<map, cells, damaged, history>>

----------------------------------------------------------------------------
(* Put.                                                                    *)

\* To tell updates apart, no two of them store the same data.
DataBeingPut ==
    {clients[c].data : c \in {d \in Client : clients[d] # None /\ clients[d].op = "put"}}

Put(c, key, data) ==
    /\ clients[c] = None
    /\ UpdatesReplace => data \notin completed \cup DataBeingPut
    /\ \E block \in oldEnd .. Blobs!NextBlock - 1 :
          /\ Allocate(key, block)
          /\ Continue(c, [op |-> "put", at |-> "write", key |-> key, data |-> data,
                          target |-> Allocated(block), older |-> completed])
    /\ UNCHANGED <<map, cells, damaged, refreshLock, history>>

Write(c) ==
    /\ Is(c, "write")
    /\ WriteCells(clients[c].target, clients[c].data)
    /\ Continue(c, [clients[c] EXCEPT !.at = "finalize"])
    /\ UNCHANGED <<blobMapVars, map, damaged, refreshLock, history>>

\* Mutant of WriteFails: the error gets lost.
WriteFailsUnnoticed(c) ==
    /\ Is(c, "write")
    /\ Continue(c, [clients[c] EXCEPT !.at = "finalize"])
    /\ UNCHANGED <<blobMapVars, map, cells, damaged, refreshLock, history>>

WriteFails(c) ==
    /\ Is(c, "write")
    /\ Return(c)
    /\ UNCHANGED <<blobMapVars, map, cells, damaged, history>>

\* The end of Put() and of the refresh of Get().
Finalize(c) ==
    /\ Is(c, "finalize")
    /\ clients[c].op \in {"put", "get"}
    /\ IF FinalizerFails(clients[c].target)
       THEN UNCHANGED <<map, history>>
       ELSE /\ map' = Map!Stored(map, clients[c].key, clients[c].target)
            /\ IF UpdatesReplace /\ clients[c].op = "put"
               THEN /\ completed' = completed \cup {clients[c].data}
                    /\ superseded' = superseded \cup clients[c].older
               ELSE UNCHANGED history
    /\ Return(c)
    /\ UNCHANGED <<blobMapVars, cells, damaged>>

----------------------------------------------------------------------------
(* Get.                                                                    *)

\* The first lookup, under a read lock.
Get(c, key) ==
    /\ clients[c] = None
    /\ \E location \in {Lookup(map, key)} \ {None} :
          Continue(c, IF NeedsRefresh(location)
                      THEN [op |-> "get", at |-> "retry", key |-> key]
                      ELSE [op |-> "get", at |-> "read", key |-> key,
                            source |-> location])
    /\ UNCHANGED <<blobMapVars, map, cells, damaged, refreshLock, history>>

\* Mutant of AllocationFails: it is tried again until there is space.
AllocationRetried(c) == UNCHANGED <<clients, refreshLock, blobMapVars>>

\* No space could be allocated for a copy, and the operation fails.
AllocationFails(c) == Return(c) /\ UNCHANGED blobMapVars

\* Space is allocated for a copy of a blob.
AllocateCopy(c, key, state) ==
    \/ \E block \in oldEnd .. Blobs!NextBlock - 1 :
          /\ Allocate(key, block)
          /\ Continue(c, [state EXCEPT !.target = Allocated(block)])
          /\ refreshLock' = IF clients[c].op = "get" THEN refreshLock ELSE c
    \/ AllocationFails(c)

\* The second lookup, under a write lock, and the allocation of a copy.
GetRetry(c) ==
    /\ Is(c, "retry")
    /\ LET key == clients[c].key
           location == Lookup(map, key)
       IN  \/ /\ location = None
              /\ Return(c)
              /\ UNCHANGED blobMapVars
           \/ /\ location # None
              /\ ~NeedsRefresh(location)
              /\ Continue(c, [op |-> "get", at |-> "read", key |-> key,
                              source |-> location])
              /\ UNCHANGED <<blobMapVars, refreshLock>>
           \/ /\ IsOld(map, key)
              /\ AllocateCopy(c, key, [op |-> "get", at |-> "copy", key |-> key,
                                       source |-> location, target |-> None])
    /\ UNCHANGED <<map, cells, damaged, history>>

----------------------------------------------------------------------------
(* FindMissing.                                                            *)

Missing(keys, start, missing) ==
    [op |-> "find", at |-> "returned", keys |-> keys, start |-> start,
     missing |-> missing]

\* The elements of a set in any order.
Orders(S) == Surjection(1 .. Cardinality(S), S)

\* The first scan, under a read lock.
FindMissing(c, keys) ==
    /\ clients[c] = None
    /\ \E todo \in Orders({k \in keys : IsOld(map, k)}),
          missing \in {{k \in keys : IsMissing(map, k)}} :
          Continue(c, IF todo = <<>>
                      THEN Missing(keys, oldEnd, missing)
                      ELSE [op |-> "find", at |-> "wait", keys |-> keys, todo |-> todo,
                            missing |-> missing, start |-> oldEnd])
    /\ UNCHANGED <<blobMapVars, map, cells, damaged, refreshLock, history>>

\* The second scan, up to a blob that is still to be refreshed.  The lock is
\* dropped when that one is copied.  m is the map at this point.
FindMissingScan(c, m, todo) ==
    \E n \in 1 .. Len(todo) + 1 :
        LET missing == clients[c].missing
                          \cup {todo[i] : i \in {j \in 1 .. n - 1 : IsMissing(m, todo[j])}}
        IN  /\ \A i \in 1 .. n - 1 : ~IsOld(m, todo[i])
            /\ \/ /\ n = Len(todo) + 1
                  /\ Continue(c, Missing(clients[c].keys, clients[c].start, missing))
                  /\ Unlock(c)
                  /\ UNCHANGED blobMapVars
               \/ /\ n <= Len(todo) /\ IsOld(m, todo[n])
                  /\ AllocateCopy(c, todo[n],
                        [op |-> "find", at |-> "copy", keys |-> clients[c].keys,
                         todo |-> SubSeq(todo, n + 1, Len(todo)), missing |-> missing,
                         start |-> clients[c].start, key |-> todo[n],
                         source |-> m[todo[n]], target |-> None])

FindMissingRefresh(c) ==
    /\ Is(c, "wait")
    /\ refreshLock = None
    /\ FindMissingScan(c, map, clients[c].todo)
    /\ UNCHANGED <<map, cells, damaged, history>>

FindMissingFinalize(c) ==
    /\ Is(c, "finalize")
    /\ clients[c].op = "find"
    /\ IF FinalizerFails(clients[c].target)
       THEN Return(c) /\ UNCHANGED <<blobMapVars, map>>
       ELSE /\ map' = Map!Stored(map, clients[c].key, clients[c].target)
            /\ FindMissingScan(c, map', clients[c].todo)
    /\ UNCHANGED <<cells, damaged, history>>

\* The caller receives the result.
FindMissingReturns(c) ==
    /\ Is(c, "returned")
    /\ Return(c)
    /\ UNCHANGED <<blobMapVars, map, cells, damaged, history>>

----------------------------------------------------------------------------
(* GetFromComposite.                                                       *)

\* The first lookup, under a read lock.
GetFromComposite(c, parent, child) ==
    /\ clients[c] = None
    /\ ~IsMissing(map, parent)
    /\ Continue(c, IF ~IsOld(map, parent) /\ ~IsMissing(map, child)
                   THEN [op |-> "composite", at |-> "read", key |-> child,
                         source |-> Lookup(map, child)]
                   ELSE [op |-> "composite", at |-> "lock", key |-> parent,
                         child |-> child])
    /\ UNCHANGED <<blobMapVars, map, cells, damaged, refreshLock, history>>

\* The second lookup, under the refresh lock and a write lock.  The parent is
\* to be copied, and sliced at the same time, or only to be sliced.
GetFromCompositeLocked(c) ==
    /\ Is(c, "lock")
    /\ refreshLock = None
    /\ LET parent == clients[c].key
           child == clients[c].child
           location == Lookup(map, parent)
       IN  \/ /\ location = None
              /\ Return(c)
              /\ UNCHANGED blobMapVars
           \/ /\ IsOld(map, parent)
              /\ AllocateCopy(c, parent, [op |-> "composite", at |-> "copy",
                                          key |-> parent, source |-> location,
                                          target |-> None])
           \/ /\ location # None
              /\ ~IsOld(map, parent)
              /\ ~IsMissing(map, child)
              /\ Continue(c, [op |-> "composite", at |-> "read", key |-> child,
                              source |-> Lookup(map, child)])
              /\ UNCHANGED <<blobMapVars, refreshLock>>
           \/ /\ location # None
              /\ ~IsOld(map, parent)
              /\ IsMissing(map, child)
              /\ Continue(c, [op |-> "composite", at |-> "slice", key |-> parent,
                              source |-> location,
                              index |-> Blobs!BlockIndex(location.block)])
              /\ refreshLock' = c
              /\ UNCHANGED blobMapVars
    /\ UNCHANGED <<map, cells, damaged, history>>

\* The parent is read.  There are no slices if it turns out to be corrupted.
Slice(c) ==
    /\ Is(c, "slice")
    /\ IF IsIntact(clients[c].source, clients[c].key)
       THEN /\ Continue(c, [clients[c] EXCEPT !.at = "sliced"])
            /\ UNCHANGED <<blobMapVars, refreshLock>>
       ELSE /\ Blobs!DataIntegrityError(clients[c].source.block)
            /\ Return(c)
    /\ UNCHANGED <<map, cells, damaged, history>>

\* KeyLocationMap.Put() of a block index that does not exist yields a record
\* that cannot be resolved.
StoredByIndex(m, key, index, offset) ==
    IF released + index < Blobs!NextBlock
    THEN Map!Stored(m, key, [block |-> released + index, offset |-> offset])
    ELSE [m EXCEPT ![key] = None]

\* Create map entries for all slices.  If there are several for a key, the one
\* with the highest offset remains.
LastSlices(parent, key) ==
    LET slices == {i \in DOMAIN Slices[parent] : Slices[parent][i].key = key}
    IN  {i \in slices : \A j \in slices : Slices[parent][j].offset <= Slices[parent][i].offset}

StoredSlices(m, parent, index, offset) ==
    [k \in Key |->
        IF LastSlices(parent, k) # {}
        THEN LET last == CHOOSE i \in LastSlices(parent, k) : TRUE
             IN  StoredByIndex(m, k, index, offset + Slices[parent][last].offset)[k]
        ELSE m[k]]

StoreSlices(c) ==
    /\ Is(c, "sliced")
    /\ map' = StoredSlices(map, clients[c].key, clients[c].index,
                           clients[c].source.offset)
    /\ Return(c)
    /\ UNCHANGED <<blobMapVars, cells, damaged, history>>

GetFromCompositeFinalize(c) ==
    /\ Is(c, "finalize")
    /\ clients[c].op = "composite"
    /\ LET parent == clients[c].key
           target == clients[c].target
       IN  IF FinalizerFails(target)
           THEN UNCHANGED map
           ELSE map' = StoredSlices(Map!Stored(map, parent, target), parent,
                                    Blobs!BlockIndex(target.block), target.offset)
    /\ Return(c)
    /\ UNCHANGED <<blobMapVars, cells, damaged, history>>

----------------------------------------------------------------------------
(* The environment.                                                        *)

\* Other clients make the block list move on.
BlocksMove ==
    /\ \/ Blobs!ReleaseCorrupted
       \/ /\ Blobs!NextBlock < MaxBlocks
          /\ IF Blobs!NextBlock - oldEnd < DesiredOtherBlocks
             THEN Blobs!PushBack
             ELSE Blobs!Rotate
    /\ UNCHANGED <<map, cells, damaged, clients, refreshLock, history>>

\* The medium loses data that can still be read.
Damage(block) ==
    /\ \E key \in Key : Lookup(map, key) # None /\ map[key].block = block
    /\ Cardinality(damaged) < MaxCorruptions
    /\ damaged' = damaged \cup {block}
    /\ UNCHANGED <<blobMapVars, map, cells, clients, refreshLock, history>>

----------------------------------------------------------------------------

Init ==
    /\ released = 0
    /\ toBeReleased = 0
    /\ oldEnd = 0
    /\ used = <<>>
    /\ latestOnly = UpdatesReplace
    /\ map = [k \in Key |-> None]
    /\ cells = [b \in 0 .. MaxBlocks - 1 |-> [o \in 0 .. BlockSize - 1 |-> None]]
    /\ damaged = {}
    /\ clients = [c \in Client |-> None]
    /\ refreshLock = None
    /\ seen = [c \in Client |-> {}]
    /\ completed = {}
    /\ superseded = {}

\* Keys that can be found in a block that was created recently enough.
PresentSince(start) ==
    {k \in Key : ~IsMissing(map, k) /\ map[k].block >= start}

RecordSeen ==
    seen' = [c \in Client |->
                IF clients'[c] # None /\ clients'[c].op = "find"
                THEN seen[c] \cup PresentSince(clients[c].start)'
                ELSE {}]

Start(c) ==
    \/ \E key \in Uploads : \E data \in Contents[key] : Put(c, key, data) /\ RecordSeen
    \/ \E key \in Key : Get(c, key) /\ RecordSeen
    \/ \E keys \in Queries : FindMissing(c, keys) /\ RecordSeen
    \/ \E parent \in Key : \E i \in DOMAIN Slices[parent] :
          GetFromComposite(c, parent, Slices[parent][i].key) /\ RecordSeen

Proceed(c) ==
    \/ Read(c) /\ RecordSeen
    \/ Copy(c) /\ RecordSeen
    \/ CopyFails(c) /\ RecordSeen
    \/ Write(c) /\ RecordSeen
    \/ WriteFails(c) /\ RecordSeen
    \/ Finalize(c) /\ RecordSeen
    \/ GetRetry(c) /\ RecordSeen
    \/ FindMissingRefresh(c) /\ RecordSeen
    \/ FindMissingFinalize(c) /\ RecordSeen
    \/ FindMissingReturns(c) /\ RecordSeen
    \/ GetFromCompositeLocked(c) /\ RecordSeen
    \/ Slice(c) /\ RecordSeen
    \/ StoreSlices(c) /\ RecordSeen
    \/ GetFromCompositeFinalize(c) /\ RecordSeen

Environment ==
    \/ BlocksMove /\ RecordSeen
    \/ \E block \in released .. Blobs!NextBlock - 1 : Damage(block) /\ RecordSeen

Next ==
    \/ Environment
    \/ \E c \in Client : Start(c) \/ Proceed(c)

Spec == Init /\ [][Next]_vars

\* Clients that run an operation keep running, and sync.Mutex lets everyone
\* who waits for it have it at some point.
FairSpec == Spec /\ \A c \in Client : SF_vars(Proceed(c))

----------------------------------------------------------------------------
(* Properties.                                                             *)

Location == [block: 0 .. MaxBlocks - 1, offset: 0 .. BlockSize]
SliceKeys == UNION {{Slices[k][i].key : i \in DOMAIN Slices[k]} : k \in Key}

\* The operations that clients run, as far as they have come.
Data == UNION {Contents[k] : k \in Key}
ReadState == [op: {"get", "composite"}, at: {"read"}, key: Key, source: Location]
PutState ==
    [op: {"put"}, at: {"write", "finalize"}, key: Key, data: Data, target: Location, older: SUBSET Data]
RetryState == [op: {"get"}, at: {"retry"}, key: Key]
CopyState ==
    [op: {"get", "composite"}, at: {"copy", "finalize"}, key: Key, source: Location, target: Location]
WaitState ==
    [op: {"find"}, at: {"wait"}, keys: SUBSET Key, todo: Seq(Key), missing: SUBSET Key, start: Nat]
RefreshState ==
    [op: {"find"}, at: {"copy", "finalize"}, keys: SUBSET Key, todo: Seq(Key), missing: SUBSET Key,
     start: Nat, key: Key, source: Location, target: Location]
ReturnedState ==
    [op: {"find"}, at: {"returned"}, keys: SUBSET Key, start: Nat, missing: SUBSET Key]
LockState == [op: {"composite"}, at: {"lock"}, key: Key, child: Key]
SliceState ==
    [op: {"composite"}, at: {"slice", "sliced"}, key: Key, source: Location, index: Nat]

ClientState ==
    ReadState \cup PutState \cup RetryState \cup CopyState \cup WaitState \cup RefreshState
       \cup ReturnedState \cup LockState \cup SliceState

\* All data of a key has the same size, and slices lie within their parents.
ASSUME FlatAssumption ==
    /\ BlockSize \in Nat /\ MaxBlocks \in Nat /\ DesiredOldBlocks \in Nat
    /\ Client # {} /\ Uploads \subseteq Key /\ Queries \subseteq SUBSET Key
    /\ \A S \in SUBSET Key : Cardinality(S) \in Nat
    /\ \A k \in Key :
          /\ Contents[k] # {}
          /\ \A data \in Contents[k] : data \in Seq(Range(data)) /\ Len(data) = SizeBytes(k)
          /\ \A i \in DOMAIN Slices[k] :
                /\ Slices[k][i].key \in Key /\ Slices[k][i].offset \in Nat
                /\ Slices[k][i].offset + SizeBytes(Slices[k][i].key) <= SizeBytes(k)
    /\ None \notin Client /\ None \notin Location /\ None \notin ClientState

TypeOK ==
    /\ clients \in [Client -> ClientState \cup {None}]
    /\ 0 <= released /\ released <= toBeReleased /\ toBeReleased <= Blobs!NextBlock
    /\ released <= oldEnd /\ oldEnd <= Blobs!NextBlock
    /\ \A i \in DOMAIN used : used[i] \in 0 .. BlockSize
    /\ map \in [Key -> Location \cup {None}]
    /\ refreshLock \in Client \cup {None}
    /\ refreshLock # None => clients[refreshLock] # None

\* Whatever is released, copied and overwritten at the same time, an entry that
\* can be resolved leads to the data of its key, as far as it was stored as a
\* whole (by Put and by refreshing, but not by slicing).
EntriesLeadToTheirBlob ==
    \A k \in Key \ SliceKeys :
        ~IsMissing(map, k) => DataAt(map[k], k) \in Contents[k]

\* The entries, the blocks and the refresh lock are consistent at any time.
EntriesConsistent == TypeOK /\ EntriesLeadToTheirBlob

\* FindMissing() keeps blobs from disappearing: the ones that it does not
\* report were present, while it ran, in a block that was not "old" when it
\* was called.
PresentBlobsRefreshed ==
    \A c \in Client : Is(c, "returned") =>
        clients[c].keys \ clients[c].missing \subseteq seen[c]

\* No operation waits forever, for the refresh lock or for data.
OperationsTerminate ==
    \A c \in Client : clients[c] # None ~> clients[c] = None

\* "It's safe to use them as references to blocks within the context of a
\* single operation while locks are held, but not to store them to refer to
\* blocks later on": the entries of slices lead to the data of the slices.
SlicesLeadToTheirBlob ==
    \A k \in SliceKeys :
        ~IsMissing(map, k) => DataAt(map[k], k) \in Contents[k]

\* "This ensures that updating the corresponding entry in the KeyLocationMap
\* is guaranteed to succeed": once a Put() was successful, the data of earlier
\* ones does not come back.
UpdatesPersist ==
    \A k \in Key : ~IsMissing(map, k) => DataAt(map[k], k) \notin superseded
============================================================================
