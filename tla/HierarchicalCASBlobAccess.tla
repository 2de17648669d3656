---------------------- MODULE HierarchicalCASBlobAccess ----------------------
(***************************************************************************)
(* The storage backend for the Content Addressable Storage that keeps      *)
(* track of which instance names may access an object                      *)
(* (pkg/blobstore/local/hierarchical_cas_blob_access.go), on top of what   *)
(* the KeyLocationMap and LocationBlobMap promise.                         *)
(*                                                                         *)
(* As in FlatBlobAccess, what happens while the storage lock is held is    *)
(* one step.  Blocks have room for a single object each, and instance      *)
(* names are sequences of components.                                      *)
(***************************************************************************)
EXTENDS Integers, Sequences, SequencesExt, FiniteSetsExt

CONSTANTS
  Users,                \* concurrent callers
  CASInstanceNames,     \* the instance names that callers use
  CASObjects,
  CanonicalName,        \* stands for the instance name in canonical keys
  NoLocation,
  OldBlocks,            \* the number of "old" blocks
  MaxBlocks             \* bound on the number of blocks ever created

VARIABLES
  released, toBeReleased, oldEnd, used, latestOnly,     \* LocationBlobMap
  locations,            \* KeyLocationMap: key -> location
  contents,             \* block -> the object in it
  user,                 \* what each caller is doing
  refreshing,           \* refreshLock
  uploaded              \* history: the objects that were provided, by instance name

blobMap == <<released, toBeReleased, oldEnd, used, latestOnly>>
casVars == <<blobMap, locations, contents, user, refreshing, uploaded>>

Keys == [instance : CASInstanceNames \cup {CanonicalName}, object : CASObjects]

Blobs == INSTANCE LocationBlobMap WITH BlockSize <- 1, DesiredOldBlocks <- OldBlocks
Entries == INSTANCE KeyLocationMap WITH Key <- Keys, None <- NoLocation, Offset <- {0}, map <- locations,
                                        oldestBlock <- toBeReleased, nextBlock <- Blobs!NextBlock

(* KeyLocationMap.Get(). *)
Location(m, key) ==
  IF m[key] # NoLocation /\ Blobs!Resolvable(m[key].block) THEN m[key] ELSE NoLocation

IsFresh(location) == location # NoLocation /\ ~Blobs!NeedsRefresh(location.block)

MostSpecificLookupKey(digest) == digest

(* From the empty instance name to that of the digest. *)
AllLookupKeys(digest) ==
  [i \in 1 .. Len(digest.instance) + 1 |-> [digest EXCEPT !.instance = SubSeq(@, 1, i - 1)]]

CanonicalKey(digest) == [digest EXCEPT !.instance = CanonicalName]

(* The lookup keys that are present, as a sequence. *)
FoundKeys(m, digest) == SelectSeq(AllLookupKeys(digest), LAMBDA key : key \in Keys /\ Location(m, key) # NoLocation)

(* getLeastSpecificLookupEntry(). *)
LeastSpecificKey(m, digest) == Head(FoundKeys(m, digest))
LeastSpecificLocation(m, digest) ==
  IF FoundKeys(m, digest) = <<>> THEN NoLocation ELSE Location(m, LeastSpecificKey(m, digest))

IsOldObject(m, digest) ==
  LET l == LeastSpecificLocation(m, digest) IN l # NoLocation /\ ~IsFresh(l)

(* syncFromCanonicalEntry(). *)
CanSync(m, digest) == IsFresh(Location(m, CanonicalKey(digest)))
Synced(m, digest)  == Entries!Stored(m, LeastSpecificKey(m, digest), Location(m, CanonicalKey(digest)))

CASInit ==
  /\ released = 0 /\ toBeReleased = 0 /\ oldEnd = 0 /\ used = <<>> /\ latestOnly = FALSE
  /\ locations = [key \in Keys |-> NoLocation]
  /\ contents = <<>>
  /\ user = [c \in Users |-> [at |-> "idle"]]
  /\ refreshing = {}
  /\ uploaded = {}

Becomes(c, state) == user' = [user EXCEPT ![c] = state]

EndCall(c) == Becomes(c, [at |-> "idle"]) /\ refreshing' = refreshing \ {c}

(* LocationBlobMap.Put(): a block is allocated, or it fails. *)
AllocateObject(c, state, locker) ==
  \/ \E block \in oldEnd .. Blobs!NextBlock - 1 :
       /\ Blobs!Allocate(block, 1)
       /\ Becomes(c, state @@ [target |-> [block |-> block, offset |-> 0]])
       /\ refreshing' = refreshing \cup locker
  \/ EndCall(c) /\ UNCHANGED blobMap

-----------------------------------------------------------------------------
(* Put().  Callers may provide data that doesn't match the digest. *)

PutObject(c, digest, valid) ==
  /\ user[c].at = "idle"
  /\ LET state == [op |-> "put", digest |-> digest, lookup |-> MostSpecificLookupKey(digest), valid |-> valid]
     IN  IF IsFresh(Location(locations, CanonicalKey(digest)))
         THEN Becomes(c, state @@ [at |-> "consume"]) /\ UNCHANGED <<blobMap, refreshing>>
         ELSE AllocateObject(c, state @@ [at |-> "write"], {})
  /\ UNCHANGED <<locations, contents, uploaded>>


(* The object exists.  The data is consumed to validate it. *)
ConsumeObject(c) ==
  /\ user[c].at = "consume"
  /\ Becomes(c, IF user[c].valid THEN [user[c] EXCEPT !.at = "link"] ELSE [at |-> "idle"])
  /\ UNCHANGED <<blobMap, locations, contents, refreshing, uploaded>>

(* An entry is created for what is now the canonical location, which may   *)
(* have disappeared.                                                       *)
LinkObject(c) ==
  LET location == Location(locations, CanonicalKey(user[c].digest))
  IN  /\ user[c].at = "link"
      /\ locations' = IF location = NoLocation THEN locations ELSE Entries!Stored(locations, user[c].lookup, location)
      /\ uploaded' = IF user[c].valid THEN uploaded \cup {user[c].lookup} ELSE uploaded
      /\ EndCall(c)
      /\ UNCHANGED <<blobMap, contents>>

WriteObject(c) ==
  /\ user[c].at = "write"
  /\ IF user[c].valid
     THEN /\ contents' = (user[c].target.block :> user[c].digest.object) @@ contents
          /\ uploaded' = uploaded \cup {user[c].lookup}
          /\ Becomes(c, [user[c] EXCEPT !.at = "finalize"])
     ELSE Becomes(c, [at |-> "idle"]) /\ UNCHANGED <<contents, uploaded>>
  /\ UNCHANGED <<blobMap, locations, refreshing>>

(* finalizePut(). *)
WithBothKeys(digest, lookup, target) ==
  Entries!Stored(Entries!Stored(locations, CanonicalKey(digest), target), lookup, target)

FinalizerError(target) == target.block < toBeReleased

(* The end of Put(), and of the task of Get(). *)
FinalizeObject(c) ==
  /\ user[c].at = "finalize" /\ user[c].op # "find"
  /\ locations' = IF FinalizerError(user[c].target)
                  THEN locations
                  ELSE WithBothKeys(user[c].digest, user[c].lookup, user[c].target)
  /\ EndCall(c)
  /\ UNCHANGED <<blobMap, contents, uploaded>>

-----------------------------------------------------------------------------
(* Get(). *)

Reading(digest, location) == [op |-> "get", at |-> "read", digest |-> digest, source |-> location]

GetObject(c, digest) ==
  LET location == LeastSpecificLocation(locations, digest)
  IN  /\ user[c].at = "idle" /\ location # NoLocation
      /\ Becomes(c, IF IsFresh(location) THEN Reading(digest, location) ELSE [op |-> "get", at |-> "retry", digest |-> digest])
      /\ UNCHANGED <<blobMap, locations, contents, refreshing, uploaded>>

(* The second lookup, with the write lock held. *)
RetryGet(c) ==
  LET digest   == user[c].digest
      location == LeastSpecificLocation(locations, digest)
  IN  /\ user[c].at = "retry"
      /\ \/ location = NoLocation /\ EndCall(c) /\ UNCHANGED <<blobMap, locations>>
         \/ IsFresh(location) /\ Becomes(c, Reading(digest, location)) /\ UNCHANGED <<blobMap, locations, refreshing>>
         \/ /\ IsOldObject(locations, digest) /\ CanSync(locations, digest)
            /\ Becomes(c, Reading(digest, Location(locations, CanonicalKey(digest))))
            /\ locations' = Synced(locations, digest)
            /\ UNCHANGED <<blobMap, refreshing>>
         \/ /\ IsOldObject(locations, digest) /\ ~CanSync(locations, digest)
            /\ AllocateObject(c, [op |-> "get", at |-> "copy", digest |-> digest, lookup |-> LeastSpecificKey(locations, digest),
                                  source |-> location], {})
            /\ UNCHANGED locations
      /\ UNCHANGED <<contents, uploaded>>

ReadObject(c) ==
  /\ user[c].at = "read"
  /\ EndCall(c)
  /\ UNCHANGED <<blobMap, locations, contents, uploaded>>

(* Copying an object may fail. *)
CopyObject(c) ==
  /\ user[c].at = "copy"
  /\ \/ /\ contents' = (user[c].target.block :> contents[user[c].source.block]) @@ contents
        /\ Becomes(c, [user[c] EXCEPT !.at = "finalize"])
        /\ UNCHANGED refreshing
     \/ EndCall(c) /\ UNCHANGED contents
  /\ UNCHANGED <<blobMap, locations, uploaded>>

-----------------------------------------------------------------------------
(* FindMissing(), whose second scan holds the refresh lock. *)

ScanObjects(c, digests) ==
  /\ user[c].at = "idle"
  /\ LET old == SelectSeq(digests, LAMBDA d : IsOldObject(locations, d))
     IN  /\ old # <<>>
         /\ Becomes(c, [op |-> "find", at |-> "wait", todo |-> old])
  /\ UNCHANGED <<blobMap, locations, contents, refreshing, uploaded>>

(* Objects are refreshed up to the next one that needs to be copied, with  *)
(* m being the map at this point.                                          *)
RefreshObjects(c, m, todo) ==
  LET Sync(n, d) == IF IsOldObject(n, d) /\ CanSync(n, d) THEN Synced(n, d) ELSE n
      Before(i)  == FoldLeft(Sync, m, SubSeq(todo, 1, i - 1))
      copied     == {i \in DOMAIN todo : LET n == Before(i) IN IsOldObject(n, todo[i]) /\ ~CanSync(n, todo[i])}
      i          == IF copied = {} THEN Len(todo) + 1 ELSE Min(copied)
      n          == Before(i)
  IN  /\ locations' = n
      /\ IF copied = {}
         THEN EndCall(c) /\ UNCHANGED blobMap
         ELSE AllocateObject(c, [op |-> "find", at |-> "copy", digest |-> todo[i], lookup |-> LeastSpecificKey(n, todo[i]),
                                 source |-> LeastSpecificLocation(n, todo[i]), todo |-> SubSeq(todo, i + 1, Len(todo))], {c})

RefreshScan(c) ==
  /\ user[c].at = "wait" /\ refreshing = {}
  /\ RefreshObjects(c, locations, user[c].todo)
  /\ UNCHANGED <<contents, uploaded>>

RefreshFinalize(c) ==
  /\ user[c].at = "finalize" /\ user[c].op = "find"
  /\ IF FinalizerError(user[c].target)
     THEN EndCall(c) /\ UNCHANGED <<blobMap, locations>>
     ELSE RefreshObjects(c, WithBothKeys(user[c].digest, user[c].lookup, user[c].target), user[c].todo)
  /\ UNCHANGED <<contents, uploaded>>

-----------------------------------------------------------------------------
(* The environment: blocks are created and released, corruption is found,  *)
(* and entries get displaced.                                              *)

BlocksChange ==
  /\ \/ Blobs!ReleaseCorrupted
     \/ Blobs!NextBlock < MaxBlocks /\ (Blobs!PushBack \/ Blobs!Rotate)
     \/ \E block \in toBeReleased .. Blobs!NextBlock - 1 : Blobs!DataIntegrityError(block)
  /\ UNCHANGED <<locations, contents, user, refreshing, uploaded>>

EntryLost(key) ==
  /\ Location(locations, key) # NoLocation
  /\ locations' = [locations EXCEPT ![key] = NoLocation]
  /\ UNCHANGED <<blobMap, contents, user, refreshing, uploaded>>

CASDigests == [instance : CASInstanceNames, object : CASObjects]

CASNext ==
  \/ \E c \in Users :
       \/ \E digest \in CASDigests : GetObject(c, digest) \/ \E valid \in BOOLEAN : PutObject(c, digest, valid)
       \/ \E digests \in {SetToSeq(s) : s \in SUBSET CASDigests} : ScanObjects(c, digests)
       \/ ConsumeObject(c) \/ LinkObject(c) \/ WriteObject(c) \/ FinalizeObject(c)
       \/ RetryGet(c) \/ ReadObject(c) \/ CopyObject(c) \/ RefreshScan(c) \/ RefreshFinalize(c)
  \/ BlocksChange
  \/ \E key \in Keys : EntryLost(key)

-----------------------------------------------------------------------------
=============================================================================
