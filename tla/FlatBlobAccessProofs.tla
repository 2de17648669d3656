------------------------ MODULE FlatBlobAccessProofs ------------------------
(***************************************************************************)
(* Proofs about FlatBlobAccess, for every number of clients, keys, blocks  *)
(* and sizes of blobs, with the invariant of FlatBlobAccessInvariant.      *)
(***************************************************************************)
EXTENDS FlatBlobAccessInvariant

\* Get() with only the read lock held.
LEMMA Gets ==
    ASSUME FlatInv, RecordSeen, NEW c \in Client, NEW key \in Key, Get(c, key)
    PROVE  FlatInv'
<1>1. PICK location \in {Lookup(map, key)} \ {None} :
         Continue(c, IF NeedsRefresh(location)
                     THEN [op |-> "get", at |-> "retry", key |-> key]
                     ELSE [op |-> "get", at |-> "read", key |-> key, source |-> location])
  BY Zenon DEF Get
<1>2. location \in Location
  BY Zenon, <1>1, Found
<1>3. PICK after \in ReadState \cup RetryState \cup LockState : Continue(c, after)
  <2>1. CASE NeedsRefresh(location)
    <3>1. [op |-> "get", at |-> "retry", key |-> key] \in RetryState
      BY Zenon DEF RetryState
    <3> QED  BY Zenon, <1>1, <2>1, <3>1
  <2>2. CASE ~NeedsRefresh(location)
    <3>1. [op |-> "get", at |-> "read", key |-> key, source |-> location] \in ReadState
      BY Zenon, <1>2 DEF ReadState
    <3> QED  BY Zenon, <1>1, <2>2, <3>1
  <2> QED  BY Zenon, <2>1, <2>2
<1> QED  BY <1>3, Proceeding, Zenon DEF Get, Continue, history

\* A copy that is not made by FindMissing().
LEMMA ToCopyPlainly ==
    ASSUME NEW c \in Client, NEW op \in {"get", "composite"}, NEW key \in Key, NEW source \in Location
    PROVE  ToCopy(c, key, [op |-> op, at |-> "copy", key |-> key, source |-> source, target |-> None])
<1> DEFINE state == [op |-> op, at |-> "copy", key |-> key, source |-> source, target |-> None]
<1> SUFFICES ASSUME NEW location \in Location, NEW after, after = [state EXCEPT !.target = location]
             PROVE  /\ after \in CopyState
                    /\ after.at = "copy" /\ after.key = key /\ after.target = location
                    /\ after.op # "find"
  BY DEF ToCopy
<1>1. after = [op |-> op, at |-> "copy", key |-> key, source |-> source, target |-> location]
  BY Zenon
<1> QED  BY Zenon, <1>1 DEF CopyState

\* Get() and GetFromComposite() copy an old blob.
LEMMA CopyPlainly ==
    ASSUME FlatInv, RecordSeen, NEW c \in Client, NEW op \in {"get", "composite"}, NEW key \in Key,
           NEW source \in Location,
           AllocateCopy(c, key, [op |-> op, at |-> "copy", key |-> key, source |-> source, target |-> None]),
           UNCHANGED <<map, cells, completed>>
    PROVE  FlatInv'
<1> DEFINE state == [op |-> op, at |-> "copy", key |-> key, source |-> source, target |-> None]
<1>1. ToCopy(c, key, state)
  BY Zenon, ToCopyPlainly
<1>2. map' \in [Key -> Location \cup {None}] /\ (BlocksAdvance => EntriesFitNext /\ EntriesFrom(c))
  BY Zenon, EntriesStay DEF FlatInv, TypeOK
<1>3. AllocateCopy(c, key, state)
  BY Zenon
<1> HIDE DEF state
<1> QED  BY Zenon, <1>1, <1>2, <1>3, CopyStarts

\* Get() with the refresh lock held.
LEMMA GetsAgain ==
    ASSUME FlatInv, RecordSeen, NEW c \in Client, GetRetry(c)
    PROVE  FlatInv'
<1> DEFINE key == clients[c].key
           location == Lookup(map, key)
<1>1. clients[c] \in RetryState
  BY Zenon, Typed, StateAt DEF GetRetry
<1>2. key \in Key
  BY Zenon, <1>1 DEF RetryState
<1>3. location # None => location \in Location
  BY Zenon, <1>2, Found
<1>4. UNCHANGED <<map, cells, completed>>
  BY Zenon DEF GetRetry, history
<1>5. CASE location = None /\ Return(c) /\ UNCHANGED blobMapVars
  BY Zenon, <1>4, <1>5, BlocksStay, Ending DEF FlatInv
<1>6. CASE /\ location # None
           /\ Continue(c, [op |-> "get", at |-> "read", key |-> key, source |-> location])
           /\ UNCHANGED <<blobMapVars, refreshLock>>
  <2>1. [op |-> "get", at |-> "read", key |-> key, source |-> location] \in ReadState
    BY Zenon, <1>2, <1>3, <1>6 DEF ReadState
  <2> QED  BY <1>4, <1>6, <2>1, Proceeding, Zenon DEF Continue
<1>7. CASE /\ IsOld(map, key)
           /\ AllocateCopy(c, key, [op |-> "get", at |-> "copy", key |-> key,
                                    source |-> location, target |-> None])
  <2>1. location \in Location
    BY Zenon, <1>3, <1>7 DEF IsOld, IsMissing
  <2> QED  BY Zenon, <1>2, <1>4, <1>7, <2>1, CopyPlainly
<1> QED  BY Zenon, <1>5, <1>6, <1>7 DEF GetRetry

----------------------------------------------------------------------------
(* FindMissing.                                                            *)

\* A blob that is neither missing nor old is found in a recent block.
LEMMA Recent ==
    ASSUME FlatInv, NEW m \in [Key -> Location \cup {None}], m = map',
           toBeReleased' = toBeReleased, Blobs!NextBlock' = Blobs!NextBlock,
           NEW key \in Key, ~IsMissing(m, key), ~IsOld(m, key),
           NEW start \in Nat, start <= oldEnd
    PROVE  key \in PresentNext(start)
<1>1. m[key] # None /\ Blobs!Resolvable(m[key].block) /\ ~(m[key].block < oldEnd)
  BY Zenon DEF IsMissing, IsOld, Lookup, NeedsRefresh, Blobs!NeedsRefresh
<1>2. m[key].block \in Nat /\ oldEnd \in Nat
  BY <1>1 DEF Location, FlatInv, BlocksInOrder
<1> QED  BY <1>1, <1>2 DEF PresentNext, Blobs!Resolvable

\* FindMissing() goes on without copying.
LEMMA Searching ==
    ASSUME FlatInv, UNCHANGED blobMapVars, RecordSeen, NEW c \in Client,
           NEW after \in WaitState \cup ReturnedState,
           clients' = [clients EXCEPT ![c] = after],
           after.start <= oldEnd,
           after.keys \ Remaining(after) \subseteq seen[c] \cup PresentNext(after.start),
           LockStep(c), UNCHANGED <<cells, completed>>,
           map' \in [Key -> Location \cup {None}], EntriesFitNext, EntriesFrom(c)
    PROVE  FlatInv'
<1>1. BlocksAdvance
  BY Zenon, BlocksStay DEF FlatInv
<1>2. /\ after \in ClientState
      /\ after.at \notin {"write", "copy", "finalize", "slice", "sliced"}
  BY Zenon DEF ClientState, WaitState, ReturnedState
<1>3. clients'[c] = after /\ completed' \subseteq Data
  BY Zenon DEF FlatInv, TypeOK
<1>4. TargetFrom(c) /\ ParentFrom(c)
  BY Zenon, <1>2, <1>3 DEF TargetFrom, ParentFrom, HasTarget, IsSlicing
<1>5. FoundSoFar(c)
  BY Zenon, <1>2, <1>3 DEF FoundSoFar, HasTarget, blobMapVars
<1> QED  BY ZenonT(30), <1>1, <1>2, <1>3, <1>4, <1>5, ClientStep

\* FindMissing() with only the read lock held.
LEMMA Searches ==
    ASSUME FlatInv, RecordSeen, NEW c \in Client, NEW keys \in Queries, FindMissing(c, keys)
    PROVE  FlatInv'
<1> DEFINE old == {k \in keys : IsOld(map, k)}
           missing == {k \in keys : IsMissing(map, k)}
<1>1. keys \in SUBSET Key
  BY Zenon, FlatAssumption
<1>2. Cardinality(old) \in Nat /\ old \in SUBSET Key
  <2>1. old \in SUBSET Key
    BY Zenon, <1>1
  <2> HIDE DEF old
  <2> QED  BY Zenon, <2>1, FlatAssumption
<1>9. PICK todo \in Orders(old) :
         Continue(c, IF todo = <<>> THEN Missing(keys, oldEnd, missing)
                     ELSE [op |-> "find", at |-> "wait", keys |-> keys, todo |-> todo,
                           missing |-> missing, start |-> oldEnd])
  BY Zenon DEF FindMissing
<1>3. todo \in Seq(old) /\ Range(todo) = old /\ (todo = <<>> => old = {})
  <2> HIDE DEF old
  <2> QED  BY Zenon, <1>2, AllElements
<1>4. todo \in Seq(Key)
  <2> HIDE DEF old
  <2> QED  BY <1>2, <1>3
<1>5. UNCHANGED <<blobMapVars, map, cells, completed, refreshLock>>
  BY Zenon DEF FindMissing, history
<1>6. /\ oldEnd \in Nat /\ map \in [Key -> Location \cup {None}]
      /\ toBeReleased' = toBeReleased /\ Blobs!NextBlock' = Blobs!NextBlock
      /\ clients \in [Client -> ClientState \cup {None}]
  BY Zenon, <1>5 DEF FlatInv, TypeOK, BlocksInOrder, blobMapVars, Blobs!NextBlock
<1>7. keys \ (missing \cup old) \subseteq PresentNext(oldEnd)
  <2> SUFFICES ASSUME NEW k \in keys, ~IsMissing(map, k), ~IsOld(map, k)
               PROVE  k \in PresentNext(oldEnd)
    BY Zenon
  <2> QED  BY <1>1, <1>5, <1>6, Recent
<1>8. missing \in SUBSET Key
  BY Zenon, <1>1
<1> DEFINE waiting == [op |-> "find", at |-> "wait", keys |-> keys, todo |-> todo,
                       missing |-> missing, start |-> oldEnd]
           returning == Missing(keys, oldEnd, missing)
<1> HIDE DEF old, missing
<1>10. waiting \in WaitState /\ returning \in ReturnedState
  BY Zenon, <1>1, <1>4, <1>6, <1>8 DEF WaitState, ReturnedState, Missing
<1>11. Remaining(waiting) = missing \cup old
  BY Zenon, <1>3 DEF Remaining
<1>12. Remaining(returning) = missing /\ returning.keys = keys /\ returning.start = oldEnd
  BY Zenon DEF Remaining, Missing
<1>13. waiting.keys = keys /\ waiting.start = oldEnd
  BY Zenon
<1> HIDE DEF waiting, returning
<1>14. PICK after \in WaitState \cup ReturnedState :
          /\ clients' = [clients EXCEPT ![c] = after]
          /\ after.start <= oldEnd
          /\ after.keys \ Remaining(after) \subseteq seen[c] \cup PresentNext(after.start)
  <2>1. CASE todo = <<>>
    <3>1. clients' = [clients EXCEPT ![c] = returning]
      BY Zenon, <1>9, <2>1 DEF Continue, returning
    <3>2. returning.start <= oldEnd
      BY SMTT(30), <1>6, <1>12, <1>13
    <3>3. returning.keys \ Remaining(returning) \subseteq seen[c] \cup PresentNext(returning.start)
      BY Zenon, <1>3, <1>7, <1>12, <2>1
    <3> QED  BY Zenon, <1>10, <3>1, <3>2, <3>3
  <2>2. CASE todo # <<>>
    <3>1. clients' = [clients EXCEPT ![c] = waiting]
      BY Zenon, <1>9, <2>2 DEF Continue, waiting
    <3>2. waiting.start <= oldEnd
      BY SMTT(30), <1>6, <1>12, <1>13
    <3>3. waiting.keys \ Remaining(waiting) \subseteq seen[c] \cup PresentNext(waiting.start)
      BY Zenon, <1>7, <1>11, <1>13
    <3> QED  BY Zenon, <1>10, <3>1, <3>2, <3>3
  <2> QED  BY Zenon, <2>1, <2>2
<1>15. BlocksAdvance
  BY Zenon, <1>5, BlocksStay DEF FlatInv
<1>16. map' \in [Key -> Location \cup {None}] /\ EntriesFitNext /\ EntriesFrom(c)
  BY Zenon, <1>5, <1>15, EntriesStay
<1>17. after \in ClientState
  BY Zenon DEF ClientState
<1>18. LockStep(c)
  BY Zenon, <1>5, <1>6, <1>14, <1>17, NoStates DEF LockStep
<1> QED  BY ZenonT(30), <1>5, <1>14, <1>16, <1>18, Searching

\* Allocating space for a copy does not release or create blocks.
LEMMA BlocksKept ==
    ASSUME BlocksInOrder, NEW c, NEW key \in Key, NEW state, AllocateCopy(c, key, state)
    PROVE  toBeReleased' = toBeReleased /\ Blobs!NextBlock' = Blobs!NextBlock
<1>1. CASE AllocationFails(c)
  BY Zenon, <1>1 DEF AllocationFails, blobMapVars, Blobs!NextBlock
<1>2. ASSUME NEW block \in oldEnd .. Blobs!NextBlock - 1, Allocate(key, block)
      PROVE  toBeReleased' = toBeReleased /\ Blobs!NextBlock' = Blobs!NextBlock
  BY Zenon, <1>2, Allocation
<1> QED  BY <1>1, <1>2, Zenon DEF AllocateCopy

\* The blobs that were skipped are missing or recent.
LEMMA Skipped ==
    ASSUME FlatInv, map' \in [Key -> Location \cup {None}],
           toBeReleased' = toBeReleased, Blobs!NextBlock' = Blobs!NextBlock,
           NEW key \in Key, ~IsOld(map', key), NEW start \in Nat, start <= oldEnd
    PROVE  IsMissing(map', key) \/ key \in PresentNext(start)
  BY Zenon, Recent

\* What is known when FindMissing() obtains the lock, or obtains it again.
SeenSoFar(c) ==
    toBeReleased' = toBeReleased /\ Blobs!NextBlock' = Blobs!NextBlock =>
        clients[c].keys \ (clients[c].missing \cup Range(clients[c].todo))
           \subseteq seen[c] \cup PresentNext(clients[c].start)

\* The scan with the refresh lock held, up to the next blob to copy.
LEMMA Scanning ==
    ASSUME FlatInv, RecordSeen, NEW c \in Client, clients[c] \in WaitState \cup RefreshState,
           FindMissingScan(c, map', clients[c].todo), UNCHANGED <<cells, completed>>,
           map' \in [Key -> Location \cup {None}],
           BlocksAdvance => EntriesFitNext /\ EntriesFrom(c),
           SeenSoFar(c)
    PROVE  FlatInv'
<1> DEFINE todo == clients[c].todo
           keys == clients[c].keys
           start == clients[c].start
           missingUpTo(i) == clients[c].missing
                                \cup {todo[j] : j \in {h \in 1 .. i - 1 : IsMissing(map', todo[h])}}
           stateAt(i) == [op |-> "find", at |-> "copy", keys |-> keys,
                          todo |-> SubSeq(todo, i + 1, Len(todo)), missing |-> missingUpTo(i),
                          start |-> start, key |-> todo[i],
                          source |-> map'[todo[i]], target |-> None]
<1>4. PICK n \in 1 .. Len(todo) + 1 :
         /\ \A i \in 1 .. n - 1 : ~IsOld(map', todo[i])
         /\ \/ /\ n = Len(todo) + 1
               /\ Continue(c, Missing(keys, start, missingUpTo(n))) /\ Unlock(c) /\ UNCHANGED blobMapVars
            \/ /\ n <= Len(todo) /\ IsOld(map', todo[n])
               /\ AllocateCopy(c, todo[n], stateAt(n))
  BY Zenon DEF FindMissingScan
<1> DEFINE missing == missingUpTo(n)
           returned == Missing(keys, start, missing)
           state == stateAt(n)
<1>1. /\ todo \in Seq(Key) /\ keys \in SUBSET Key /\ start \in Nat /\ clients[c].missing \in SUBSET Key
      /\ IsFinding(clients[c])
  <2>1. clients[c] # None
    BY Zenon, NoStates DEF ClientState
  <2> QED  BY Zenon, <2>1 DEF WaitState, RefreshState, IsFinding
<1>2. /\ start <= oldEnd /\ BlocksInOrder /\ clients \in [Client -> ClientState \cup {None}]
  BY Zenon, <1>1 DEF FlatInv, FindingsSeen, TypeOK
<1>3. Len(todo) \in Nat /\ DOMAIN todo = 1 .. Len(todo) /\ \A i \in 1 .. Len(todo) : todo[i] \in Key
  BY SMTT(30), <1>1
<1>7. n \in 1 .. Len(todo) + 1 /\ \A i \in 1 .. n - 1 : i \in 1 .. Len(todo) /\ ~IsOld(map', todo[i])
  BY SMTT(30), <1>3, <1>4
<1>8. missing \in SUBSET Key
  BY Zenon, <1>1, <1>3, <1>7
<1>9. ASSUME toBeReleased' = toBeReleased, Blobs!NextBlock' = Blobs!NextBlock,
             NEW k \in keys, k \notin missing, \A i \in n .. Len(todo) : k # todo[i]
      PROVE  k \in seen[c] \cup PresentNext(start)
  <2>1. CASE k \notin Range(todo)
    BY Zenon, <1>9, <2>1 DEF SeenSoFar
  <2>2. CASE k \in Range(todo)
    <3>1. PICK i \in 1 .. Len(todo) : k = todo[i]
      BY Zenon, <1>3, <2>2 DEF Range
    <3>2. i \in 1 .. n - 1
      BY SMTT(30), <1>3, <1>7, <1>9, <3>1
    <3>3. ~IsMissing(map', k)
      BY Zenon, <1>9, <3>1, <3>2
    <3>4. k \in Key /\ ~IsOld(map', k)
      BY SMTT(30), <1>3, <1>7, <3>1, <3>2
    <3> HIDE DEF start
    <3> QED  BY SMTT(30), <1>1, <1>2, <1>9, <3>3, <3>4, Skipped
  <2> QED  BY Zenon, <2>1, <2>2
<1>5. (n = Len(todo) + 1 => ~(n <= Len(todo))) /\ (n # Len(todo) + 1 => n \in 1 .. Len(todo))
  BY <1>3, <1>7
<1>6. /\ n = Len(todo) + 1 => Continue(c, returned) /\ Unlock(c) /\ UNCHANGED blobMapVars
      /\ n # Len(todo) + 1 => IsOld(map', todo[n]) /\ AllocateCopy(c, todo[n], state)
  BY <1>4, <1>5, Zenon
<1> HIDE DEF missing, start, keys, todo
<1>10. CASE n = Len(todo) + 1
  <2>1. clients' = [clients EXCEPT ![c] = returned] /\ Unlock(c) /\ UNCHANGED blobMapVars
    BY Zenon, <1>6, <1>10 DEF Continue
  <2>2. BlocksAdvance
    BY Zenon, <1>2, <2>1, BlocksStay
  <2>3. /\ returned \in ReturnedState /\ returned.start = start /\ returned.keys = keys
        /\ Remaining(returned) = missing
    BY Zenon, <1>1, <1>8 DEF Missing, ReturnedState, Remaining
  <2>4. n .. Len(todo) = {}
    BY SMTT(30), <1>3, <1>10
  <2>5. keys \ missing \subseteq seen[c] \cup PresentNext(start)
    BY Zenon, <1>9, <2>1, <2>4 DEF blobMapVars, Blobs!NextBlock
  <2>6. returned # None /\ clients'[c] = returned
    BY Zenon, <1>2, <2>1, <2>3, NoStates DEF ClientState
  <2>7. LockStep(c)
    BY Zenon, <2>1, <2>6 DEF LockStep, Unlock
  <2> HIDE DEF returned
  <2> QED  BY ZenonT(30), <1>2, <2>1, <2>2, <2>3, <2>5, <2>7, Searching
<1>11. CASE n # Len(todo) + 1
  <2>1. AllocateCopy(c, todo[n], state)
    BY ZenonT(30), <1>6, <1>11
  <2>2. n \in 1 .. Len(todo) /\ todo[n] \in Key /\ IsOld(map', todo[n])
    BY Zenon, <1>3, <1>5, <1>6, <1>11
  <2>3. toBeReleased' = toBeReleased /\ Blobs!NextBlock' = Blobs!NextBlock
    <3> HIDE DEF state
    <3> QED  BY Zenon, <1>2, <2>1, <2>2, BlocksKept
  <2>4. map'[todo[n]] \in Location
    BY Zenon, <2>2 DEF IsOld, IsMissing, Lookup
  <2> DEFINE rest == SubSeq(todo, n + 1, Len(todo))
  <2>5. /\ rest \in Seq(Key) /\ \A i \in n + 1 .. Len(todo) : todo[i] \in Range(rest)
    BY Zenon, <1>1, <2>2, Remainder
  <2> HIDE DEF rest
  <2>6. ASSUME NEW location \in Location, NEW after, after = [state EXCEPT !.target = location]
        PROVE  /\ after \in RefreshState
               /\ after.at = "copy" /\ after.key = todo[n] /\ after.target = location
               /\ after.start <= oldEnd
               /\ after.keys \ Remaining(after) \subseteq seen[c] \cup PresentNext(after.start)
    <3>1. after = [op |-> "find", at |-> "copy", keys |-> keys, todo |-> rest, missing |-> missing,
                   start |-> start, key |-> todo[n], source |-> map'[todo[n]], target |-> location]
      BY ZenonT(30), <2>6 DEF rest, missing
    <3>2. after \in RefreshState
      BY Zenon, <1>1, <1>8, <2>2, <2>4, <2>5, <3>1 DEF RefreshState
    <3>3. Remaining(after) = missing \cup Range(rest) \cup {todo[n]}
      BY Zenon, <3>1 DEF Remaining
    <3>4. after.keys = keys /\ after.start = start
      BY Zenon, <3>1
    <3>5. ASSUME NEW k \in keys \ (missing \cup Range(rest) \cup {todo[n]})
          PROVE  \A i \in n .. Len(todo) : k # todo[i]
      BY SMTT(30), <1>3, <2>2, <2>5
    <3>6. keys \ (missing \cup Range(rest) \cup {todo[n]}) \subseteq seen[c] \cup PresentNext(start)
      BY Zenon, <1>9, <2>3, <3>5
    <3> QED  BY ZenonT(30), <1>2, <3>1, <3>2, <3>3, <3>4, <3>6
  <2>7. ToCopy(c, todo[n], state)
    <3> HIDE DEF state
    <3> QED  BY Zenon, <2>6 DEF ToCopy
  <2> HIDE DEF state
  <2> QED  BY Zenon, <2>1, <2>2, <2>7, CopyStarts
<1> QED  BY Zenon, <1>10, <1>11

\* FindMissing() obtains the refresh lock.
LEMMA SearchesAgain ==
    ASSUME FlatInv, RecordSeen, NEW c \in Client, FindMissingRefresh(c)
    PROVE  FlatInv'
<1>1. clients[c] \in WaitState /\ IsFinding(clients[c])
  <2>1. clients[c] \in WaitState
    BY Zenon, Typed, StateAt DEF FindMissingRefresh
  <2> QED  BY Zenon, <2>1, NoStates DEF IsFinding, WaitState, ClientState
<1>2. UNCHANGED <<map, cells, completed>>
  BY Zenon DEF FindMissingRefresh, history
<1>3. FindMissingScan(c, map', clients[c].todo)
  <2>1. FindMissingScan(c, map, clients[c].todo) /\ map' = map
    BY Zenon, <1>2 DEF FindMissingRefresh
  <2> QED  BY Zenon, <2>1
<1>4. SeenSoFar(c)
  <2>1. clients[c].keys \ Remaining(clients[c]) \subseteq seen[c] /\ clients[c].at = "wait"
    BY Zenon, <1>1 DEF FlatInv, FindingsSeen, WaitState
  <2> QED  BY Zenon, <2>1 DEF SeenSoFar, Remaining
<1>5. map' \in [Key -> Location \cup {None}] /\ (BlocksAdvance => EntriesFitNext /\ EntriesFrom(c))
  BY Zenon, <1>2, EntriesStay DEF FlatInv, TypeOK
<1> QED  BY Zenon, <1>1, <1>2, <1>3, <1>4, <1>5, Scanning

\* FindMissing() stores a copy and goes on scanning.
LEMMA FindFinalizes ==
    ASSUME FlatInv, RecordSeen, NEW c \in Client, FindMissingFinalize(c)
    PROVE  FlatInv'
<1> DEFINE key == clients[c].key
           target == clients[c].target
           start == clients[c].start
<1>1. Is(c, "finalize") /\ clients[c].op = "find" /\ UNCHANGED <<cells, completed>>
  BY Zenon DEF FindMissingFinalize, history
<1>2. clients[c] \in RefreshState /\ clients[c].at = "finalize"
  BY Zenon, <1>1, Typed, StateAt DEF PutState, CopyState
<1>3. CASE FinalizerFails(target)
  BY Zenon, <1>1, <1>3, BlocksStay, Ending DEF FindMissingFinalize, FlatInv
<1>4. CASE ~FinalizerFails(target)
  <2>1. map' = Map!Stored(map, key, target) /\ FindMissingScan(c, map', clients[c].todo)
    BY Zenon, <1>4 DEF FindMissingFinalize
  <2>2. BlocksAdvance => EntriesFitNext /\ EntriesFrom(c)
    BY Zenon, <1>1, <2>1, Finalizing
  <2>3. /\ map' \in [Key -> Location \cup {None}] /\ map'[key] # None
        /\ target.block <= map'[key].block /\ Fits(map'[key], key)
    BY SMTT(30), <1>1, <1>2, <2>1, Stores DEF RefreshState
  <2>4. SeenSoFar(c)
    <3> SUFFICES ASSUME toBeReleased' = toBeReleased, Blobs!NextBlock' = Blobs!NextBlock
                 PROVE  clients[c].keys \ (clients[c].missing \cup Range(clients[c].todo))
                           \subseteq seen[c] \cup PresentNext(start)
      BY Zenon DEF SeenSoFar
    <3>1. /\ start <= target.block
          /\ clients[c].keys \ Remaining(clients[c]) \subseteq seen[c]
      BY Zenon, <1>1, <1>2 DEF FlatInv, FindingsSeen, IsFinding, HasTarget, Is
    <3>2. Remaining(clients[c]) = clients[c].missing \cup Range(clients[c].todo) \cup {key}
      BY Zenon, <1>2 DEF Remaining
    <3>3. toBeReleased <= target.block /\ toBeReleased \in Nat /\ target.block \in Nat
      BY SMTT(30), <1>2, <1>4 DEF FinalizerFails, RefreshState, Location, FlatInv, BlocksInOrder
    <3>4. key \in Key /\ start \in Nat /\ map'[key].block \in Nat /\ map'[key].block < Blobs!NextBlock
      BY SMTT(30), <1>2, <2>3 DEF RefreshState, Fits, Location
    <3>5. key \in PresentNext(start)
      BY SMTT(30), <2>3, <3>1, <3>3, <3>4 DEF PresentNext
    <3> QED  BY Zenon, <3>1, <3>2, <3>5
  <2> QED  BY Zenon, <1>1, <1>2, <2>1, <2>2, <2>3, <2>4, Scanning
<1> QED  BY Zenon, <1>3, <1>4

----------------------------------------------------------------------------
(* GetFromComposite.                                                       *)

\* Where slices end up: within blocks, and only under the keys of slices.
LEMMA SlicesStored ==
    ASSUME BlocksInOrder, NEW m \in [Key -> Location \cup {None}],
           \A k \in Key : m[k] # None => Fits(m[k], k),
           NEW parent \in Key, NEW index \in Nat, NEW offset \in Nat,
           offset + SizeBytes(parent) <= BlockSize
    PROVE  /\ StoredSlices(m, parent, index, offset) \in [Key -> Location \cup {None}]
           /\ \A k \in Key : StoredSlices(m, parent, index, offset)[k] # None =>
                 Fits(StoredSlices(m, parent, index, offset)[k], k)
           /\ \A k \in Key \ SliceKeys : StoredSlices(m, parent, index, offset)[k] = m[k]
<1> DEFINE n == StoredSlices(m, parent, index, offset)
<1>1. ASSUME NEW k \in Key
      PROVE  /\ n[k] \in Location \cup {None}
             /\ n[k] # None => Fits(n[k], k)
             /\ k \notin SliceKeys => n[k] = m[k]
  <2>1. CASE LastSlices(parent, k) = {} /\ k \notin SliceKeys
    BY Zenon, <2>1 DEF StoredSlices
  <2>3. CASE LastSlices(parent, k) = {} /\ k \in SliceKeys
    BY Zenon, <2>3 DEF StoredSlices
  <2>2. CASE LastSlices(parent, k) # {}
    <3> DEFINE slice == CHOOSE i \in LastSlices(parent, k) : TRUE
               last == Slices[parent][slice].offset
               location == [block |-> released + index, offset |-> offset + last]
    <3>1. n[k] = StoredByIndex(m, k, index, offset + last)[k]
      BY Zenon, <2>2 DEF StoredSlices
    <3>a. slice \in DOMAIN Slices[parent] /\ Slices[parent][slice].key = k
      BY Zenon, <2>2 DEF LastSlices
    <3> HIDE DEF slice
    <3>2. k \in SliceKeys
      BY Zenon, <3>a, SlicesLie
    <3>3. last \in Nat /\ last + SizeBytes(k) <= SizeBytes(parent)
      BY Zenon, <3>a, SlicesLie
    <3> HIDE DEF last
    <3>4. CASE released + index < Blobs!NextBlock
      <4>1. location \in Location /\ location.offset + SizeBytes(k) <= BlockSize
        <5>1. SizeBytes(k) \in Nat /\ SizeBytes(parent) \in Nat /\ BlockSize \in Nat /\ MaxBlocks \in Nat
          BY Zenon, Sizes, FlatAssumption
        <5>2. released + index \in 0 .. MaxBlocks - 1
          BY SMTT(30), <3>4, <5>1 DEF BlocksInOrder, Blobs!NextBlock
        <5>3. offset + last \in 0 .. BlockSize /\ offset + last + SizeBytes(k) <= BlockSize
          BY SMTT(30), <3>3, <5>1
        <5> QED  BY Zenon, <5>2, <5>3 DEF Location
      <4>2. Fits(location, k)
        BY Zenon, <3>4, <4>1 DEF Fits
      <4>3. n[k] = location \/ n[k] = m[k]
        BY Zenon, <3>1, <3>4 DEF StoredByIndex, Map!Stored
      <4> HIDE DEF location
      <4> QED  BY Zenon, <3>2, <4>1, <4>2, <4>3
    <3>5. CASE ~(released + index < Blobs!NextBlock)
      BY Zenon, <3>1, <3>2, <3>5 DEF StoredByIndex
    <3> QED  BY Zenon, <3>4, <3>5
  <2> QED  BY Zenon, <2>1, <2>2, <2>3
<1>2. n = [k \in Key |-> n[k]]
  BY SMTT(30) DEF StoredSlices
<1> HIDE DEF n
<1> QED  BY Zenon, <1>1, <1>2 DEF n

\* Slices are stored along with their parent.
LEMMA SlicesFollow ==
    ASSUME FlatInv, RecordSeen, NEW c \in Client, UNCHANGED <<blobMapVars, cells, completed>>, Return(c),
           NEW m \in [Key -> Location \cup {None}],
           \A k \in Key : m[k] # None => Fits(m[k], k),
           \A k \in Key \ SliceKeys : m[k] # None =>
               \/ m[k] = map[k]
               \/ Is(c, "finalize") /\ k = clients[c].key /\ m[k] = clients[c].target,
           NEW parent \in Key, NEW index \in Nat, NEW location, Fits(location, parent),
           map' = StoredSlices(m, parent, index, location.offset)
    PROVE  FlatInv'
<1>1. BlocksInOrder /\ completed' \subseteq Data
  BY Zenon DEF FlatInv
<1>2. location.offset \in Nat /\ location.offset + SizeBytes(parent) <= BlockSize
  BY SMTT(30) DEF Fits, Location
<1>3. /\ map' \in [Key -> Location \cup {None}]
      /\ \A k \in Key : map'[k] # None => Fits(map'[k], k)
      /\ \A k \in Key \ SliceKeys : map'[k] = m[k]
  BY SMTT(30), <1>1, <1>2, SlicesStored
<1>4. BlocksAdvance
  BY Zenon, <1>1, BlocksStay
<1>5. EntriesFitNext
  BY Zenon, <1>1, <1>3, <1>4, FitsLater DEF EntriesFitNext
<1>6. EntriesFrom(c)
  BY Zenon, <1>3 DEF EntriesFrom, WholeKeys
<1> QED  BY Zenon, <1>1, <1>3, <1>4, <1>5, <1>6, Returning

\* GetFromComposite() stores slices.
LEMMA StoresSlices ==
    ASSUME FlatInv, RecordSeen, NEW c \in Client, StoreSlices(c) \/ GetFromCompositeFinalize(c)
    PROVE  FlatInv'
<1>1. /\ BlocksInOrder /\ map \in [Key -> Location \cup {None}] /\ EntriesFit /\ ParentsFit
      /\ clients \in [Client -> ClientState \cup {None}] /\ SpaceTaken
  BY Zenon DEF FlatInv, TypeOK
<1>2. CASE StoreSlices(c)
  <2>1. /\ Is(c, "sliced") /\ Return(c) /\ UNCHANGED <<blobMapVars, cells, completed>>
        /\ map' = StoredSlices(map, clients[c].key, clients[c].index, clients[c].source.offset)
    BY Zenon, <1>2 DEF StoreSlices, history
  <2>2. clients[c] \in SliceState /\ IsSlicing(clients[c])
    BY Zenon, <2>1, Typed, StateAt DEF IsSlicing, Is
  <2>3. /\ clients[c].key \in Key /\ clients[c].index \in Nat
        /\ Fits(clients[c].source, clients[c].key)
    BY Zenon, <1>1, <2>2 DEF SliceState, ParentsFit
  <2>4. \A k \in Key : map[k] # None => Fits(map[k], k)
    BY Zenon, <1>1 DEF EntriesFit
  <2> QED  BY Zenon, <1>1, <2>1, <2>3, <2>4, SlicesFollow
<1>3. CASE GetFromCompositeFinalize(c)
  <2> DEFINE parent == clients[c].key
             target == clients[c].target
  <2>1. Is(c, "finalize") /\ Return(c) /\ UNCHANGED <<blobMapVars, cells, completed>>
    BY Zenon, <1>3 DEF GetFromCompositeFinalize, history
  <2>2. CASE FinalizerFails(target)
    BY Zenon, <1>1, <1>3, <2>1, <2>2, BlocksStay, Ending DEF GetFromCompositeFinalize
  <2>3. CASE ~FinalizerFails(target)
    <3> DEFINE m == Map!Stored(map, parent, target)
               index == target.block - released
    <3>1. map' = StoredSlices(m, parent, index, target.offset)
      BY Zenon, <1>3, <2>3 DEF GetFromCompositeFinalize, Blobs!BlockIndex
    <3>2. HasTarget(clients[c])
      BY Zenon, <2>1 DEF Is, HasTarget
    <3>3. parent \in Key /\ target \in Location /\ Fits(target, parent)
      BY Zenon, <1>1, <3>2, TargetTyped DEF SpaceTaken, Taken
    <3>4. index \in Nat
      BY SMTT(30), <1>1, <2>3, <3>3 DEF FinalizerFails, Location, BlocksInOrder
    <3>5. /\ m \in [Key -> Location \cup {None}]
          /\ \A k \in Key : m[k] # None => Fits(m[k], k)
          /\ \A k \in Key : m[k] = map[k] \/ (k = parent /\ m[k] = target)
      BY Zenon, <2>1, Stores
    <3> HIDE DEF m, index
    <3> QED  BY Zenon, <2>1, <3>1, <3>3, <3>4, <3>5, SlicesFollow
  <2> QED  BY Zenon, <2>2, <2>3
<1> QED  BY Zenon, <1>2, <1>3

\* GetFromComposite() with only the read lock held.
LEMMA GetsFromComposite ==
    ASSUME FlatInv, RecordSeen, NEW c \in Client, NEW parent \in Key, NEW child \in Key,
           GetFromComposite(c, parent, child)
    PROVE  FlatInv'
<1> DEFINE reading == [op |-> "composite", at |-> "read", key |-> child, source |-> Lookup(map, child)]
           locking == [op |-> "composite", at |-> "lock", key |-> parent, child |-> child]
<1>1. UNCHANGED <<blobMapVars, map, cells, refreshLock, completed>>
  BY Zenon DEF GetFromComposite, history
<1>2. CASE ~IsMissing(map, child) /\ Continue(c, reading)
  <2>1. reading \in ReadState
    BY Zenon, <1>2, Found DEF IsMissing, ReadState
  <2> HIDE DEF reading
  <2> QED  BY ZenonT(30), <1>1, <1>2, <2>1, Proceeding DEF Continue
<1>3. CASE Continue(c, locking)
  <2>1. locking \in LockState
    BY Zenon DEF LockState
  <2> HIDE DEF locking
  <2> QED  BY ZenonT(30), <1>1, <1>3, <2>1, Proceeding DEF Continue
<1> QED  BY ZenonT(30), <1>2, <1>3 DEF GetFromComposite

\* A parent is about to be sliced, or has been.
LEMMA Slicing ==
    ASSUME FlatInv, RecordSeen, NEW c \in Client, NEW after \in SliceState,
           clients' = [clients EXCEPT ![c] = after], Fits(after.source, after.key),
           refreshLock' \in {refreshLock, c}, UNCHANGED <<blobMapVars, map, cells, completed>>
    PROVE  FlatInv'
<1>1. BlocksInOrder /\ BlocksAdvance
  BY Zenon, BlocksStay DEF FlatInv
<1>2. after \in ClientState /\ after.at \in {"slice", "sliced"} /\ after.op # "find"
  BY Zenon DEF ClientState, SliceState
<1>3. clients'[c] = after /\ completed' \subseteq Data
  BY Zenon DEF FlatInv, TypeOK
<1>4. FitsNext(after.source, after.key)
  BY Zenon, <1>1, FitsLater
<1>5. TargetFrom(c) /\ FoundSoFar(c) /\ ParentFrom(c)
  BY Zenon, <1>2, <1>3, <1>4 DEF TargetFrom, FoundSoFar, ParentFrom, HasTarget, IsFinding
<1>6. LockStep(c)
  BY Zenon, <1>2, <1>3, NoStates DEF LockStep
<1>7. map' \in [Key -> Location \cup {None}] /\ EntriesFitNext /\ EntriesFrom(c)
  BY Zenon, <1>1, EntriesStay
<1> QED  BY ZenonT(30), <1>1, <1>2, <1>3, <1>5, <1>6, <1>7, ClientStep

\* GetFromComposite() with the refresh lock held.
LEMMA LocksComposite ==
    ASSUME FlatInv, RecordSeen, NEW c \in Client, GetFromCompositeLocked(c)
    PROVE  FlatInv'
<1> DEFINE parent == clients[c].key
           child == clients[c].child
           location == Lookup(map, parent)
           reading == [op |-> "composite", at |-> "read", key |-> child, source |-> Lookup(map, child)]
           slicing == [op |-> "composite", at |-> "slice", key |-> parent, source |-> location,
                       index |-> Blobs!BlockIndex(location.block)]
<1>1. clients[c] \in LockState
  BY Zenon, Typed, StateAt DEF GetFromCompositeLocked
<1>2. parent \in Key /\ child \in Key
  BY Zenon, <1>1 DEF LockState
<1>3. UNCHANGED <<map, cells, completed>>
  BY ZenonT(30) DEF GetFromCompositeLocked, history
<1>4. CASE Return(c) /\ UNCHANGED blobMapVars
  BY ZenonT(30), <1>3, <1>4, BlocksStay, Ending DEF FlatInv
<1>5. CASE /\ IsOld(map, parent)
           /\ AllocateCopy(c, parent, [op |-> "composite", at |-> "copy", key |-> parent,
                                       source |-> location, target |-> None])
  <2>1. location \in Location
    BY ZenonT(30), <1>2, <1>5, Found DEF IsOld, IsMissing
  <2> QED  BY ZenonT(30), <1>2, <1>3, <1>5, <2>1, CopyPlainly
<1>6. CASE ~IsMissing(map, child) /\ Continue(c, reading) /\ UNCHANGED <<blobMapVars, refreshLock>>
  <2>1. reading \in ReadState
    BY Zenon, <1>2, <1>6, Found DEF IsMissing, ReadState
  <2> HIDE DEF reading
  <2> QED  BY Zenon, <1>3, <1>6, <2>1, Proceeding DEF Continue
<1>7. CASE location # None /\ Continue(c, slicing) /\ refreshLock' = c /\ UNCHANGED blobMapVars
  <2>1. /\ location \in Location /\ Fits(location, parent)
        /\ toBeReleased <= location.block
    BY Zenon, <1>2, <1>7, Found DEF Blobs!Resolvable
  <2>2. Blobs!BlockIndex(location.block) \in Nat
    BY SMTT(30), <2>1 DEF Location, Blobs!BlockIndex, FlatInv, BlocksInOrder
  <2> HIDE DEF location
  <2>3. slicing \in SliceState /\ slicing.source = location /\ slicing.key = parent
    BY Zenon, <1>2, <2>1, <2>2 DEF SliceState
  <2> HIDE DEF slicing
  <2> QED  BY ZenonT(30), <1>3, <1>7, <2>1, <2>3, Slicing DEF Continue
<1> QED  BY ZenonT(30), <1>4, <1>5, <1>6, <1>7 DEF GetFromCompositeLocked

\* The parent is sliced without holding the lock.
LEMMA SlicesParent ==
    ASSUME FlatInv, RecordSeen, NEW c \in Client, Slice(c)
    PROVE  FlatInv'
<1>1. clients[c] \in SliceState /\ IsSlicing(clients[c]) /\ clients[c].source.block \in Nat
  BY Zenon, Typed, StateAt, SourceTyped DEF Slice, Is, IsSlicing
<1>2. UNCHANGED <<map, cells, completed>>
  BY Zenon DEF Slice, history
<1>3. CASE IsIntact(clients[c].source, clients[c].key)
  <2> DEFINE after == [clients[c] EXCEPT !.at = "sliced"]
  <2>1. after \in SliceState /\ after.source = clients[c].source /\ after.key = clients[c].key
    BY Zenon, <1>1 DEF SliceState
  <2>2. Fits(clients[c].source, clients[c].key)
    BY Zenon, <1>1 DEF FlatInv, ParentsFit
  <2>3. clients' = [clients EXCEPT ![c] = after] /\ UNCHANGED <<blobMapVars, refreshLock>>
    BY Zenon, <1>3 DEF Slice, Continue
  <2> HIDE DEF after
  <2> QED  BY ZenonT(30), <1>2, <2>1, <2>2, <2>3, Slicing
<1>4. CASE ~IsIntact(clients[c].source, clients[c].key)
  <2>1. BlocksAdvance
    BY Zenon, <1>1, <1>4, CorruptionFound DEF Slice, FlatInv
  <2> QED  BY Zenon, <1>2, <1>4, <2>1, Ending DEF Slice
<1> QED  BY Zenon, <1>3, <1>4

----------------------------------------------------------------------------
(* The environment, and the result.                                        *)

\* Data is corrupted or blocks are released, without any operation being involved.
LEMMA EnvironmentKeeps ==
    ASSUME FlatInv, RecordSeen, BlocksAdvance, UNCHANGED <<map, cells, clients, refreshLock, completed>>
    PROVE  FlatInv'
<1>1. /\ BlocksInOrder /\ TypeOK /\ DOMAIN cells = 0 .. MaxBlocks - 1 /\ completed \subseteq Data
      /\ EntriesFit /\ ParentsFit /\ SpaceTaken /\ SpaceExclusive
      /\ EntriesComplete /\ CopiesComplete /\ UploadsComplete /\ FindingsSeen
  BY Zenon DEF FlatInv
<1>2. PICK c \in Client : TRUE
  BY Zenon, FlatAssumption
<1>3. /\ clients' \in [Client -> ClientState \cup {None}]
      /\ \A d \in Client \ {c} : clients'[d] = clients[d]
  BY Zenon, <1>1 DEF TypeOK
<1>4. map' \in [Key -> Location \cup {None}] /\ EntriesFitNext /\ EntriesFrom(c)
  BY Zenon, EntriesStay
<1>5. TargetFrom(c) /\ LockStep(c)
  BY Zenon, <1>1, NoStates DEF TargetFrom, LockStep, TypeOK
<1>6. ParentFrom(c)
  <2>1. IsSlicing(clients[c]) => Fits(clients[c].source, clients[c].key)
    BY Zenon, <1>1 DEF ParentsFit
  <2>2. IsSlicing(clients[c]) => FitsNext(clients[c].source, clients[c].key)
    BY Zenon, <1>1, <2>1, FitsLater
  <2> QED  BY Zenon, <2>2 DEF ParentFrom
<1>7. FoundSoFar(c)
  <2> SUFFICES ASSUME IsFinding(clients[c])  PROVE  FoundSoFar(c)
    BY Zenon DEF FoundSoFar
  <2>1. /\ clients[c].start <= oldEnd
        /\ clients[c].keys \ Remaining(clients[c]) \subseteq seen[c]
        /\ HasTarget(clients[c]) => clients[c].start <= clients[c].target.block
    BY Zenon, <1>1 DEF FindingsSeen
  <2>2. clients[c].start \in Nat
    BY Zenon, <1>1, FindingTyped DEF TypeOK
  <2>3. clients[c].start <= oldEnd'
    BY SMTT(30), <1>1, <2>1, <2>2 DEF BlocksInOrder, BlocksAdvance
  <2> QED  BY Zenon, <2>1, <2>3 DEF FoundSoFar
<1>8. SpaceTaken' /\ SpaceExclusive'
  BY Zenon, <1>3, <1>4, <1>5, SpaceStep
<1>9. EntriesComplete' /\ CopiesComplete' /\ UploadsComplete'
  BY Zenon, <1>1 DEF EntriesComplete, CopiesComplete, UploadsComplete, WholeKeys, DataAt, Is
<1>10. FindingsSeen' /\ DOMAIN seen' = Client
  BY Zenon, <1>3, <1>7, FindingStep
<1>11. BlocksInOrder' /\ TypeOK'
  BY Zenon, <1>3, <1>4, <1>5, TypeStep
<1>12. ParentsFit' /\ EntriesFit'
  BY Zenon, <1>3, <1>4, <1>6, ParentStep
<1> QED  BY Zenon, <1>1, <1>8, <1>9, <1>10, <1>11, <1>12 DEF FlatInv

\* The map is empty, and there are no operations.
LEMMA FlatInitially ==
    ASSUME Init
    PROVE  FlatInv
<1>1. BlocksInOrder
  BY SMTT(30), FlatAssumption DEF Init, BlocksInOrder, Blobs!NextBlock
<1>2. TypeOK
  BY SMTT(30), <1>1 DEF Init, BlocksInOrder, TypeOK
<1>3. \A c \in Client : clients[c] = None
  BY Zenon DEF Init
<1>4. WholeKeys = {} /\ EntriesFit
  BY Zenon DEF Init, WholeKeys, EntriesFit
<1>5. DOMAIN cells = 0 .. MaxBlocks - 1 /\ DOMAIN seen = Client /\ completed \subseteq Data
  BY Zenon DEF Init
<1>6. ParentsFit /\ SpaceTaken /\ SpaceExclusive /\ FindingsSeen
  BY ZenonT(30), <1>3, <1>4, NoStates
     DEF ParentsFit, SpaceTaken, SpaceExclusive, FindingsSeen, IsWriting
<1>7. EntriesComplete /\ CopiesComplete /\ UploadsComplete
  BY Zenon, <1>3, <1>4 DEF EntriesComplete, CopiesComplete, UploadsComplete, Is
<1> QED  BY Zenon, <1>1, <1>2, <1>4, <1>5, <1>6, <1>7 DEF FlatInv

\* Nothing happens.
LEMMA FlatStuttering ==
    ASSUME FlatInv, UNCHANGED vars
    PROVE  FlatInv'
<1>1. UNCHANGED <<released, toBeReleased, oldEnd, used, map, cells, clients, refreshLock, seen, completed>>
  BY Zenon DEF vars, blobMapVars, history
<1>2. BlocksInOrder' /\ TypeOK' /\ EntriesFit' /\ ParentsFit'
  BY Zenon, <1>1 DEF FlatInv, BlocksInOrder, TypeOK, EntriesFit, ParentsFit, Fits, Blobs!NextBlock
<1>3. SpaceTaken' /\ SpaceExclusive'
  BY ZenonT(30), <1>1 DEF FlatInv, SpaceTaken, SpaceExclusive, WholeKeys, Taken, Fits, Blobs!NextBlock
<1>4. EntriesComplete' /\ CopiesComplete' /\ UploadsComplete' /\ FindingsSeen'
  BY Zenon, <1>1 DEF FlatInv, EntriesComplete, CopiesComplete, UploadsComplete, FindingsSeen, WholeKeys,
     DataAt, Is
<1> QED  BY Zenon, <1>1, <1>2, <1>3, <1>4 DEF FlatInv

\* Every step preserves the invariant.
LEMMA FlatNext ==
    ASSUME FlatInv, Next
    PROVE  FlatInv'
<1>1. CASE BlocksMove /\ RecordSeen
  BY Zenon, <1>1, BlocksMoveOn, EnvironmentKeeps DEF FlatInv, BlocksMove, history
<1>2. ASSUME NEW block, Damage(block), RecordSeen
      PROVE  FlatInv'
  BY Zenon, <1>2, BlocksStay, EnvironmentKeeps DEF FlatInv, Damage, history
<1>3. ASSUME NEW c \in Client, Start(c)
      PROVE  FlatInv'
  <2>1. ASSUME NEW parent \in Key, NEW i \in DOMAIN Slices[parent],
               GetFromComposite(c, parent, Slices[parent][i].key), RecordSeen
        PROVE  FlatInv'
    BY Zenon, <2>1, SlicesLie, GetsFromComposite
  <2> QED  BY ZenonT(30), <1>3, <2>1, Puts, Gets, Searches DEF Start
<1>4. ASSUME NEW c \in Client, Proceed(c)
      PROVE  FlatInv'
  BY SMTT(30), <1>4, Fails, CopyAndWrite, Finalizes, GetsAgain, SearchesAgain, FindFinalizes,
     LocksComposite, SlicesParent, StoresSlices DEF Proceed
<1> QED  BY Zenon, <1>1, <1>2, <1>3, <1>4 DEF Next, Environment

\* Whatever clients store, refresh, search for and slice at the same time, and
\* whichever blocks are released or damaged meanwhile: the entries that
\* FlatBlobAccess stored as a whole lead to data of their key, and the blocks,
\* the entries and the refresh lock are consistent.
THEOREM EntryConsistency == Spec => []EntriesConsistent
<1>1. Init => FlatInv
  BY Zenon, FlatInitially
<1>2. FlatInv /\ [Next]_vars => FlatInv'
  BY Zenon, FlatNext, FlatStuttering
<1>3. FlatInv => EntriesConsistent
  <2> SUFFICES ASSUME FlatInv  PROVE  EntriesConsistent
    BY Zenon
  <2>1. ASSUME NEW k \in Key \ SliceKeys, ~IsMissing(map, k)
        PROVE  DataAt(map[k], k) \in Contents[k]
    <3>1. k \in WholeKeys
      BY SMTT(30), <2>1 DEF IsMissing, Lookup, WholeKeys
    <3> QED  BY Zenon, <3>1 DEF FlatInv, EntriesComplete
  <2> QED  BY Zenon, <2>1 DEF EntriesConsistent, EntriesLeadToTheirBlob, FlatInv
<1> QED  BY <1>1, <1>2, <1>3, PTL DEF Spec

\* A blob that FindMissing() does not report as missing was present, while the
\* call was in progress, in a block that was not "old" when it was called.
THEOREM BlobsKeptAlive == Spec => []PresentBlobsRefreshed
<1>1. Init => FlatInv
  BY Zenon, FlatInitially
<1>2. FlatInv /\ [Next]_vars => FlatInv'
  BY Zenon, FlatNext, FlatStuttering
<1>3. FlatInv => PresentBlobsRefreshed
  <2> SUFFICES ASSUME FlatInv, NEW c \in Client, Is(c, "returned")
               PROVE  clients[c].keys \ clients[c].missing \subseteq seen[c]
    BY Zenon DEF PresentBlobsRefreshed
  <2>1. clients[c] \in ReturnedState /\ clients[c] # None /\ clients[c].at = "returned"
    BY Zenon, Typed, StateAt DEF Is
  <2>2. IsFinding(clients[c])
    BY Zenon, <2>1 DEF IsFinding, ReturnedState
  <2>3. clients[c].keys \ Remaining(clients[c]) \subseteq seen[c]
    BY Zenon, <2>2 DEF FlatInv, FindingsSeen
  <2> QED  BY Zenon, <2>1, <2>3 DEF Remaining
<1> QED  BY <1>1, <1>2, <1>3, PTL DEF Spec
=============================================================================
