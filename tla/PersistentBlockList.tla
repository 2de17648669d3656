------------------------ MODULE PersistentBlockList ------------------------
(***************************************************************************)
(* PersistentBlockList (pkg/blobstore/local/persistent_block_list.go): the *)
(* list of blocks that hold the data of a persistent local storage         *)
(* backend, and the epochs that give entries of the key-location map their *)
(* meaning.  Every method runs while the caller holds the storage lock, so *)
(* every method is one atomic action.  The code that calls them (the blob  *)
(* map, the allocator, the syncer) is left unconstrained here; module      *)
(* PersistentStorage composes this module with the real callers.           *)
(*                                                                         *)
(* Sequences of TLA+ start at 1 and slices of Go at 0: element i of        *)
(* bl.blocks is blocks[i + 1].                                             *)
(***************************************************************************)
EXTENDS Integers, Sequences, Functions

CONSTANTS
    Location,        \* block locations on the block device
    Seed,            \* values of an epoch's random hash seed
    BlockSize,       \* size of a block in bytes
    EpochIDs,        \* number of epoch IDs; 2^32 in the code (uint32)
    MaxEpochs,       \* bound: epochs that are live at the same time
    MaxReleases,     \* bound: blocks released since the program was started
    InitialState     \* persistent states the list may be restored from

ASSUME BlockSizeAssumption == BlockSize \in Nat

ASSUME MaxReleasesAssumption == MaxReleases \in Nat

\* Epoch IDs are compared modulo EpochIDs.  A reference can only be
\* interpreted unambiguously if the live epochs are not all of them.
ASSUME EpochAssumption ==
    /\ EpochIDs \in Nat
    /\ MaxEpochs \in Nat
    /\ 0 < MaxEpochs
    /\ MaxEpochs < EpochIDs

VARIABLES
    blocks,                       \* Seq of persistentBlockInfo
    epochHashSeeds,               \* Seq(Seed)
    epochLastAbsoluteBlockIndex,  \* Seq(Nat)
    totalBlocksReleased,
    oldestEpochID,
    synchronizingEpochs,
    synchronizedEpochs,
    blockPutWakeup,               \* blockPutWakeup.isBlocking
    blocksToRelease,              \* Seq(Location)
    blocksReleasing,
    blockReleaseWakeup,           \* blockReleaseWakeup.isBlocking
    closedForWriting

epochVars == <<epochHashSeeds, epochLastAbsoluteBlockIndex, oldestEpochID>>
syncVars == <<synchronizingEpochs, synchronizedEpochs, blockPutWakeup>>
releaseVars == <<blocksToRelease, blocksReleasing, blockReleaseWakeup>>

blockListVars == <<blocks, epochVars, totalBlocksReleased, syncVars,
                   releaseVars, closedForWriting>>

EpochID == 0 .. EpochIDs - 1

\* persistentBlockInfo; the block object is identified with its location.
BlockInfo == [location: Location,
              writtenOffsetBytes: 0 .. BlockSize,
              synchronizingOffsetBytes: 0 .. BlockSize,
              synchronizedOffsetBytes: 0 .. BlockSize,
              epochCount: Nat]

\* An element of PersistentState.blocks.
BlockState == [location: Location,
               writeOffsetBytes: 0 .. BlockSize,
               epochHashSeeds: Seq(Seed)]

----------------------------------------------------------------------------
(* Arithmetic on uint32 epoch IDs, for operands that differ by less than   *)
(* EpochIDs.                                                               *)

EpochAdd(id, n) ==
    IF id + n >= EpochIDs THEN id + n - EpochIDs ELSE id + n

EpochSub(id, oldest) ==
    IF id < oldest THEN id - oldest + EpochIDs ELSE id - oldest

----------------------------------------------------------------------------
(* References.  A reference is [epochID, blocksFromLast].                  *)

\* BlockReferenceToBlockIndex, with the block index counted from one.
EpochIndex(ref) == EpochSub(ref.epochID, oldestEpochID) + 1

\* Mutant of LastBlockIndex: released blocks are not subtracted.
LastBlockIndexUnadjusted(e) == epochLastAbsoluteBlockIndex[e] + 1

LastBlockIndex(e) == epochLastAbsoluteBlockIndex[e] - totalBlocksReleased + 1

Resolves(ref) ==
    /\ EpochIndex(ref) <= Len(epochHashSeeds)
    /\ ref.blocksFromLast < LastBlockIndex(EpochIndex(ref))

BlockReferenceToBlockIndex(ref) ==
    LastBlockIndex(EpochIndex(ref)) - ref.blocksFromLast

ReferenceSeed(ref) == epochHashSeeds[EpochIndex(ref)]

\* BlockIndexToBlockReference: defined only when there is an epoch.
BlockIndexToBlockReference(index) ==
    LET last == Len(epochHashSeeds)
    IN  [epochID |-> EpochAdd(oldestEpochID, last - 1),
         blocksFromLast |-> LastBlockIndex(last) - index]

----------------------------------------------------------------------------
(* Persistent state and its restoration.                                   *)

\* EpochsUpTo(bs)[n] is the number of epochs of the first n elements of bs.
EpochsUpTo(bs) ==
    LET sum[n \in 0 .. Len(bs)] ==
            IF n = 0 THEN 0 ELSE sum[n - 1] + bs[n].epochCount
    IN  sum

\* The position in bs of the block that epoch e belongs to.
EpochOwner(bs, e) ==
    CHOOSE i \in DOMAIN bs : EpochsUpTo(bs)[i - 1] < e /\ e <= EpochsUpTo(bs)[i]

\* Mutant of PersistentBlocks: all epochs of the last block are included.
PersistentBlocksUnclipped ==
    LET upTo == EpochsUpTo(blocks)
        count == CHOOSE n \in 0 .. Len(blocks) :
                     /\ upTo[n] >= synchronizedEpochs
                     /\ \A m \in 0 .. n - 1 : upTo[m] < synchronizedEpochs
    IN  [i \in 1 .. count |->
            [location |-> blocks[i].location,
             writeOffsetBytes |-> blocks[i].synchronizedOffsetBytes,
             epochHashSeeds |-> SubSeq(epochHashSeeds, upTo[i - 1] + 1, upTo[i])]]

\* GetPersistentState: the blocks up to the last one that owns a synchronized
\* epoch, each with the synchronized epochs it owns.
PersistentBlocks ==
    LET upTo == EpochsUpTo(blocks)
        lastEpochIndex(n) ==
            IF upTo[n] > synchronizedEpochs THEN synchronizedEpochs ELSE upTo[n]
        count == CHOOSE n \in 0 .. Len(blocks) :
                     /\ upTo[n] >= synchronizedEpochs
                     /\ \A m \in 0 .. n - 1 : upTo[m] < synchronizedEpochs
    IN  [i \in 1 .. count |->
            [location |-> blocks[i].location,
             writeOffsetBytes |-> blocks[i].synchronizedOffsetBytes,
             epochHashSeeds |-> SubSeq(epochHashSeeds, lastEpochIndex(i - 1) + 1,
                                       lastEpochIndex(i))]]

RestoredBlock(b) ==
    [location |-> b.location,
     writtenOffsetBytes |-> b.writeOffsetBytes,
     synchronizingOffsetBytes |-> b.writeOffsetBytes,
     synchronizedOffsetBytes |-> b.writeOffsetBytes,
     epochCount |-> Len(b.epochHashSeeds)]

RestoredBlocks(bs) == [i \in DOMAIN bs |-> RestoredBlock(bs[i])]

RestoredEpochs(bs) == 1 .. EpochsUpTo(RestoredBlocks(bs))[Len(bs)]

RestoredOwner(bs, e) == EpochOwner(RestoredBlocks(bs), e)

\* The hash seeds of all blocks, one after the other.
RestoredSeeds(bs) ==
    [e \in RestoredEpochs(bs) |->
        LET i == RestoredOwner(bs, e)
        IN  bs[i].epochHashSeeds[e - EpochsUpTo(RestoredBlocks(bs))[i - 1]]]

RestoredLastBlocks(bs) ==
    [e \in RestoredEpochs(bs) |-> RestoredOwner(bs, e) - 1]

\* The fields of interest of PersistentState, in the limits of the bounds.
ASSUME InitialStateAssumption ==
    \A initial \in InitialState :
        /\ initial.oldestEpochID \in EpochID
        /\ initial.blocks \in Seq(BlockState)
        /\ Len(RestoredSeeds(initial.blocks)) <= MaxEpochs

\* NewPersistentBlockList, where restored is the prefix of the initial blocks
\* whose location the allocator was able to provide.
NewPersistentBlockList(initialOldestEpochID, restored) ==
    /\ blocks = RestoredBlocks(restored)
    /\ epochHashSeeds = RestoredSeeds(restored)
    /\ epochLastAbsoluteBlockIndex = RestoredLastBlocks(restored)
    /\ totalBlocksReleased = 0
    /\ oldestEpochID = initialOldestEpochID
    /\ synchronizingEpochs = Len(RestoredSeeds(restored))
    /\ synchronizedEpochs = Len(RestoredSeeds(restored))
    /\ blockPutWakeup = TRUE
    /\ blocksToRelease = <<>>
    /\ blocksReleasing = 0
    /\ blockReleaseWakeup = TRUE
    /\ closedForWriting = FALSE

Init == \E initial \in InitialState :
            NewPersistentBlockList(initial.oldestEpochID, initial.blocks)

----------------------------------------------------------------------------
(* Operations.                                                             *)

\* Mutant of DropEpochs: the counts are not adjusted.
DropNoEpochs(count, n) == count

\* The new value of a count of epochs when PopFront drops n of them.
DropEpochs(count, n) == IF n >= count THEN 0 ELSE count - n

PopFront ==
    /\ blocks # <<>>
    /\ LET n == Head(blocks).epochCount IN
       /\ blocks' = Tail(blocks)
       /\ blocksToRelease' = Append(blocksToRelease, Head(blocks).location)
       /\ blockReleaseWakeup' = FALSE
       /\ oldestEpochID' = EpochAdd(oldestEpochID, n)
       /\ epochHashSeeds' = SubSeq(epochHashSeeds, n + 1, Len(epochHashSeeds))
       /\ epochLastAbsoluteBlockIndex' =
              SubSeq(epochLastAbsoluteBlockIndex, n + 1,
                     Len(epochLastAbsoluteBlockIndex))
       /\ totalBlocksReleased' = totalBlocksReleased + 1
       /\ synchronizingEpochs' = DropEpochs(synchronizingEpochs, n)
       /\ synchronizedEpochs' = DropEpochs(synchronizedEpochs, n)
       /\ blockPutWakeup' = (\/ blockPutWakeup
                             \/ synchronizedEpochs' = Len(epochHashSeeds'))
    /\ UNCHANGED <<blocksReleasing, closedForWriting>>

\* PushBack, with the location that the BlockAllocator handed out.
PushBack(location) ==
    /\ ~closedForWriting
    /\ blocks' = Append(blocks, [location |-> location,
                                 writtenOffsetBytes |-> 0,
                                 synchronizingOffsetBytes |-> 0,
                                 synchronizedOffsetBytes |-> 0,
                                 epochCount |-> 0])
    /\ UNCHANGED <<epochVars, totalBlocksReleased, syncVars, releaseVars,
                   closedForWriting>>

RaiseOffset(old, new) == IF old < new THEN new ELSE old

\* Mutant of NeedsNewEpoch: case 2 is forgotten.
NeedsNewEpochIfSynchronizing(absoluteBlockIndex) ==
    Len(epochLastAbsoluteBlockIndex) = synchronizingEpochs

\* The condition under which a completed Put starts a new epoch.
NeedsNewEpoch(absoluteBlockIndex) ==
    Len(epochLastAbsoluteBlockIndex) # synchronizingEpochs =>
        epochLastAbsoluteBlockIndex[Len(epochLastAbsoluteBlockIndex)]
            < absoluteBlockIndex

\* The BlockListPutFinalizer of a Put into block absoluteBlockIndex that ends
\* at offset writtenOffset, in the case that it succeeds.  seed is the value
\* drawn from the random number generator if a new epoch is started.
PutFinalizer(absoluteBlockIndex, writtenOffset, seed) ==
    LET index == absoluteBlockIndex - totalBlocksReleased + 1
        written == [blocks EXCEPT ![index].writtenOffsetBytes =
                        RaiseOffset(@, writtenOffset)]
    IN
    /\ ~closedForWriting
    /\ absoluteBlockIndex >= totalBlocksReleased
    /\ \/ /\ NeedsNewEpoch(absoluteBlockIndex)
          /\ Len(epochHashSeeds) < MaxEpochs
          /\ epochHashSeeds' = Append(epochHashSeeds, seed)
          /\ epochLastAbsoluteBlockIndex' =
                 Append(epochLastAbsoluteBlockIndex,
                        totalBlocksReleased + Len(blocks) - 1)
          /\ blocks' = [written EXCEPT ![Len(blocks)].epochCount = @ + 1]
          /\ blockPutWakeup' = FALSE
       \/ /\ ~NeedsNewEpoch(absoluteBlockIndex)
          /\ blocks' = written
          /\ UNCHANGED <<epochHashSeeds, epochLastAbsoluteBlockIndex,
                         blockPutWakeup>>
    /\ UNCHANGED <<oldestEpochID, totalBlocksReleased, synchronizingEpochs,
                   synchronizedEpochs, releaseVars, closedForWriting>>

NotifySyncStarting(isFinalSync) ==
    /\ closedForWriting' = (closedForWriting \/ isFinalSync)
    /\ synchronizingEpochs' = Len(epochHashSeeds)
    /\ blocks' = [i \in DOMAIN blocks |->
                     [blocks[i] EXCEPT !.synchronizingOffsetBytes =
                                           blocks[i].writtenOffsetBytes]]
    /\ UNCHANGED <<epochVars, totalBlocksReleased, synchronizedEpochs,
                   blockPutWakeup, releaseVars>>

\* Mutant of NotifySyncCompleted: blocks without looking for newer epochs.
NotifySyncCompletedAlwaysBlocks ==
    /\ synchronizedEpochs' = synchronizingEpochs
    /\ blockPutWakeup' = TRUE
    /\ blocks' = [i \in DOMAIN blocks |->
                     [blocks[i] EXCEPT !.synchronizedOffsetBytes =
                                           blocks[i].synchronizingOffsetBytes]]
    /\ UNCHANGED <<epochVars, totalBlocksReleased, synchronizingEpochs,
                   releaseVars, closedForWriting>>

NotifySyncCompleted ==
    /\ synchronizedEpochs' = synchronizingEpochs
    /\ blockPutWakeup' = (\/ blockPutWakeup
                          \/ synchronizingEpochs = Len(epochHashSeeds))
    /\ blocks' = [i \in DOMAIN blocks |->
                     [blocks[i] EXCEPT !.synchronizedOffsetBytes =
                                           blocks[i].synchronizingOffsetBytes]]
    /\ UNCHANGED <<epochVars, totalBlocksReleased, synchronizingEpochs,
                   releaseVars, closedForWriting>>

\* The side effect of GetPersistentState; it returns
\* [oldestEpochID |-> oldestEpochID, blocks |-> PersistentBlocks].
GetPersistentState ==
    /\ blocksReleasing' = Len(blocksToRelease)
    /\ UNCHANGED <<blocks, epochVars, totalBlocksReleased, syncVars,
                   blocksToRelease, blockReleaseWakeup, closedForWriting>>

\* Releases the first blocksReleasing blocks of blocksToRelease.
NotifyPersistentStateWritten ==
    /\ blocksToRelease' = SubSeq(blocksToRelease, blocksReleasing + 1,
                                 Len(blocksToRelease))
    /\ blocksReleasing' = 0
    /\ blockReleaseWakeup' = (blockReleaseWakeup \/ blocksToRelease' = <<>>)
    /\ UNCHANGED <<blocks, epochVars, totalBlocksReleased, syncVars,
                   closedForWriting>>

----------------------------------------------------------------------------
(* Any caller that respects the interface: the allocator hands out         *)
(* locations that are not in use, and a Put is completed on a block that   *)
(* existed when the Put was started.                                       *)

HeldLocations ==
    {blocks[i].location : i \in DOMAIN blocks} \cup Range(blocksToRelease)

Next ==
    \/ totalBlocksReleased < MaxReleases /\ PopFront
    \/ \E location \in Location \ HeldLocations : PushBack(location)
    \/ \E absoluteBlockIndex \in 0 .. totalBlocksReleased + Len(blocks) - 1,
          writtenOffset \in 0 .. BlockSize, seed \in Seed :
              PutFinalizer(absoluteBlockIndex, writtenOffset, seed)
    \/ \E isFinalSync \in BOOLEAN : NotifySyncStarting(isFinalSync)
    \/ NotifySyncCompleted
    \/ GetPersistentState
    \/ NotifyPersistentStateWritten

Spec == Init /\ [][Next]_blockListVars

----------------------------------------------------------------------------
(* Properties.                                                             *)

\* Every field has its type, and the two lists of epochs have one length, as
\* the comment on epochHashSeeds demands.
TypeOK ==
    /\ blocks \in Seq(BlockInfo)
    /\ epochHashSeeds \in Seq(Seed)
    /\ epochLastAbsoluteBlockIndex \in Seq(Nat)
    /\ Len(epochLastAbsoluteBlockIndex) = Len(epochHashSeeds)
    /\ Len(epochHashSeeds) <= MaxEpochs
    /\ totalBlocksReleased \in Nat
    /\ oldestEpochID \in EpochID
    /\ synchronizingEpochs \in Nat
    /\ synchronizedEpochs \in Nat
    /\ blockPutWakeup \in BOOLEAN
    /\ blocksToRelease \in Seq(Location)
    /\ blocksReleasing \in Nat
    /\ blockReleaseWakeup \in BOOLEAN
    /\ closedForWriting \in BOOLEAN

\* The inequality documented on persistentBlockInfo: no block's persisted
\* offset passes the offset being synchronized, or that one the offset up to
\* which data was written, however PopFront and Put interleave with a sync.
OffsetsOrdered ==
    \A i \in DOMAIN blocks :
        /\ blocks[i].synchronizedOffsetBytes <= blocks[i].synchronizingOffsetBytes
        /\ blocks[i].synchronizingOffsetBytes <= blocks[i].writtenOffsetBytes

\* The inequality documented on oldestEpochID: PopFront during a sync never
\* makes the epoch counts overtake each other or the list of epochs.
EpochsOrdered ==
    /\ synchronizedEpochs <= synchronizingEpochs
    /\ synchronizingEpochs <= Len(epochHashSeeds)

\* s is the running total of the blocks' epoch counts.
IsEpochTotal(s) ==
    /\ s[0] = 0
    /\ \A i \in 1 .. Len(blocks) : s[i] = s[i - 1] + blocks[i].epochCount
    /\ s[Len(blocks)] = Len(epochHashSeeds)
    /\ \A i \in 1 .. Len(blocks) : \A e \in s[i - 1] + 1 .. s[i] :
           epochLastAbsoluteBlockIndex[e] = totalBlocksReleased + i - 1

\* The epochs are partitioned by the block that was last when they were
\* created, in order, and epochCount is the size of each part.  PopFront and
\* GetPersistentState rely on it to find the epochs of a block.
EpochsPartitioned == IsEpochTotal(EpochsUpTo(blocks))

\* What NewPersistentBlockList restores from the persistent state are the
\* synchronized epochs, each with its hash seed and the position of its last
\* block, also if the state was taken between synchronizations and PopFronts.
StateRestoresEpochs ==
    /\ RestoredSeeds(PersistentBlocks) = SubSeq(epochHashSeeds, 1, synchronizedEpochs)
    /\ RestoredLastBlocks(PersistentBlocks) =
           [e \in 1 .. synchronizedEpochs |->
               epochLastAbsoluteBlockIndex[e] - totalBlocksReleased]

\* A goroutine of PeriodicSyncer waits on a wakeup channel exactly when there
\* is nothing for it to do: the put channel blocks iff every epoch has been
\* synchronized, the release channel iff no block awaits its release.
WakeupsMatchWork ==
    /\ blockPutWakeup <=> synchronizedEpochs = Len(epochHashSeeds)
    /\ blockReleaseWakeup <=> blocksToRelease = <<>>
    /\ blocksReleasing <= Len(blocksToRelease)

\* The bookkeeping of PersistentBlockList, which its comments describe, is
\* consistent after any sequence of its calls.
BookkeepingConsistent ==
    /\ TypeOK
    /\ OffsetsOrdered
    /\ EpochsOrdered
    /\ EpochsPartitioned
    /\ WakeupsMatchWork

\* A reference that can be interpreted keeps designating the same block with
\* the same hash seed for as long as that block is in the list, whatever
\* blocks are pushed and popped and whatever epochs are started around it.
ReferencesStable ==
    [][\A epochID \in EpochID, blocksFromLast \in 0 .. Len(blocks) :
          LET ref == [epochID |-> epochID, blocksFromLast |-> blocksFromLast]
              absolute == totalBlocksReleased + BlockReferenceToBlockIndex(ref)
          IN  Resolves(ref) /\ absolute > totalBlocksReleased' =>
                  /\ Resolves(ref)'
                  /\ ReferenceSeed(ref)' = ReferenceSeed(ref)
                  /\ absolute = (totalBlocksReleased
                                    + BlockReferenceToBlockIndex(ref))']_blockListVars

\* The reference that is handed out for block absoluteBlockIndex designates
\* that block, without its unsigned distance from the epoch's last block
\* wrapping around, in an epoch that is not being synchronized already.
HasUsableReference(absoluteBlockIndex) ==
    LET index == absoluteBlockIndex - totalBlocksReleased + 1
        ref == BlockIndexToBlockReference(index)
    IN  /\ Resolves(ref)
        /\ ref.blocksFromLast >= 0
        /\ BlockReferenceToBlockIndex(ref) = index
        /\ EpochIndex(ref) > synchronizingEpochs

\* Right after a Put has completed, the reference that is stored for it
\* designates the block it was written to, and belongs to an epoch that no
\* synchronization in progress will declare persistent.
PutGetsUsableReference ==
    [][\A absoluteBlockIndex \in 0 .. totalBlocksReleased + Len(blocks) - 1,
          writtenOffset \in 0 .. BlockSize, seed \in Seed :
          PutFinalizer(absoluteBlockIndex, writtenOffset, seed) =>
              HasUsableReference(absoluteBlockIndex)']_blockListVars
============================================================================
