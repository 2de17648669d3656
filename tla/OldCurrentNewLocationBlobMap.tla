-------------------- MODULE OldCurrentNewLocationBlobMap --------------------
(***************************************************************************)
(* The allocation of blobs in blocks                                       *)
(* (old_current_new_location_blob_map.go), with the policies of            *)
(* block_list_growth_policy.go.  Put() and the finalizers of Put() run     *)
(* under the storage lock.  What runs without it are the data integrity    *)
(* callbacks of readers.  findBlockWithSpace() is therefore modelled one   *)
(* loop iteration at a time: corruption may be reported between any two.   *)
(*                                                                         *)
(* The block list hands out and accepts indices, relative to the oldest    *)
(* block that exists.  To tell whether an index leads to the right block,  *)
(* blocks carry an id.                                                     *)
(***************************************************************************)
EXTENDS Integers, Sequences, FiniteSets

CONSTANTS
    None,
    Writer,                \* concurrent writes
    Reader,                \* concurrent reads
    Policy,                \* subset of {"immutable", "mutable"}
    BlockSize,
    BlobSize,              \* sizes of blobs
    DesiredOldBlocks,
    DesiredCurrentBlocks,
    DesiredNewBlocks,      \* under the immutable policy
    InitialBlocks,         \* numbers of blocks that may have been restored
    WordSize,              \* unsigned integers are below this bound
    MaxBlocks              \* bound: blocks ever created

ASSUME SizeAssumption ==
    BlockSize \in Nat \ {0} /\ BlobSize \subseteq Nat
ASSUME CountAssumption ==
    /\ DesiredOldBlocks \in Nat
    /\ DesiredCurrentBlocks \in Nat
    /\ DesiredNewBlocks \in Nat \ {0}
ASSUME PolicyAssumption == Policy \subseteq {"immutable", "mutable"}
ASSUME BoundAssumption ==
    /\ MaxBlocks \in Nat
    /\ InitialBlocks \subseteq 0 .. MaxBlocks
    /\ WordSize \in Nat /\ MaxBlocks < WordSize
\* 1 << n, in the number of blobs to store in a block, does not overflow.
ASSUME ShiftAssumption == \A n \in 0 .. MaxBlocks + DesiredNewBlocks : 2 ^ n \in Nat

VARIABLES
    policy,
    blocks,               \* the block list: [id, used] of each block
    oldBlocks,            \* len(lbm.oldBlocks)
    currentBlocks,
    newBlocks,
    released,             \* totalBlocksReleased
    toBeReleased,         \* totalBlocksToBeReleased
    attemptsRemaining,    \* allocationAttemptsRemaining
    allocationBlockIndex,
    put,                  \* where the running findBlockWithSpace() is
    writers,              \* absoluteBlockIndex of writes, and the id it is about
    readers,              \* the total that a failing read asks to release, and
                          \* the id of the block
    corruptBelow          \* history: no block with a lower id may be used

counts == <<oldBlocks, currentBlocks, newBlocks>>
allocation == <<attemptsRemaining, allocationBlockIndex>>
environment == <<policy, writers, readers, corruptBelow>>
vars == <<policy, blocks, counts, released, toBeReleased, allocation, put,
          writers, readers, corruptBelow>>

NextID == IF blocks = <<>> THEN released ELSE blocks[Len(blocks)].id + 1

DesiredNew == IF policy = "mutable" THEN 1 ELSE DesiredNewBlocks

ShouldGrowNewBlocks(current, new) ==
    IF policy = "mutable"
    THEN new < 1
    ELSE current + new < DesiredCurrentBlocks + DesiredNewBlocks

ShouldGrowCurrentBlocks(current) ==
    policy = "mutable" /\ current < DesiredCurrentBlocks

HasSpace(index, size) == blocks[index + 1].used + size <= BlockSize

\* Go's unsigned subtraction.
Sub(a, b) == (a - b) % WordSize

\* BlockReferenceToBlockIndex() of a reference that the block list resolves
\* to this index: whether it is found.
BlockReferenceToBlockIndex(index) == ~(index < Sub(toBeReleased, released))

Larger(a, b) == IF a < b THEN b ELSE a

----------------------------------------------------------------------------
(* Construction: the blocks that were restored are given to the groups.    *)

Init ==
    /\ policy \in Policy
    /\ \E n \in InitialBlocks :
          /\ blocks \in [1 .. n -> [id: 0 .. MaxBlocks, used: 0 .. BlockSize]]
          /\ \A i \in 1 .. n : blocks[i].id = i - 1
          /\ newBlocks = Cardinality({k \in 0 .. n - 1 : ShouldGrowNewBlocks(0, k)})
          /\ currentBlocks = Cardinality({k \in 0 .. n - newBlocks - 1 :
                                             ShouldGrowCurrentBlocks(k)})
          /\ oldBlocks = n - newBlocks - currentBlocks
    /\ released = 0
    /\ toBeReleased = Larger(oldBlocks - DesiredOldBlocks, 0)
    /\ attemptsRemaining = 0
    /\ allocationBlockIndex = -1
    /\ put = None
    /\ writers = [w \in Writer |-> None]
    /\ readers = [r \in Reader |-> None]
    /\ corruptBelow = toBeReleased

----------------------------------------------------------------------------
(* Reading.                                                                *)

\* Get() and its LocationBlobGetter, for a location that was resolved.
Get(r, index) ==
    /\ put = None
    /\ readers[r] = None
    /\ blocks[index + 1].used > 0
    /\ BlockReferenceToBlockIndex(index)
    /\ readers' = [readers EXCEPT ![r] = [total |-> released + index + 1,
                                          id |-> blocks[index + 1].id]]
    /\ UNCHANGED <<policy, blocks, counts, released, toBeReleased, allocation,
                   put, writers, corruptBelow>>

ReadSucceeds(r) ==
    /\ readers[r] # None
    /\ readers' = [readers EXCEPT ![r] = None]
    /\ UNCHANGED <<policy, blocks, counts, released, toBeReleased, allocation,
                   put, writers, corruptBelow>>

IncreaseTotalBlocksToBeReleased(newValue) ==
    toBeReleased' = Larger(toBeReleased, newValue)

\* The data integrity callback of a reader, at any time.
ReadFails(r) ==
    /\ readers[r] # None
    /\ IncreaseTotalBlocksToBeReleased(readers[r].total)
    /\ corruptBelow' = Larger(corruptBelow, readers[r].id + 1)
    /\ readers' = [readers EXCEPT ![r] = None]
    /\ UNCHANGED <<policy, blocks, counts, released, allocation, put, writers>>

----------------------------------------------------------------------------
(* findBlockWithSpace().                                                   *)

\* Blobs that do not fit in a block are refused right away.
PutStart(w, size) ==
    /\ put = None
    /\ writers[w] = None
    /\ size <= BlockSize
    /\ put' = [at |-> "release", by |-> w, size |-> size, total |-> toBeReleased]
    /\ UNCHANGED <<blocks, counts, released, toBeReleased, allocation, environment>>

At(label) == put # None /\ put.at = label
GoTo(label) == put' = [put EXCEPT !.at = label]

ResetAllocationBlockIndex ==
    allocationBlockIndex' = -1 /\ attemptsRemaining' = 0

\* Remove a block in which corruption was observed, or that is in excess of
\* the number of blocks to keep after a restart.
ReleaseBlock ==
    /\ At("release")
    /\ released < put.total
    /\ blocks' = Tail(blocks)
    /\ released' = released + 1
    /\ \/ /\ oldBlocks > 0
          /\ oldBlocks' = oldBlocks - 1
          /\ UNCHANGED <<currentBlocks, newBlocks, allocation>>
       \/ /\ oldBlocks = 0
          /\ currentBlocks > 0
          /\ currentBlocks' = currentBlocks - 1
          /\ UNCHANGED <<oldBlocks, newBlocks, allocation>>
       \/ /\ oldBlocks = 0
          /\ currentBlocks = 0
          /\ newBlocks' = newBlocks - 1
          /\ ResetAllocationBlockIndex
          /\ UNCHANGED <<oldBlocks, currentBlocks>>
    /\ UNCHANGED <<toBeReleased, put, environment>>

ReleaseDone ==
    /\ At("release")
    /\ ~(released < put.total)
    /\ GoTo("grow")
    /\ UNCHANGED <<blocks, counts, released, toBeReleased, allocation, environment>>

\* BlockList.PushBack(), when it does not return an error.
PushedBack == Append(blocks, [id |-> NextID, used |-> 0])

NeedsBlock ==
    \/ At("grow") /\ ShouldGrowNewBlocks(currentBlocks, newBlocks)
    \/ /\ At("rotate")
       /\ ~HasSpace(oldBlocks + currentBlocks, put.size)
       /\ newBlocks <= DesiredNew

\* BlockList.PushBack() fails, and Put() with it.
PushBackFails ==
    /\ NeedsBlock
    /\ put' = None
    /\ UNCHANGED <<blocks, counts, released, toBeReleased, allocation, environment>>

Grow ==
    /\ At("grow")
    /\ NeedsBlock
    /\ NextID < MaxBlocks
    /\ blocks' = PushedBack
    /\ newBlocks' = newBlocks + 1
    /\ UNCHANGED <<oldBlocks, currentBlocks, released, toBeReleased, allocation,
                   put, environment>>

GrowDone ==
    /\ At("grow")
    /\ ~NeedsBlock
    /\ GoTo("rotate")
    /\ UNCHANGED <<blocks, counts, released, toBeReleased, allocation, environment>>

\* The first "new" block is full, and it is in excess: make it "current".
MakeCurrent ==
    /\ At("rotate")
    /\ ~HasSpace(oldBlocks + currentBlocks, put.size)
    /\ newBlocks > DesiredNew
    /\ currentBlocks' = currentBlocks + 1
    /\ newBlocks' = newBlocks - 1
    /\ ResetAllocationBlockIndex
    /\ UNCHANGED <<blocks, oldBlocks, released, toBeReleased, put, environment>>

\* Mutant of TooManyOldBlocks: off by one.
TooManyOldBlocksEarly == oldBlocks + 1 >= DesiredOldBlocks

TooManyOldBlocks == oldBlocks + 1 > DesiredOldBlocks

ReplaceOldest ==
    /\ blocks' = Tail(PushedBack)
    /\ released' = released + 1
    /\ IncreaseTotalBlocksToBeReleased(released + 1)
    /\ UNCHANGED oldBlocks

\* The first "new" block is full, and must be replaced.
Rotate ==
    /\ At("rotate")
    /\ NeedsBlock
    /\ NextID < MaxBlocks
    /\ IF TooManyOldBlocks
       THEN ReplaceOldest
       ELSE /\ blocks' = PushedBack
            /\ oldBlocks' = oldBlocks + 1
            /\ UNCHANGED <<released, toBeReleased>>
    /\ ResetAllocationBlockIndex
    /\ UNCHANGED <<currentBlocks, newBlocks, put, environment>>

RotateDone ==
    /\ At("rotate")
    /\ HasSpace(oldBlocks + currentBlocks, put.size)
    /\ GoTo("allocate")
    /\ UNCHANGED <<blocks, counts, released, toBeReleased, allocation, environment>>

AllocationIndex == oldBlocks + currentBlocks + allocationBlockIndex

CanAllocate == attemptsRemaining > 0 /\ HasSpace(AllocationIndex, put.size)

\* Mutant of AttemptsFor: off by one.
AttemptsForFewer(index) ==
    IF index >= newBlocks - DesiredNew
    THEN newBlocks - index - 1
    ELSE 2 ^ DesiredNew

\* Blobs to store in a block before moving on to the next one.
AttemptsFor(index) ==
    IF index >= newBlocks - DesiredNew
    THEN 2 ^ (newBlocks - index - 1)
    ELSE 2 ^ DesiredNew

\* incrementAllocationBlockIndex()
NextAllocationBlock ==
    /\ At("allocate")
    /\ ~CanAllocate
    /\ allocationBlockIndex' = (allocationBlockIndex + 1) % newBlocks
    /\ attemptsRemaining' = AttemptsFor(allocationBlockIndex')
    /\ UNCHANGED <<blocks, counts, released, toBeReleased, put, environment>>

\* The rest of Put(): space is set aside for the writer.
Allocate ==
    /\ At("allocate")
    /\ CanAllocate
    /\ attemptsRemaining' = attemptsRemaining - 1
    /\ blocks' = [blocks EXCEPT ![AllocationIndex + 1].used = @ + put.size]
    /\ writers' = [writers EXCEPT ![put.by] = [absolute |-> released + AllocationIndex,
                                               id |-> blocks[AllocationIndex + 1].id]]
    /\ put' = None
    /\ UNCHANGED <<policy, counts, released, toBeReleased, allocationBlockIndex,
                   readers, corruptBelow>>

\* The result of a LocationBlobPutFinalizer: an error, or a location.
FinalizerFails(w) == writers[w].absolute < toBeReleased

\* Mutant of FinalizerBlockIndex: the index at the time of the allocation.
FinalizerBlockIndexUnadjusted(w) == writers[w].absolute

FinalizerBlockIndex(w) == Sub(writers[w].absolute, released)

Finalize(w) ==
    /\ put = None
    /\ writers[w] # None
    /\ writers' = [writers EXCEPT ![w] = None]
    /\ UNCHANGED <<policy, blocks, counts, released, toBeReleased, allocation,
                   put, readers, corruptBelow>>

----------------------------------------------------------------------------

FindBlockWithSpace ==
    \/ ReleaseBlock
    \/ ReleaseDone
    \/ PushBackFails
    \/ Grow
    \/ GrowDone
    \/ MakeCurrent
    \/ Rotate
    \/ RotateDone
    \/ NextAllocationBlock
    \/ Allocate

Next ==
    \/ \E w \in Writer, size \in BlobSize : PutStart(w, size)
    \/ FindBlockWithSpace
    \/ \E w \in Writer : Finalize(w)
    \/ \E r \in Reader, index \in 0 .. Len(blocks) - 1 : Get(r, index)
    \/ \E r \in Reader : ReadSucceeds(r) \/ ReadFails(r)

Spec == Init /\ [][Next]_vars

\* Whoever holds the lock is not suspended forever.
FairSpec == Spec /\ WF_vars(FindBlockWithSpace)

----------------------------------------------------------------------------
(* Properties.                                                             *)

TypeOK ==
    /\ policy \in Policy
    /\ blocks \in Seq([id: Nat, used: 0 .. BlockSize])
    /\ oldBlocks \in Nat
    /\ currentBlocks \in Nat
    /\ newBlocks \in Nat
    /\ released \in Nat
    /\ toBeReleased \in Nat
    /\ attemptsRemaining \in Nat
    /\ allocationBlockIndex \in Nat \cup {-1}
    /\ put \in [at: {"release", "grow", "rotate", "allocate"}, by: Writer,
                size: BlobSize, total: Nat] \cup {None}
    /\ writers \in [Writer -> [absolute: Nat, id: Nat] \cup {None}]
    /\ readers \in [Reader -> [total: Nat, id: Nat] \cup {None}]
    /\ corruptBelow \in Nat

\* The three groups make up the block list, and the number of blocks to be
\* released never exceeds the number of blocks, whenever corruption is
\* reported: findBlockWithSpace() would otherwise remove blocks from an empty
\* list, and the unsigned difference of the totals would wrap around.
GroupsMatchBlocks ==
    /\ Len(blocks) = oldBlocks + currentBlocks + newBlocks
    /\ released <= toBeReleased
    /\ toBeReleased <= released + Len(blocks)

\* "This ensures that the final loop is always capable of finding one block
\* with space": the loop starts with a first "new" block that has space, and
\* only ever looks at "new" blocks.
AllocationFindsSpace ==
    At("allocate") =>
        /\ newBlocks > 0
        /\ HasSpace(oldBlocks + currentBlocks, put.size)
        /\ allocationBlockIndex < newBlocks
        /\ attemptsRemaining > 0 => allocationBlockIndex >= 0

\* "The Location returned by this function must still be valid at the time it
\* is returned": the index that a finalizer returns leads to the block that was
\* written to, however many blocks were released during the write.
FinalizersReturnTheirBlock ==
    put = None =>
        \A w \in Writer : writers[w] # None /\ ~FinalizerFails(w) =>
            /\ FinalizerBlockIndex(w) < Len(blocks)
            /\ blocks[FinalizerBlockIndex(w) + 1].id = writers[w].id
            /\ BlockReferenceToBlockIndex(FinalizerBlockIndex(w))

\* "Stop serving corrupted data immediately": a reported block and the older
\* ones can no longer be resolved, and all newer ones can.
CorruptBlocksHidden ==
    put = None =>
        \A index \in 0 .. Len(blocks) - 1 :
            BlockReferenceToBlockIndex(index) <=> blocks[index + 1].id >= corruptBelow

\* What the comments of old_current_new_location_blob_map.go promise of the
\* groups of blocks, of allocation and of the locations that are handed out.
AllocationSound ==
    /\ TypeOK
    /\ GroupsMatchBlocks
    /\ AllocationFindsSpace
    /\ FinalizersReturnTheirBlock
    /\ CorruptBlocksHidden

\* Allocation terminates, however much corruption is reported meanwhile.
PutTerminates == put # None ~> put = None

\* Seen from outside, this is a LocationBlobMap.
Abstract == INSTANCE LocationBlobMap
               WITH oldEnd <- released + oldBlocks,
                    used <- [i \in 1 .. Len(blocks) |-> blocks[i].used],
                    latestOnly <- (policy = "mutable")

ImplementsLocationBlobMap == Abstract!Spec
============================================================================
