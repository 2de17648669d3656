--------------------------- MODULE LocationBlobMap ---------------------------
(***************************************************************************)
(* What a LocationBlobMap (location_blob_map.go) promises to its callers,  *)
(* in terms of blocks that are numbered from the first one ever created.   *)
(*                                                                         *)
(*   released ....... toBeReleased ... oldEnd ........... NextBlock        *)
(*   | known corrupt  | to be refreshed | accepts new blobs                *)
(*                                                                         *)
(* Blocks disappear oldest first: when data in them, or in a newer block,  *)
(* turns out to be corrupted, and to make room.  In the latter case a      *)
(* block has been one that callers are told to refresh blobs from, for as  *)
(* long as it takes DesiredOldBlocks newer blocks to get there.            *)
(***************************************************************************)
EXTENDS Integers, Sequences

CONSTANTS
    BlockSize,
    DesiredOldBlocks

VARIABLES
    released,         \* number of blocks that no longer exist
    toBeReleased,     \* the blocks below it cannot be resolved
    oldEnd,           \* the blocks below it need to be refreshed
    used,             \* space taken in each of the blocks that exist
    latestOnly        \* blobs are only stored in the last block

blobMapVars == <<released, toBeReleased, oldEnd, used, latestOnly>>

NextBlock == released + Len(used)

Larger(a, b) == IF a < b THEN b ELSE a

\* The index of a block, and whether it may still be used.
BlockIndex(block) == block - released
Resolvable(block) == toBeReleased <= block /\ block < NextBlock
NeedsRefresh(block) == block < oldEnd

\* Blocks left by an earlier run of the program.
Init ==
    /\ released = 0
    /\ used \in Seq(0 .. BlockSize)
    /\ oldEnd \in 0 .. NextBlock
    /\ toBeReleased = Larger(oldEnd - DesiredOldBlocks, 0)
    /\ latestOnly \in BOOLEAN

\* The blob that was read from this block is corrupted.
DataIntegrityError(block) ==
    /\ block < NextBlock
    /\ toBeReleased' = Larger(toBeReleased, block + 1)
    /\ UNCHANGED <<released, oldEnd, used, latestOnly>>

ReleaseCorrupted ==
    /\ released < toBeReleased
    /\ released' = released + 1
    /\ oldEnd' = Larger(oldEnd, released')
    /\ used' = Tail(used)
    /\ UNCHANGED <<toBeReleased, latestOnly>>

PushBack ==
    /\ used' = Append(used, 0)
    /\ UNCHANGED <<released, toBeReleased, oldEnd, latestOnly>>

\* A block is added at the end, which makes another one old.
Rotate ==
    /\ oldEnd < NextBlock
    /\ oldEnd' = oldEnd + 1
    /\ IF oldEnd' - released > DesiredOldBlocks
       THEN /\ released' = released + 1
            /\ toBeReleased' = Larger(toBeReleased, released')
            /\ used' = Tail(Append(used, 0))
       ELSE /\ used' = Append(used, 0)
            /\ UNCHANGED <<released, toBeReleased>>
    /\ UNCHANGED latestOnly

\* Space for a blob is set aside.  It may be written to from now on.
Allocate(block, size) ==
    /\ block \in oldEnd .. NextBlock - 1
    /\ latestOnly => block = NextBlock - 1
    /\ used[BlockIndex(block) + 1] + size <= BlockSize
    /\ used' = [used EXCEPT ![BlockIndex(block) + 1] = @ + size]
    /\ UNCHANGED <<released, toBeReleased, oldEnd, latestOnly>>

Next ==
    \/ \E block \in 0 .. NextBlock - 1 : DataIntegrityError(block)
    \/ ReleaseCorrupted
    \/ PushBack
    \/ Rotate
    \/ \E block \in oldEnd .. NextBlock - 1, size \in 0 .. BlockSize :
          Allocate(block, size)

Spec == Init /\ [][Next]_blobMapVars
============================================================================
