------------------------ MODULE OldCurrentNewProofs ------------------------
(***************************************************************************)
(* Proofs about OldCurrentNewLocationBlobMap, for both policies and every  *)
(* number and size of blocks.                                              *)
(***************************************************************************)
EXTENDS OldCurrentNewLocationBlobMap, FiniteSetTheorems, SequenceTheorems, TLAPS

Block == [id: Nat, used: 0 .. BlockSize]

----------------------------------------------------------------------------
(* The inductive invariant.                                                *)

\* Blocks are numbered consecutively, from the first one ever created.
Numbered ==
    /\ \A i \in 1 .. Len(blocks) : blocks[i].id = released + i - 1
    /\ released + Len(blocks) <= MaxBlocks

\* The groups that are written to stay within their limits.
GroupsBounded ==
    /\ policy = "mutable" => newBlocks <= 1
    /\ policy # "mutable" => /\ currentBlocks <= DesiredCurrentBlocks
                             /\ currentBlocks + newBlocks
                                   <= DesiredCurrentBlocks + DesiredNewBlocks

\* What the loops of findBlockWithSpace() have established so far.
PutProgress ==
    put # None =>
        /\ put.size <= BlockSize
        /\ put.total <= toBeReleased
        /\ put.at \in {"rotate", "allocate"} => newBlocks > 0
        /\ put.at = "allocate" => HasSpace(oldBlocks + currentBlocks, put.size)

\* Blobs are allocated in "new" blocks.
AllocationInNew ==
    /\ allocationBlockIndex < newBlocks
    /\ attemptsRemaining > 0 => allocationBlockIndex >= 0

\* Reads and writes in progress are about blocks that were created before.
ClientsKnowBlocks ==
    /\ \A w \in Writer : writers[w] # None =>
          /\ writers[w].absolute = writers[w].id
          /\ writers[w].id < released + Len(blocks)
    /\ \A r \in Reader : readers[r] # None =>
          /\ readers[r].total = readers[r].id + 1
          /\ readers[r].id < released + Len(blocks)

\* Blocks are to be released because of corruption, or have been released.
CorruptionTracked == toBeReleased = Larger(corruptBelow, released)

IInv == /\ TypeOK
        /\ GroupsMatchBlocks
        /\ Numbered
        /\ GroupsBounded
        /\ PutProgress
        /\ AllocationInNew
        /\ ClientsKnowBlocks
        /\ CorruptionTracked

----------------------------------------------------------------------------
(* Facts about the block list.                                             *)

LEMMA BlockTypes ==
    ASSUME NEW bs \in Seq(Block)
    PROVE  /\ Len(bs) \in Nat
           /\ DOMAIN bs = 1 .. Len(bs)
           /\ \A i \in 1 .. Len(bs) : bs[i] \in Block /\ bs[i].id \in Nat
                                      /\ bs[i].used \in 0 .. BlockSize
<1>1. Len(bs) \in Nat /\ DOMAIN bs = 1 .. Len(bs)
    BY Zenon, LenProperties
<1>2. \A i \in 1 .. Len(bs) : bs[i] \in Block
    BY Zenon, ElementOfSeq
<1>3. QED
    BY Zenon, <1>1, <1>2 DEF Block

LEMMA NextIDIsTotal ==
    ASSUME IInv
    PROVE  NextID = released + Len(blocks)
<1>1. CASE blocks = <<>>
    BY <1>1, EmptySeq DEF IInv, TypeOK, NextID
<1>2. CASE blocks # <<>>
    <2>1. blocks \in Seq(Block) /\ released \in Nat
        BY Zenon DEF IInv, TypeOK, Block
    <2>2. Len(blocks) \in Nat \ {0}
        BY Zenon, <1>2, <2>1, EmptySeq
    <2>3. blocks[Len(blocks)].id = released + Len(blocks) - 1
        BY <2>2 DEF IInv, Numbered
    <2>4. QED
        BY <1>2, <2>1, <2>2, <2>3 DEF NextID
<1>3. QED
    BY Zenon, <1>1, <1>2

\* PushBack() adds an empty block.
LEMMA PushedBackBlocks ==
    ASSUME IInv
    PROVE  /\ PushedBack \in Seq(Block)
           /\ Len(PushedBack) = Len(blocks) + 1
           /\ \A i \in 1 .. Len(PushedBack) : PushedBack[i].id = released + i - 1
<1> DEFINE b == [id |-> NextID, used |-> 0]
<1>1. blocks \in Seq(Block) /\ released \in Nat
    BY Zenon DEF IInv, TypeOK, Block
<1>2. Len(blocks) \in Nat
    BY Zenon, <1>1, BlockTypes
<1>3. b \in Block /\ b.id = released + Len(blocks)
    BY <1>1, <1>2, NextIDIsTotal, SizeAssumption DEF Block
<1> HIDE DEF b
<1>4. /\ Append(blocks, b) \in Seq(Block)
      /\ Len(Append(blocks, b)) = Len(blocks) + 1
      /\ \A i \in 1 .. Len(blocks) : Append(blocks, b)[i] = blocks[i]
      /\ Append(blocks, b)[Len(blocks) + 1] = b
    BY <1>1, <1>3, AppendProperties
<1>5. PushedBack = Append(blocks, b)
    BY Zenon DEF PushedBack, b
<1>6. ASSUME NEW i \in 1 .. Len(blocks) + 1
      PROVE  Append(blocks, b)[i].id = released + i - 1
    <2>1. CASE i = Len(blocks) + 1
        BY <1>1, <1>2, <1>3, <1>4, <2>1
    <2>2. CASE i # Len(blocks) + 1
        <3>1. i \in 1 .. Len(blocks)
            BY <1>2, <2>2
        <3>2. QED
            BY Zenon, <1>4, <3>1 DEF IInv, Numbered
    <2>3. QED
        BY Zenon, <2>1, <2>2
<1>7. QED
    BY Zenon, <1>4, <1>5, <1>6

\* PopFront() removes the oldest block.
LEMMA PoppedFrontBlocks ==
    ASSUME NEW bs \in Seq(Block), bs # <<>>, NEW first \in Nat,
           \A i \in 1 .. Len(bs) : bs[i].id = first + i - 1
    PROVE  /\ Tail(bs) \in Seq(Block)
           /\ Len(Tail(bs)) = Len(bs) - 1
           /\ \A i \in 1 .. Len(Tail(bs)) : Tail(bs)[i].id = first + 1 + i - 1
           /\ Len(bs) \in Nat \ {0}
<1>1. Len(bs) \in Nat \ {0}
    BY Zenon, EmptySeq
<1>2. /\ Tail(bs) \in Seq(Block)
      /\ Len(Tail(bs)) = Len(bs) - 1
      /\ \A i \in 1 .. Len(Tail(bs)) : Tail(bs)[i] = bs[i + 1]
    BY Zenon, HeadTailProperties
<1>3. ASSUME NEW i \in 1 .. Len(Tail(bs))
      PROVE  Tail(bs)[i].id = first + 1 + i - 1
    <2>1. i + 1 \in 1 .. Len(bs)
        BY <1>1, <1>2
    <2>2. bs[i + 1].id = first + (i + 1) - 1
        BY Zenon, <2>1
    <2>3. Tail(bs)[i] = bs[i + 1]
        BY Zenon, <1>2
    <2>4. QED
        BY <2>1, <2>2, <2>3
<1>4. QED
    BY Zenon, <1>1, <1>2, <1>3

----------------------------------------------------------------------------
(* Construction.                                                           *)

\* The number of blocks that a loop with this bound takes.
LEMMA CountBelow ==
    ASSUME NEW n \in Nat, NEW c \in Nat
    PROVE  Cardinality({k \in 0 .. n - 1 : k < c}) = IF n < c THEN n ELSE c
<1>1. CASE n < c
    <2>1. {k \in 0 .. n - 1 : k < c} = 0 .. n - 1
        BY <1>1
    <2>2. Cardinality(0 .. n - 1) = IF 0 > n - 1 THEN 0 ELSE n - 1 - 0 + 1
        BY FS_Interval
    <2>3. Cardinality(0 .. n - 1) = n
        BY <2>2
    <2>4. Cardinality({k \in 0 .. n - 1 : k < c}) = n
        BY Zenon, <2>1, <2>3
    <2>5. QED
        BY Zenon, <1>1, <2>4
<1>2. CASE ~(n < c)
    <2>1. {k \in 0 .. n - 1 : k < c} = 0 .. c - 1
        BY <1>2
    <2>2. Cardinality(0 .. c - 1) = IF 0 > c - 1 THEN 0 ELSE c - 1 - 0 + 1
        BY FS_Interval
    <2>3. Cardinality(0 .. c - 1) = c
        BY <2>2
    <2>4. Cardinality({k \in 0 .. n - 1 : k < c}) = c
        BY Zenon, <2>1, <2>3
    <2>5. QED
        BY Zenon, <1>2, <2>4
<1>3. QED
    BY Zenon, <1>1, <1>2

LEMMA InitInv == Init => IInv
<1> SUFFICES ASSUME Init PROVE IInv
    BY Zenon
<1> USE SizeAssumption, CountAssumption, PolicyAssumption, BoundAssumption
<1>1. PICK n \in InitialBlocks :
          /\ blocks \in [1 .. n -> [id: 0 .. MaxBlocks, used: 0 .. BlockSize]]
          /\ \A i \in 1 .. n : blocks[i].id = i - 1
          /\ newBlocks = Cardinality({k \in 0 .. n - 1 : ShouldGrowNewBlocks(0, k)})
          /\ currentBlocks = Cardinality({k \in 0 .. n - newBlocks - 1 :
                                             ShouldGrowCurrentBlocks(k)})
          /\ oldBlocks = n - newBlocks - currentBlocks
    BY Zenon DEF Init
<1>2. n \in Nat /\ n <= MaxBlocks
    BY <1>1
<1>3. \A i \in 1 .. n : blocks[i] \in Block
    BY <1>1, <1>2 DEF Block
<1>4. blocks \in Seq(Block) /\ Len(blocks) = n
    <2>1. blocks \in [1 .. n -> Block]
        BY Zenon, <1>1, <1>3
    <2>2. QED
        BY <1>2, <2>1
<1>5. /\ newBlocks \in 0 .. n
      /\ currentBlocks \in 0 .. n - newBlocks
      /\ policy = "mutable" => newBlocks <= 1
      /\ policy # "mutable" => /\ currentBlocks = 0
                               /\ newBlocks <= DesiredCurrentBlocks + DesiredNewBlocks
    <2>1. CASE policy = "mutable"
        <3>0. 1 \in Nat /\ DesiredCurrentBlocks \in Nat
            BY Zenon
        <3>1. {k \in 0 .. n - 1 : ShouldGrowNewBlocks(0, k)} = {k \in 0 .. n - 1 : k < 1}
            BY Zenon, <2>1 DEF ShouldGrowNewBlocks
        <3>2. newBlocks = IF n < 1 THEN n ELSE 1
            BY Zenon, <1>1, <1>2, <3>1, CountBelow, <3>0
        <3>3. n - newBlocks \in Nat
            BY <1>2, <3>2
        <3>4. {k \in 0 .. n - newBlocks - 1 : ShouldGrowCurrentBlocks(k)}
                  = {k \in 0 .. n - newBlocks - 1 : k < DesiredCurrentBlocks}
            BY Zenon, <2>1 DEF ShouldGrowCurrentBlocks
        <3>5. currentBlocks = IF n - newBlocks < DesiredCurrentBlocks
                              THEN n - newBlocks ELSE DesiredCurrentBlocks
            <4> DEFINE m == n - newBlocks
            <4>1. m \in Nat
                BY Zenon, <3>3
            <4>2. /\ currentBlocks = Cardinality({k \in 0 .. m - 1 : ShouldGrowCurrentBlocks(k)})
                  /\ {k \in 0 .. m - 1 : ShouldGrowCurrentBlocks(k)} = {k \in 0 .. m - 1 : k < DesiredCurrentBlocks}
                BY Zenon, <1>1, <3>4
            <4> HIDE DEF m
            <4>3. currentBlocks = IF m < DesiredCurrentBlocks THEN m ELSE DesiredCurrentBlocks
                BY Zenon, <3>0, <4>1, <4>2, CountBelow
            <4>4. QED
                BY Zenon, <4>3 DEF m
        <3>6. QED
            BY <1>2, <2>1, <3>2, <3>3, <3>5
    <2>2. CASE policy # "mutable"
        <3>0. 0 \in Nat /\ DesiredCurrentBlocks + DesiredNewBlocks \in Nat
            OBVIOUS
        <3>1. {k \in 0 .. n - 1 : ShouldGrowNewBlocks(0, k)}
                  = {k \in 0 .. n - 1 : k < DesiredCurrentBlocks + DesiredNewBlocks}
            BY <2>2 DEF ShouldGrowNewBlocks
        <3>2. newBlocks = IF n < DesiredCurrentBlocks + DesiredNewBlocks
                          THEN n ELSE DesiredCurrentBlocks + DesiredNewBlocks
            BY Zenon, <1>1, <1>2, <3>0, <3>1, CountBelow
        <3>3. n - newBlocks \in Nat
            BY <1>2, <3>2
        <3>4. {k \in 0 .. n - newBlocks - 1 : ShouldGrowCurrentBlocks(k)}
                  = {k \in 0 .. n - newBlocks - 1 : k < 0}
            BY <2>2, <3>3 DEF ShouldGrowCurrentBlocks
        <3>5. currentBlocks = IF n - newBlocks < 0 THEN n - newBlocks ELSE 0
            <4> DEFINE m == n - newBlocks
            <4>1. m \in Nat
                BY Zenon, <3>3
            <4>2. /\ currentBlocks = Cardinality({k \in 0 .. m - 1 : ShouldGrowCurrentBlocks(k)})
                  /\ {k \in 0 .. m - 1 : ShouldGrowCurrentBlocks(k)} = {k \in 0 .. m - 1 : k < 0}
                BY Zenon, <1>1, <3>4
            <4> HIDE DEF m
            <4>3. currentBlocks = IF m < 0 THEN m ELSE 0
                BY Zenon, <3>0, <4>1, <4>2, CountBelow
            <4>4. QED
                BY Zenon, <4>3 DEF m
        <3>6. QED
            BY <1>2, <2>2, <3>2, <3>3, <3>5
    <2>3. QED
        BY Zenon, <2>1, <2>2
<1>6. /\ oldBlocks \in Nat
      /\ currentBlocks \in Nat
      /\ newBlocks \in Nat
      /\ oldBlocks + currentBlocks + newBlocks = n
      /\ oldBlocks = n - newBlocks - currentBlocks
    BY SMTT(30), <1>1, <1>2, <1>5
<1>7. /\ released = 0
      /\ toBeReleased = Larger(oldBlocks - DesiredOldBlocks, 0)
      /\ attemptsRemaining = 0
      /\ allocationBlockIndex = -1
      /\ put = None
      /\ writers = [w \in Writer |-> None]
      /\ readers = [r \in Reader |-> None]
      /\ corruptBelow = toBeReleased
      /\ policy \in Policy
    BY Zenon DEF Init
<1>8. toBeReleased \in 0 .. n
    BY <1>2, <1>6, <1>7 DEF Larger
<1>9. TypeOK
    BY <1>4, <1>6, <1>7, <1>8 DEF TypeOK, Block
<1>10. GroupsMatchBlocks /\ Numbered
    BY SMTT(30), <1>1, <1>2, <1>4, <1>6, <1>7, <1>8 DEF GroupsMatchBlocks, Numbered
<1>11. GroupsBounded /\ AllocationInNew /\ PutProgress
    BY <1>5, <1>6, <1>7 DEF GroupsBounded, AllocationInNew, PutProgress
<1>12. ClientsKnowBlocks
    BY Zenon, <1>7 DEF ClientsKnowBlocks
<1>13. CorruptionTracked
    BY Zenon, <1>7, <1>8 DEF CorruptionTracked, Larger
<1>14. QED
    BY Zenon, <1>9, <1>10, <1>11, <1>12, <1>13 DEF IInv

----------------------------------------------------------------------------
(* Steps of readers and writers.                                           *)

LEMMA GetInv ==
    ASSUME IInv, NEW r \in Reader, NEW index \in 0 .. Len(blocks) - 1, Get(r, index)
    PROVE  IInv'
<1>1. /\ blocks \in Seq(Block) /\ Len(blocks) \in Nat /\ released \in Nat
    BY Zenon, BlockTypes DEF IInv, TypeOK, Block
<1>2. index + 1 \in 1 .. Len(blocks)
    BY <1>1
<1>3. blocks[index + 1].id = released + index
    BY <1>1, <1>2 DEF IInv, Numbered
<1>4. readers' = [readers EXCEPT ![r] = [total |-> released + index + 1,
                                         id |-> released + index]]
    BY Zenon, <1>3 DEF Get
<1>5. TypeOK'
    BY SMTT(30), <1>1, <1>2, <1>4 DEF IInv, TypeOK, Get, counts, allocation
<1>6. ClientsKnowBlocks'
    BY SMTT(30), <1>1, <1>2, <1>4 DEF IInv, TypeOK, ClientsKnowBlocks, Get
<1>7. (GroupsMatchBlocks /\ Numbered /\ GroupsBounded /\ PutProgress
          /\ AllocationInNew /\ CorruptionTracked)'
    BY Zenon DEF IInv, GroupsMatchBlocks, Numbered, GroupsBounded, PutProgress, HasSpace,
           AllocationInNew, CorruptionTracked, Get, counts, allocation
<1>8. QED
    BY Zenon, <1>5, <1>6, <1>7 DEF IInv

LEMMA ReadSucceedsInv ==
    ASSUME IInv, NEW r \in Reader, ReadSucceeds(r)
    PROVE  IInv'
<1>1. TypeOK'
    BY Zenon DEF IInv, TypeOK, ReadSucceeds, counts, allocation
<1>2. ClientsKnowBlocks'
    BY Zenon DEF IInv, TypeOK, ClientsKnowBlocks, ReadSucceeds
<1>3. (GroupsMatchBlocks /\ Numbered /\ GroupsBounded /\ PutProgress
          /\ AllocationInNew /\ CorruptionTracked)'
    BY Zenon DEF IInv, GroupsMatchBlocks, Numbered, GroupsBounded, PutProgress, HasSpace,
           AllocationInNew, CorruptionTracked, ReadSucceeds, counts, allocation
<1>4. QED
    BY Zenon, <1>1, <1>2, <1>3 DEF IInv

LEMMA ReadFailsInv ==
    ASSUME IInv, NEW r \in Reader, ReadFails(r)
    PROVE  IInv'
<1>1. /\ readers[r].total = readers[r].id + 1
      /\ readers[r].id \in Nat
      /\ readers[r].id < released + Len(blocks)
      /\ blocks \in Seq(Block) /\ Len(blocks) \in Nat
      /\ released \in Nat /\ toBeReleased \in Nat /\ corruptBelow \in Nat
    BY Zenon, BlockTypes DEF IInv, TypeOK, Block, ClientsKnowBlocks, ReadFails
<1>2. /\ toBeReleased' = Larger(toBeReleased, readers[r].id + 1)
      /\ corruptBelow' = Larger(corruptBelow, readers[r].id + 1)
    BY Zenon, <1>1 DEF ReadFails, IncreaseTotalBlocksToBeReleased
<1>3. /\ toBeReleased' \in Nat /\ corruptBelow' \in Nat
      /\ toBeReleased <= toBeReleased'
      /\ toBeReleased' <= released + Len(blocks)
    BY SMTT(30), <1>1, <1>2 DEF Larger, IInv, GroupsMatchBlocks
<1>4. TypeOK'
    BY Zenon, <1>3 DEF IInv, TypeOK, ReadFails, counts, allocation
<1>5. ClientsKnowBlocks'
    BY Zenon DEF IInv, TypeOK, ClientsKnowBlocks, ReadFails
<1>6. (GroupsMatchBlocks /\ Numbered /\ GroupsBounded /\ AllocationInNew)'
    BY <1>1, <1>3 DEF IInv, GroupsMatchBlocks, Numbered, GroupsBounded, 
           AllocationInNew, ReadFails, counts, allocation
<1>7. PutProgress'
    BY <1>1, <1>3 DEF IInv, TypeOK, PutProgress, HasSpace, ReadFails, counts
<1>8. CorruptionTracked'
    BY <1>1, <1>2 DEF IInv, CorruptionTracked, Larger, ReadFails
<1>9. QED
    BY Zenon, <1>4, <1>5, <1>6, <1>7, <1>8 DEF IInv

LEMMA FinalizeInv ==
    ASSUME IInv, NEW w \in Writer, Finalize(w)
    PROVE  IInv'
<1>1. TypeOK'
    BY Zenon DEF IInv, TypeOK, Finalize, counts, allocation
<1>2. ClientsKnowBlocks'
    BY Zenon DEF IInv, TypeOK, ClientsKnowBlocks, Finalize
<1>3. (GroupsMatchBlocks /\ Numbered /\ GroupsBounded /\ PutProgress
          /\ AllocationInNew /\ CorruptionTracked)'
    BY Zenon DEF IInv, GroupsMatchBlocks, Numbered, GroupsBounded, PutProgress, HasSpace,
           AllocationInNew, CorruptionTracked, Finalize, counts, allocation
<1>4. QED
    BY Zenon, <1>1, <1>2, <1>3 DEF IInv

----------------------------------------------------------------------------
(* Steps of findBlockWithSpace() that do not change the block list.        *)

LEMMA PutStartInv ==
    ASSUME IInv, NEW w \in Writer, NEW size \in BlobSize, PutStart(w, size)
    PROVE  IInv'
<1>1. put' = [at |-> "release", by |-> w, size |-> size, total |-> toBeReleased]
    BY Zenon DEF PutStart
<1>2. TypeOK'
    BY <1>1 DEF IInv, TypeOK, PutStart, counts, allocation, environment
<1>3. PutProgress'
    BY <1>1 DEF IInv, TypeOK, PutProgress, PutStart
<1>4. (GroupsMatchBlocks /\ Numbered /\ GroupsBounded /\ AllocationInNew
          /\ ClientsKnowBlocks /\ CorruptionTracked)'
    BY Zenon DEF IInv, GroupsMatchBlocks, Numbered, GroupsBounded, AllocationInNew,
           ClientsKnowBlocks, CorruptionTracked, PutStart, counts, allocation,
           environment
<1>5. QED
    BY Zenon, <1>2, <1>3, <1>4 DEF IInv

\* The steps that only move on to the next loop, or give up.
LEMMA PutMovesOnInv ==
    ASSUME IInv, UNCHANGED <<blocks, counts, released, toBeReleased, allocation,
                             environment>>,
           TypeOK', PutProgress'
    PROVE  IInv'
BY Zenon DEF IInv, GroupsMatchBlocks, Numbered, GroupsBounded, AllocationInNew,
       ClientsKnowBlocks, CorruptionTracked, counts, allocation, environment

LEMMA ReleaseDoneInv ==
    ASSUME IInv, ReleaseDone
    PROVE  IInv'
<1>1. put' = [put EXCEPT !.at = "grow"] /\ put # None
    BY Zenon DEF ReleaseDone, At, GoTo
<1>2. TypeOK'
    BY Zenon, <1>1 DEF IInv, TypeOK, ReleaseDone, counts, allocation, environment
<1>3. PutProgress'
    BY Zenon, <1>1 DEF IInv, TypeOK, PutProgress, ReleaseDone
<1>4. QED
    BY Zenon, <1>2, <1>3, PutMovesOnInv DEF ReleaseDone

LEMMA PushBackFailsInv ==
    ASSUME IInv, PushBackFails
    PROVE  IInv'
<1>1. TypeOK'
    BY Zenon DEF IInv, TypeOK, PushBackFails, counts, allocation, environment
<1>2. PutProgress'
    BY Zenon DEF PutProgress, PushBackFails
<1>3. QED
    BY Zenon, <1>1, <1>2, PutMovesOnInv DEF PushBackFails

LEMMA GrowDoneInv ==
    ASSUME IInv, GrowDone
    PROVE  IInv'
<1>1. put' = [put EXCEPT !.at = "rotate"] /\ put # None
    BY Zenon DEF GrowDone, At, GoTo
<1>2. TypeOK'
    BY Zenon, <1>1 DEF IInv, TypeOK, GrowDone, counts, allocation, environment
<1>3. newBlocks > 0
    BY CountAssumption DEF IInv, TypeOK, GroupsBounded, GrowDone, NeedsBlock,
                           ShouldGrowNewBlocks
<1>4. PutProgress'
    BY Zenon, <1>1, <1>3 DEF IInv, TypeOK, PutProgress, GrowDone, counts
<1>5. QED
    BY Zenon, <1>2, <1>4, PutMovesOnInv DEF GrowDone

LEMMA RotateDoneInv ==
    ASSUME IInv, RotateDone
    PROVE  IInv'
<1>1. put' = [put EXCEPT !.at = "allocate"] /\ put # None /\ put.at = "rotate"
    BY Zenon DEF RotateDone, At, GoTo
<1>2. TypeOK'
    BY Zenon, <1>1 DEF IInv, TypeOK, RotateDone, counts, allocation, environment
<1>3. PutProgress'
    BY Zenon, <1>1 DEF IInv, TypeOK, PutProgress, RotateDone, counts, HasSpace
<1>4. QED
    BY Zenon, <1>2, <1>3, PutMovesOnInv DEF RotateDone

LEMMA DesiredNewPositive ==
    DesiredNew \in Nat \ {0}
BY CountAssumption DEF DesiredNew

LEMMA MakeCurrentInv ==
    ASSUME IInv, MakeCurrent
    PROVE  IInv'
<1>1. /\ put # None /\ put.at = "rotate" /\ put' = put
      /\ newBlocks > DesiredNew
      /\ currentBlocks' = currentBlocks + 1
      /\ newBlocks' = newBlocks - 1
      /\ attemptsRemaining' = 0
      /\ allocationBlockIndex' = -1
      /\ UNCHANGED <<blocks, oldBlocks, released, toBeReleased, environment>>
    BY Zenon DEF MakeCurrent, At, ResetAllocationBlockIndex
<1>2. /\ currentBlocks \in Nat /\ newBlocks \in Nat /\ newBlocks' > 0 /\ newBlocks' \in Nat
      /\ oldBlocks \in Nat
    BY <1>1, DesiredNewPositive DEF IInv, TypeOK
<1>3. TypeOK'
    BY <1>1, <1>2 DEF IInv, TypeOK, environment
<1>4. (GroupsMatchBlocks /\ Numbered /\ AllocationInNew)'
    BY SMTT(30), <1>1, <1>2 DEF IInv, GroupsMatchBlocks, Numbered, AllocationInNew
<1>5. GroupsBounded'
    BY <1>1, <1>2, CountAssumption DEF IInv, GroupsBounded, environment, DesiredNew
<1>6. PutProgress'
    BY Zenon, <1>1, <1>2 DEF IInv, PutProgress
<1>7. (ClientsKnowBlocks /\ CorruptionTracked)'
    BY Zenon, <1>1 DEF IInv, ClientsKnowBlocks, CorruptionTracked, environment
<1>8. QED
    BY Zenon, <1>3, <1>4, <1>5, <1>6, <1>7 DEF IInv

LEMMA NextAllocationBlockInv ==
    ASSUME IInv, NextAllocationBlock
    PROVE  IInv'
<1>1. /\ put # None /\ put.at = "allocate" /\ put' = put
      /\ allocationBlockIndex' = (allocationBlockIndex + 1) % newBlocks
      /\ attemptsRemaining' = AttemptsFor(allocationBlockIndex')
      /\ UNCHANGED <<blocks, counts, released, toBeReleased, environment>>
    BY Zenon DEF NextAllocationBlock, At
<1>2. newBlocks \in Nat \ {0} /\ newBlocks <= MaxBlocks
    <2>1. blocks \in Seq(Block)
        BY Zenon DEF IInv, TypeOK, Block
    <2>2. Len(blocks) \in Nat
        BY Zenon, <2>1, BlockTypes
    <2>3. QED
        BY <1>1, <2>2, BoundAssumption
           DEF IInv, TypeOK, PutProgress, GroupsMatchBlocks, Numbered
<1>3. allocationBlockIndex' \in 0 .. newBlocks - 1
    BY <1>1, <1>2 DEF IInv, TypeOK
<1>4. attemptsRemaining' \in Nat
    <2> DEFINE i == allocationBlockIndex'
    <2>0. i \in 0 .. newBlocks - 1 /\ attemptsRemaining' = AttemptsFor(i)
        BY Zenon, <1>1, <1>3
    <2> HIDE DEF i
    <2>1. newBlocks - i - 1 \in 0 .. MaxBlocks + DesiredNewBlocks
        BY <1>2, <2>0, CountAssumption, BoundAssumption
    <2>2. DesiredNew \in 0 .. MaxBlocks + DesiredNewBlocks
        BY CountAssumption, BoundAssumption, <1>2 DEF DesiredNew
    <2>3. 2 ^ (newBlocks - i - 1) \in Nat /\ 2 ^ DesiredNew \in Nat
        BY Zenon, <2>1, <2>2, ShiftAssumption
    <2>4. QED
        BY Zenon, <2>0, <2>3 DEF AttemptsFor
<1>5. TypeOK'
    BY <1>1, <1>3, <1>4 DEF IInv, TypeOK, counts, environment
<1>6. AllocationInNew'
    BY SMTT(30), <1>1, <1>2, <1>3 DEF AllocationInNew, counts
<1>7. (GroupsMatchBlocks /\ Numbered /\ GroupsBounded /\ PutProgress
          /\ ClientsKnowBlocks /\ CorruptionTracked)'
    BY Zenon, <1>1 DEF IInv, GroupsMatchBlocks, Numbered, GroupsBounded, PutProgress, HasSpace,
           ClientsKnowBlocks, CorruptionTracked, counts, environment
<1>8. QED
    BY Zenon, <1>5, <1>6, <1>7 DEF IInv

----------------------------------------------------------------------------
(* Steps of findBlockWithSpace() that change the block list.               *)

LEMMA ReleaseBlockInv ==
    ASSUME IInv, ReleaseBlock
    PROVE  IInv'
<1>1. /\ put # None /\ put.at = "release" /\ put' = put
      /\ released < put.total
      /\ blocks' = Tail(blocks)
      /\ released' = released + 1
      /\ UNCHANGED <<toBeReleased, environment>>
    BY Zenon DEF ReleaseBlock, At
<1>2. /\ blocks \in Seq(Block) /\ released \in Nat /\ toBeReleased \in Nat
      /\ put.total \in Nat /\ put.total <= toBeReleased /\ released < toBeReleased
      /\ corruptBelow \in Nat
      /\ oldBlocks \in Nat /\ currentBlocks \in Nat /\ newBlocks \in Nat
    BY <1>1 DEF IInv, TypeOK, Block, PutProgress
<1>3. Len(blocks) \in Nat
    BY Zenon, <1>2, BlockTypes
<1>4. blocks # <<>>
    BY <1>2, <1>3, EmptySeq DEF IInv, GroupsMatchBlocks
<1>5. /\ blocks' \in Seq(Block)
      /\ Len(blocks') = Len(blocks) - 1
      /\ \A i \in 1 .. Len(blocks') : blocks'[i].id = released' + i - 1
      /\ Len(blocks) \in Nat \ {0}
    <2>1. \A i \in 1 .. Len(blocks) : blocks[i].id = released + i - 1
        BY Zenon DEF IInv, Numbered
    <2>2. QED
        BY Zenon, <1>1, <1>2, <1>4, <2>1, PoppedFrontBlocks
<1>6. /\ oldBlocks' \in Nat /\ currentBlocks' \in Nat /\ newBlocks' \in Nat
      /\ oldBlocks' + currentBlocks' + newBlocks' = Len(blocks')
      /\ currentBlocks' <= currentBlocks
      /\ newBlocks' <= newBlocks
      /\ newBlocks' # newBlocks => attemptsRemaining' = 0 /\ allocationBlockIndex' = -1
      /\ newBlocks' = newBlocks => /\ attemptsRemaining' = attemptsRemaining
                                   /\ allocationBlockIndex' = allocationBlockIndex
    <2>1. oldBlocks + currentBlocks + newBlocks = Len(blocks)
        BY Zenon DEF IInv, GroupsMatchBlocks
    <2>2. Len(blocks') = Len(blocks) - 1 /\ Len(blocks) > 0
        BY <1>5
    <2>3. CASE oldBlocks > 0
        <3>1. /\ oldBlocks' = oldBlocks - 1 /\ currentBlocks' = currentBlocks
              /\ newBlocks' = newBlocks
              /\ attemptsRemaining' = attemptsRemaining
              /\ allocationBlockIndex' = allocationBlockIndex
            BY <1>2, <2>3 DEF ReleaseBlock, allocation
        <3>2. QED
            BY SMTT(30), <1>2, <2>1, <2>2, <2>3, <3>1
    <2>4. CASE oldBlocks = 0 /\ currentBlocks > 0
        <3>1. /\ oldBlocks' = oldBlocks /\ currentBlocks' = currentBlocks - 1
              /\ newBlocks' = newBlocks
              /\ attemptsRemaining' = attemptsRemaining
              /\ allocationBlockIndex' = allocationBlockIndex
            BY <1>2, <2>4 DEF ReleaseBlock, allocation
        <3>2. QED
            BY SMTT(30), <1>2, <2>1, <2>2, <2>4, <3>1
    <2>5. CASE oldBlocks = 0 /\ currentBlocks = 0
        <3>1. /\ oldBlocks' = oldBlocks /\ currentBlocks' = currentBlocks
              /\ newBlocks' = newBlocks - 1
              /\ attemptsRemaining' = 0
              /\ allocationBlockIndex' = -1
            BY <1>2, <2>5 DEF ReleaseBlock, ResetAllocationBlockIndex
        <3>2. QED
            BY SMTT(30), <1>2, <2>1, <2>2, <2>5, <3>1
    <2>6. QED
        BY <1>2, <2>3, <2>4, <2>5
<1>7. TypeOK'
    <2>1. attemptsRemaining' \in Nat /\ allocationBlockIndex' \in Nat \cup {-1}
        <3>1. attemptsRemaining \in Nat /\ allocationBlockIndex \in Nat \cup {-1}
            BY Zenon DEF IInv, TypeOK
        <3>2. CASE newBlocks' = newBlocks
            BY Zenon, <1>6, <3>1, <3>2
        <3>3. CASE newBlocks' # newBlocks
            <4>1. attemptsRemaining' = 0 /\ allocationBlockIndex' = -1
                BY Zenon, <1>6, <3>3
            <4>2. QED
                BY Zenon, <4>1
        <3>4. QED
            BY Zenon, <3>2, <3>3
    <2>2. oldBlocks' \in Nat /\ currentBlocks' \in Nat /\ newBlocks' \in Nat
        BY Zenon, <1>6
    <2>3. released' \in Nat /\ toBeReleased' \in Nat
        BY <1>1, <1>2
    <2>4. QED
        BY Zenon, <1>1, <1>5, <2>1, <2>2, <2>3 DEF IInv, TypeOK, Block, environment
<1>8. (GroupsMatchBlocks /\ Numbered)'
    <2>1. released' + Len(blocks') = released + Len(blocks)
        BY <1>1, <1>2, <1>3, <1>5
    <2>2. GroupsMatchBlocks'
        <3>1. oldBlocks' + currentBlocks' + newBlocks' = Len(blocks')
            BY Zenon, <1>6
        <3>2. released' <= toBeReleased'
            BY <1>1, <1>2
        <3>3. toBeReleased' <= released' + Len(blocks')
            BY Zenon, <1>1, <2>1 DEF IInv, GroupsMatchBlocks
        <3>4. QED
            BY Zenon, <3>1, <3>2, <3>3 DEF GroupsMatchBlocks
    <2>3. Numbered'
        BY Zenon, <1>5, <2>1 DEF IInv, Numbered
    <2>4. QED
        BY Zenon, <2>2, <2>3
<1>9. GroupsBounded'
    <2>1. policy' = policy
        BY Zenon, <1>1 DEF environment
    <2>2. /\ currentBlocks' \in Nat /\ newBlocks' \in Nat
          /\ currentBlocks' <= currentBlocks
          /\ newBlocks' <= newBlocks
        BY Zenon, <1>6
    <2>3. currentBlocks \in Nat /\ newBlocks \in Nat /\ GroupsBounded
        BY Zenon, <1>2 DEF IInv
    <2>4. ASSUME newBlocks <= 1
          PROVE  newBlocks' <= 1
        BY <2>2, <2>3, <2>4
    <2>5. ASSUME currentBlocks <= DesiredCurrentBlocks,
                 currentBlocks + newBlocks <= DesiredCurrentBlocks + DesiredNewBlocks
          PROVE  /\ currentBlocks' <= DesiredCurrentBlocks
                 /\ currentBlocks' + newBlocks' <= DesiredCurrentBlocks + DesiredNewBlocks
        <3> DEFINE current == currentBlocks'
                   new == newBlocks'
        <3>1. /\ current \in Nat /\ new \in Nat
              /\ current <= currentBlocks /\ new <= newBlocks
            BY Zenon, <2>2
        <3> HIDE DEF current, new
        <3>2. /\ current <= DesiredCurrentBlocks
              /\ current + new <= DesiredCurrentBlocks + DesiredNewBlocks
            BY <2>3, <2>5, <3>1, CountAssumption
        <3>3. QED
            BY Zenon, <3>2 DEF current, new
    <2>6. QED
        BY Zenon, <2>1, <2>3, <2>4, <2>5 DEF GroupsBounded
<1>10. PutProgress'
    BY Zenon, <1>1, <1>2 DEF IInv, PutProgress
<1>11. AllocationInNew'
    BY SMTT(30), <1>2, <1>6 DEF IInv, TypeOK, AllocationInNew
<1>12. ClientsKnowBlocks'
    BY <1>1, <1>2, <1>3, <1>5 DEF IInv, TypeOK, ClientsKnowBlocks, environment
<1>13. CorruptionTracked'
    BY <1>1, <1>2 DEF IInv, CorruptionTracked, Larger, environment
<1>14. QED
    BY Zenon, <1>7, <1>8, <1>9, <1>10, <1>11, <1>12, <1>13 DEF IInv

LEMMA GrowInv ==
    ASSUME IInv, Grow
    PROVE  IInv'
<1>1. /\ put # None /\ put.at = "grow" /\ put' = put
      /\ ShouldGrowNewBlocks(currentBlocks, newBlocks)
      /\ NextID < MaxBlocks
      /\ blocks' = PushedBack
      /\ newBlocks' = newBlocks + 1
      /\ UNCHANGED <<oldBlocks, currentBlocks, released, toBeReleased, allocation,
                     environment>>
    BY Zenon DEF Grow, NeedsBlock, At
<1>2. /\ blocks \in Seq(Block) /\ released \in Nat /\ toBeReleased \in Nat
      /\ oldBlocks \in Nat /\ currentBlocks \in Nat /\ newBlocks \in Nat
      /\ allocationBlockIndex \in Int
    BY DEF IInv, TypeOK, Block
<1>3. /\ Len(blocks) \in Nat
      /\ blocks' \in Seq(Block)
      /\ Len(blocks') = Len(blocks) + 1
      /\ \A i \in 1 .. Len(blocks') : blocks'[i].id = released + i - 1
    BY Zenon, <1>1, <1>2, BlockTypes, PushedBackBlocks
<1>4. released + Len(blocks') <= MaxBlocks
    BY SMTT(30), <1>1, <1>2, <1>3, NextIDIsTotal, BoundAssumption
<1>5. TypeOK'
    BY SMTT(30), <1>1, <1>2, <1>3 DEF IInv, TypeOK, Block, environment, allocation
<1>6. (GroupsMatchBlocks /\ Numbered)'
    <2>1. /\ released' = released /\ toBeReleased' = toBeReleased
          /\ oldBlocks' = oldBlocks /\ currentBlocks' = currentBlocks
          /\ newBlocks' = newBlocks + 1
        BY Zenon, <1>1
    <2>2. GroupsMatchBlocks'
        BY <1>2, <1>3, <2>1 DEF IInv, GroupsMatchBlocks
    <2>3. Numbered'
        BY Zenon, <1>3, <1>4, <2>1 DEF Numbered
    <2>4. QED
        BY Zenon, <2>2, <2>3
<1>7. GroupsBounded'
    BY <1>1, <1>2, CountAssumption DEF IInv, GroupsBounded, ShouldGrowNewBlocks, environment
<1>8. PutProgress'
    BY Zenon, <1>1 DEF IInv, PutProgress
<1>9. AllocationInNew'
    BY SMTT(30), <1>1, <1>2 DEF IInv, AllocationInNew, allocation
<1>10. (ClientsKnowBlocks /\ CorruptionTracked)'
    BY SMTT(30), <1>1, <1>2, <1>3 DEF IInv, TypeOK, ClientsKnowBlocks, CorruptionTracked, environment
<1>11. QED
    BY Zenon, <1>5, <1>6, <1>7, <1>8, <1>9, <1>10 DEF IInv

\* What both ways of rotating have in common.
LEMMA RotatedBlocks ==
    ASSUME IInv, Rotate
    PROVE  /\ put # None /\ put.at = "rotate" /\ put' = put
           /\ blocks \in Seq(Block) /\ Len(blocks) \in Nat \ {0}
           /\ blocks' \in Seq(Block)
           /\ released \in Nat /\ toBeReleased \in Nat /\ oldBlocks \in Nat
           /\ \A i \in 1 .. Len(blocks') : blocks'[i].id = released' + i - 1
           /\ released' + Len(blocks') = released + Len(blocks) + 1
           /\ released' + Len(blocks') <= MaxBlocks
           /\ \/ /\ oldBlocks + 1 > DesiredOldBlocks
                 /\ blocks' = Tail(PushedBack)
                 /\ released' = released + 1
                 /\ toBeReleased' = Larger(toBeReleased, released + 1)
                 /\ oldBlocks' = oldBlocks
              \/ /\ ~(oldBlocks + 1 > DesiredOldBlocks)
                 /\ blocks' = PushedBack
                 /\ released' = released
                 /\ toBeReleased' = toBeReleased
                 /\ oldBlocks' = oldBlocks + 1
<1>1. put # None /\ put.at = "rotate" /\ put' = put /\ NextID < MaxBlocks
    BY Zenon DEF Rotate, At
<1>2. /\ blocks \in Seq(Block) /\ released \in Nat /\ toBeReleased \in Nat
      /\ oldBlocks \in Nat /\ currentBlocks \in Nat /\ newBlocks \in Nat
      /\ newBlocks > 0
    BY Zenon, <1>1 DEF IInv, TypeOK, Block, PutProgress
<1>3. Len(blocks) \in Nat \ {0}
    BY <1>2, BlockTypes DEF IInv, GroupsMatchBlocks
<1>4. /\ PushedBack \in Seq(Block)
      /\ Len(PushedBack) = Len(blocks) + 1
      /\ \A i \in 1 .. Len(PushedBack) : PushedBack[i].id = released + i - 1
    BY Zenon, PushedBackBlocks
<1>5. PushedBack # <<>>
    BY SMTT(30), <1>3, <1>4, EmptySeq
<1>6. /\ Tail(PushedBack) \in Seq(Block)
      /\ Len(Tail(PushedBack)) = Len(PushedBack) - 1
      /\ \A i \in 1 .. Len(Tail(PushedBack)) :
            Tail(PushedBack)[i].id = released + 1 + i - 1
    BY Zenon, <1>2, <1>4, <1>5, PoppedFrontBlocks
<1>7. released + Len(blocks) + 1 <= MaxBlocks
    BY SMTT(30), <1>1, <1>2, <1>3, NextIDIsTotal, BoundAssumption
<1>8. CASE TooManyOldBlocks
    <2>1. /\ oldBlocks + 1 > DesiredOldBlocks
          /\ blocks' = Tail(PushedBack)
          /\ released' = released + 1
          /\ toBeReleased' = Larger(toBeReleased, released + 1)
          /\ oldBlocks' = oldBlocks
        BY Zenon, <1>8 DEF Rotate, ReplaceOldest, TooManyOldBlocks,
                    IncreaseTotalBlocksToBeReleased
    <2>2. \A i \in 1 .. Len(blocks') : blocks'[i].id = released' + i - 1
        BY Zenon, <1>6, <2>1
    <2>3. released' + Len(blocks') = released + Len(blocks) + 1
        <3>1. Len(blocks') = Len(PushedBack) - 1 /\ released' = released + 1
            BY Zenon, <1>6, <2>1
        <3>2. QED
            BY <1>2, <1>3, <1>4, <3>1
    <2>4. QED
        BY ZenonT(30), <1>1, <1>2, <1>3, <1>6, <1>7, <2>1, <2>2, <2>3
<1>9. CASE ~TooManyOldBlocks
    <2>1. /\ ~(oldBlocks + 1 > DesiredOldBlocks)
          /\ blocks' = PushedBack
          /\ released' = released
          /\ toBeReleased' = toBeReleased
          /\ oldBlocks' = oldBlocks + 1
        BY Zenon, <1>9 DEF Rotate, TooManyOldBlocks
    <2>2. \A i \in 1 .. Len(blocks') : blocks'[i].id = released' + i - 1
        BY Zenon, <1>4, <2>1
    <2>3. released' + Len(blocks') = released + Len(blocks) + 1
        BY SMTT(30), <1>2, <1>3, <1>4, <2>1
    <2>4. QED
        BY Zenon, <1>1, <1>2, <1>3, <1>4, <1>7, <2>1, <2>2, <2>3
<1>10. QED
    BY Zenon, <1>8, <1>9

LEMMA RotateInv ==
    ASSUME IInv, Rotate
    PROVE  IInv'
<1>1. /\ put # None /\ put.at = "rotate" /\ put' = put
      /\ blocks \in Seq(Block) /\ Len(blocks) \in Nat \ {0}
      /\ blocks' \in Seq(Block)
      /\ released \in Nat /\ toBeReleased \in Nat /\ oldBlocks \in Nat
      /\ released' + Len(blocks') = released + Len(blocks) + 1
    BY Zenon, RotatedBlocks
<1>2. /\ attemptsRemaining' = 0
      /\ allocationBlockIndex' = -1
      /\ UNCHANGED <<currentBlocks, newBlocks, environment>>
    BY Zenon DEF Rotate, ResetAllocationBlockIndex
<1>3. /\ released' \in Nat /\ released <= released'
      /\ oldBlocks' \in Nat
      /\ oldBlocks' + released' = oldBlocks + released + 1
      /\ toBeReleased' = Larger(toBeReleased, released')
    <2>1. toBeReleased = Larger(toBeReleased, released)
        BY <1>1 DEF IInv, GroupsMatchBlocks, Larger
    <2>2. CASE /\ released' = released + 1
               /\ toBeReleased' = Larger(toBeReleased, released + 1)
               /\ oldBlocks' = oldBlocks
        BY <1>1, <2>2
    <2>3. CASE /\ released' = released
               /\ toBeReleased' = toBeReleased
               /\ oldBlocks' = oldBlocks + 1
        BY <1>1, <2>1, <2>3
    <2>4. QED
        BY Zenon, <2>2, <2>3, RotatedBlocks
<1>4. Len(blocks') \in Nat
    BY Zenon, <1>1, BlockTypes
<1>5. toBeReleased' \in Nat /\ toBeReleased <= toBeReleased'
    BY SMTT(30), <1>1, <1>3 DEF Larger
<1>6. TypeOK'
    BY Zenon, <1>1, <1>2, <1>3, <1>5 DEF IInv, TypeOK, Block, environment
<1>7. GroupsMatchBlocks'
    <2>1. /\ currentBlocks \in Nat /\ newBlocks \in Nat
          /\ Len(blocks) = oldBlocks + currentBlocks + newBlocks
          /\ toBeReleased <= released + Len(blocks)
        BY Zenon DEF IInv, TypeOK, GroupsMatchBlocks
    <2>2. Len(blocks') = oldBlocks' + currentBlocks' + newBlocks'
        <3>1. currentBlocks' = currentBlocks /\ newBlocks' = newBlocks
            BY Zenon, <1>2
        <3>2. /\ released \in Nat /\ oldBlocks \in Nat /\ Len(blocks) \in Nat
              /\ released' + Len(blocks') = released + Len(blocks) + 1
            BY Zenon, <1>1
        <3>3. /\ released' \in Nat /\ oldBlocks' \in Nat
              /\ oldBlocks' + released' = oldBlocks + released + 1
            BY Zenon, <1>3
        <3>4. Len(blocks') = oldBlocks' + currentBlocks + newBlocks
            <4> DEFINE len == Len(blocks')
                       old == oldBlocks'
                       rel == released'
            <4>1. /\ len \in Nat /\ old \in Nat /\ rel \in Nat
                  /\ rel + len = released + Len(blocks) + 1
                  /\ old + rel = oldBlocks + released + 1
                BY Zenon, <1>4, <3>2, <3>3
            <4> HIDE DEF len, old, rel
            <4>2. len = old + currentBlocks + newBlocks
                BY SMTT(30), <2>1, <3>2, <4>1
            <4>3. QED
                BY Zenon, <4>2 DEF len, old
        <3>5. QED
            BY Zenon, <3>1, <3>4
    <2>3. released' <= toBeReleased' /\ toBeReleased' <= released' + Len(blocks')
        BY SMTT(30), <1>1, <1>3, <1>4, <2>1 DEF Larger
    <2>4. QED
        BY Zenon, <2>2, <2>3 DEF GroupsMatchBlocks
<1>8. Numbered'
    BY Zenon, RotatedBlocks DEF Numbered
<1>9. GroupsBounded'
    BY Zenon, <1>2 DEF IInv, GroupsBounded, environment
<1>10. PutProgress'
    <2>1. put.total \in Nat /\ put.total <= toBeReleased
        BY Zenon, <1>1 DEF IInv, TypeOK, PutProgress
    <2>2. QED
        BY SMTT(30), <1>1, <1>2, <1>5, <2>1 DEF IInv, PutProgress
<1>11. AllocationInNew'
    BY SMTT(30), <1>2 DEF IInv, TypeOK, AllocationInNew
<1>12. ClientsKnowBlocks'
    <2>1. writers' = writers /\ readers' = readers
        BY Zenon, <1>2 DEF environment
    <2>2. QED
        BY SMTT(30), <1>1, <2>1 DEF IInv, TypeOK, ClientsKnowBlocks
<1>13. CorruptionTracked'
    <2>1. corruptBelow' = corruptBelow /\ corruptBelow \in Nat
        BY Zenon, <1>2 DEF environment, IInv, TypeOK
    <2>2. QED
        BY <1>1, <1>3, <2>1 DEF IInv, CorruptionTracked, Larger
<1>14. QED
    BY Zenon, <1>6, <1>7, <1>8, <1>9, <1>10, <1>11, <1>12, <1>13 DEF IInv

\* The block that a blob is allocated in.
LEMMA AllocationBlock ==
    ASSUME IInv, Allocate
    PROVE  /\ put # None
           /\ put.size \in Nat
           /\ AllocationIndex \in oldBlocks + currentBlocks .. Len(blocks) - 1
           /\ blocks \in Seq(Block)
           /\ blocks[AllocationIndex + 1] \in Block
           /\ blocks[AllocationIndex + 1].id = released + AllocationIndex
           /\ blocks[AllocationIndex + 1].used + put.size <= BlockSize
           /\ blocks' = [blocks EXCEPT ![AllocationIndex + 1] =
                             [blocks[AllocationIndex + 1] EXCEPT !.used = @ + put.size]]
           /\ [blocks[AllocationIndex + 1] EXCEPT !.used = @ + put.size] \in Block
           /\ Len(blocks) \in Nat
<1>1. /\ put # None /\ put.at = "allocate"
      /\ attemptsRemaining > 0
      /\ HasSpace(AllocationIndex, put.size)
    BY Zenon DEF Allocate, At, CanAllocate
<1>2. /\ blocks \in Seq(Block) /\ released \in Nat
      /\ oldBlocks \in Nat /\ currentBlocks \in Nat /\ newBlocks \in Nat
      /\ allocationBlockIndex \in 0 .. newBlocks - 1
      /\ put.size \in Nat
    <2>1. /\ blocks \in Seq(Block) /\ released \in Nat
          /\ oldBlocks \in Nat /\ currentBlocks \in Nat /\ newBlocks \in Nat
        BY Zenon DEF IInv, TypeOK, Block
    <2>2. allocationBlockIndex \in Nat \cup {-1} /\ newBlocks \in Nat
        BY Zenon DEF IInv, TypeOK
    <2>3. allocationBlockIndex < newBlocks /\ allocationBlockIndex >= 0
        BY Zenon, <1>1 DEF IInv, AllocationInNew
    <2>4. put.size \in Nat
        BY Zenon, <1>1, SizeAssumption DEF IInv, TypeOK
    <2>5. allocationBlockIndex \in 0 .. newBlocks - 1
        BY <2>2, <2>3
    <2>6. QED
        BY Zenon, <2>1, <2>4, <2>5
<1>3. Len(blocks) \in Nat
    BY Zenon, <1>2, BlockTypes
<1>4. AllocationIndex \in oldBlocks + currentBlocks .. Len(blocks) - 1
    BY <1>2, <1>3 DEF AllocationIndex, IInv, GroupsMatchBlocks
<1>5. AllocationIndex + 1 \in 1 .. Len(blocks)
    BY <1>2, <1>3, <1>4
<1>6. blocks[AllocationIndex + 1] \in Block
    BY Zenon, <1>2, <1>5, BlockTypes
<1>7. blocks[AllocationIndex + 1].id = released + AllocationIndex
    BY SMTT(30), <1>2, <1>4, <1>5 DEF IInv, Numbered
<1>8. blocks[AllocationIndex + 1].used + put.size <= BlockSize
    BY Zenon, <1>1 DEF HasSpace
<1>9. blocks' = [blocks EXCEPT ![AllocationIndex + 1] =
                     [blocks[AllocationIndex + 1] EXCEPT !.used = @ + put.size]]
    BY Zenon DEF Allocate
<1>10. [blocks[AllocationIndex + 1] EXCEPT !.used = @ + put.size] \in Block
    <2> DEFINE b == blocks[AllocationIndex + 1]
               size == put.size
    <2>1. b \in Block /\ size \in Nat /\ b.used + size <= BlockSize
        BY Zenon, <1>2, <1>6, <1>8
    <2> HIDE DEF b, size
    <2>2. [b EXCEPT !.used = @ + size] \in Block
        BY <2>1, SizeAssumption DEF Block
    <2>3. QED
        BY Zenon, <2>2 DEF b, size
<1>11. QED
    BY SMTT(30), <1>1, <1>2, <1>3, <1>4, <1>6, <1>7, <1>8, <1>9, <1>10

LEMMA AllocateInv ==
    ASSUME IInv, Allocate
    PROVE  IInv'
<1> DEFINE n == AllocationIndex + 1
           b == [blocks[n] EXCEPT !.used = @ + put.size]
<1>1. /\ put # None
      /\ blocks \in Seq(Block) /\ Len(blocks) \in Nat
      /\ oldBlocks \in Nat /\ currentBlocks \in Nat
      /\ released \in Nat
      /\ AllocationIndex \in oldBlocks + currentBlocks .. Len(blocks) - 1
      /\ blocks[n] \in Block /\ blocks[n].id = released + AllocationIndex
      /\ blocks' = [blocks EXCEPT ![n] = b]
      /\ b \in Block
    BY Zenon, AllocationBlock DEF IInv, TypeOK
<1>2. n \in 1 .. Len(blocks) /\ AllocationIndex \in Nat
    BY <1>1
<1>3. b.id = blocks[n].id
    BY Zenon, <1>1 DEF Block
<1> HIDE DEF n, b
<1>4. /\ blocks' \in Seq(Block)
      /\ Len(blocks') = Len(blocks)
      /\ \A j \in 1 .. Len(blocks) : blocks'[j] = IF j = n THEN b ELSE blocks[j]
    BY <1>1, <1>2, ExceptSeq
<1>5. \A j \in 1 .. Len(blocks) : blocks'[j].id = blocks[j].id
    BY Zenon, <1>3, <1>4
<1>6. /\ put' = None
      /\ attemptsRemaining' = attemptsRemaining - 1
      /\ writers' = [writers EXCEPT ![put.by] = [absolute |-> released + AllocationIndex,
                                                 id |-> released + AllocationIndex]]
      /\ UNCHANGED <<policy, counts, released, toBeReleased, allocationBlockIndex,
                     readers, corruptBelow>>
    BY Zenon, <1>1 DEF Allocate, n
<1>7. attemptsRemaining \in Nat \ {0} /\ allocationBlockIndex >= 0
    BY DEF Allocate, CanAllocate, IInv, TypeOK, AllocationInNew
<1>8. put.by \in Writer
    BY Zenon, <1>1 DEF IInv, TypeOK
<1>9. TypeOK'
    <2>1. attemptsRemaining' \in Nat
        BY SMTT(30), <1>6, <1>7
    <2>2. writers' \in [Writer -> [absolute: Nat, id: Nat] \cup {None}]
        BY SMTT(30), <1>1, <1>2, <1>6, <1>8 DEF IInv, TypeOK
    <2>3. QED
        BY Zenon, <1>4, <1>6, <2>1, <2>2 DEF IInv, TypeOK, Block, counts
<1>10. (GroupsMatchBlocks /\ GroupsBounded /\ CorruptionTracked)'
    BY Zenon, <1>4, <1>6 DEF IInv, GroupsMatchBlocks, GroupsBounded, CorruptionTracked, counts
<1>11. Numbered'
    BY ZenonT(30), <1>4, <1>5, <1>6 DEF IInv, Numbered
<1>12. PutProgress'
    BY Zenon, <1>6 DEF PutProgress
<1>13. AllocationInNew'
    BY Zenon, <1>6, <1>7 DEF IInv, AllocationInNew, counts
<1>14. ClientsKnowBlocks'
    <2>1. ASSUME NEW w \in Writer, writers'[w] # None
          PROVE  /\ writers'[w].absolute = writers'[w].id
                 /\ writers'[w].id < released + Len(blocks)
        <3>1. CASE w = put.by
            <4>1. writers'[w] = [absolute |-> released + AllocationIndex,
                                 id |-> released + AllocationIndex]
                BY Zenon, <1>6, <3>1 DEF IInv, TypeOK
            <4>2. QED
                BY SMTT(30), <1>1, <1>2, <4>1
        <3>2. CASE w # put.by
            <4>1. writers'[w] = writers[w]
                BY Zenon, <1>6, <3>2 DEF IInv, TypeOK
            <4>2. QED
                BY Zenon, <2>1, <4>1 DEF IInv, ClientsKnowBlocks
        <3>3. QED
            BY Zenon, <3>1, <3>2
    <2>2. released' = released /\ Len(blocks') = Len(blocks) /\ readers' = readers
        BY Zenon, <1>4, <1>6
    <2>3. QED
        BY Zenon, <2>1, <2>2 DEF IInv, ClientsKnowBlocks
<1>15. QED
    BY Zenon, <1>9, <1>10, <1>11, <1>12, <1>13, <1>14 DEF IInv

----------------------------------------------------------------------------
(* Theorems.                                                               *)

LEMMA NextInv ==
    ASSUME IInv, [Next]_vars
    PROVE  IInv'
<1>1. CASE UNCHANGED vars
    BY Zenon, <1>1 DEF vars, counts, allocation, IInv, TypeOK, GroupsMatchBlocks, Numbered,
                GroupsBounded, PutProgress, HasSpace, AllocationInNew,
                ClientsKnowBlocks, CorruptionTracked
<1>2. CASE \E w \in Writer, size \in BlobSize : PutStart(w, size)
    BY Zenon, <1>2, PutStartInv
<1>3. CASE FindBlockWithSpace
    BY SMTT(30), <1>3, ReleaseBlockInv, ReleaseDoneInv, PushBackFailsInv, GrowInv, GrowDoneInv,
       MakeCurrentInv, RotateInv, RotateDoneInv, NextAllocationBlockInv, AllocateInv
       DEF FindBlockWithSpace
<1>4. CASE \E w \in Writer : Finalize(w)
    BY Zenon, <1>4, FinalizeInv
<1>5. CASE \E r \in Reader, index \in 0 .. Len(blocks) - 1 : Get(r, index)
    BY Zenon, <1>5, GetInv
<1>6. CASE \E r \in Reader : ReadSucceeds(r) \/ ReadFails(r)
    BY Zenon, <1>6, ReadSucceedsInv, ReadFailsInv
<1>7. QED
    BY Zenon, <1>1, <1>2, <1>3, <1>4, <1>5, <1>6 DEF Next

\* The inductive invariant of the location-blob map, whenever corruption is
\* reported and whatever the policy.
THEOREM Invariance == Spec => []IInv
<1>1. IInv /\ [Next]_vars => IInv'
    BY Zenon, NextInv
<1>2. QED
    BY InitInv, <1>1, PTL DEF Spec

\* All fields keep their types.
THEOREM TypeCorrect == Spec => []TypeOK
<1>1. IInv => TypeOK
    BY Zenon DEF IInv
<1>2. QED
    BY Invariance, <1>1, PTL

\* findBlockWithSpace() never releases more blocks than there are, and the
\* totals that decide what can be resolved stay in order.
THEOREM GroupsCorrect == Spec => []GroupsMatchBlocks
<1>1. IInv => GroupsMatchBlocks
    BY Zenon DEF IInv
<1>2. QED
    BY Invariance, <1>1, PTL

\* The final loop of findBlockWithSpace() starts with a first "new" block that
\* has space, and only looks at "new" blocks.
THEOREM AllocationCorrect == Spec => []AllocationFindsSpace
<1>1. IInv => AllocationFindsSpace
    BY Zenon DEF IInv, PutProgress, AllocationInNew, AllocationFindsSpace, At
<1>2. QED
    BY Invariance, <1>1, PTL

\* Unsigned differences of block numbers do not wrap around.
LEMMA SubIsDifference ==
    ASSUME NEW a \in Nat, NEW b \in Nat, b <= a, a <= MaxBlocks
    PROVE  Sub(a, b) = a - b
<1>1. WordSize \in Nat \ {0} /\ a - b \in 0 .. WordSize - 1
    BY SMTT(30), BoundAssumption
<1>2. QED
    BY <1>1 DEF Sub

\* A reported block and all older ones cannot be resolved from then on, and no
\* newer one is affected.
THEOREM CorruptionHidden == Spec => []CorruptBlocksHidden
<1>1. ASSUME IInv, NEW index \in 0 .. Len(blocks) - 1
      PROVE  BlockReferenceToBlockIndex(index) <=> blocks[index + 1].id >= corruptBelow
    <2>1. /\ blocks \in Seq(Block) /\ Len(blocks) \in Nat
          /\ released \in Nat /\ toBeReleased \in Nat /\ corruptBelow \in Nat
        BY Zenon, <1>1, BlockTypes DEF IInv, TypeOK, Block
    <2>2. index + 1 \in 1 .. Len(blocks) /\ index \in Nat
        BY <2>1
    <2>3. blocks[index + 1].id = released + index
        BY SMTT(30), <1>1, <2>1, <2>2 DEF IInv, Numbered
    <2>4. Sub(toBeReleased, released) = toBeReleased - released
        <3>1. released <= toBeReleased /\ toBeReleased <= MaxBlocks
            BY <1>1, <2>1, BoundAssumption DEF IInv, GroupsMatchBlocks, Numbered
        <3>2. QED
            BY Zenon, <2>1, <3>1, SubIsDifference
    <2>5. toBeReleased = Larger(corruptBelow, released)
        BY Zenon, <1>1 DEF IInv, CorruptionTracked
    <2>6. QED
        BY SMTT(30), <2>1, <2>2, <2>3, <2>4, <2>5 DEF BlockReferenceToBlockIndex, Larger
<1>2. IInv => CorruptBlocksHidden
    BY Zenon, <1>1 DEF CorruptBlocksHidden
<1>3. QED
    BY Invariance, <1>2, PTL

\* The index that a finalizer returns leads to the block that was written to.
THEOREM FinalizersCorrect == Spec => []FinalizersReturnTheirBlock
<1>1. ASSUME IInv, NEW w \in Writer, writers[w] # None, ~FinalizerFails(w)
      PROVE  /\ FinalizerBlockIndex(w) < Len(blocks)
             /\ blocks[FinalizerBlockIndex(w) + 1].id = writers[w].id
             /\ BlockReferenceToBlockIndex(FinalizerBlockIndex(w))
    <2> DEFINE a == writers[w].absolute
    <2>1. /\ blocks \in Seq(Block) /\ Len(blocks) \in Nat
          /\ released \in Nat /\ toBeReleased \in Nat
        BY Zenon, <1>1, BlockTypes DEF IInv, TypeOK, Block
    <2>2. a \in Nat /\ a = writers[w].id
        BY Zenon, <1>1 DEF IInv, TypeOK, ClientsKnowBlocks
    <2>3. a < released + Len(blocks)
        BY Zenon, <1>1, <2>2 DEF IInv, ClientsKnowBlocks
    <2>4. a >= toBeReleased
        BY <1>1, <2>1, <2>2 DEF FinalizerFails
    <2> HIDE DEF a
    <2>5. /\ released <= toBeReleased
          /\ toBeReleased <= released + Len(blocks)
          /\ released + Len(blocks) <= MaxBlocks
        BY Zenon, <1>1 DEF IInv, GroupsMatchBlocks, Numbered
    <2>6. Sub(a, released) = a - released
        BY SMTT(30), <2>1, <2>2, <2>3, <2>4, <2>5, SubIsDifference, BoundAssumption
    <2>7. Sub(toBeReleased, released) = toBeReleased - released
        BY <2>1, <2>5, SubIsDifference, BoundAssumption
    <2>8. FinalizerBlockIndex(w) = a - released
        BY Zenon, <2>6 DEF FinalizerBlockIndex, a
    <2>9. a - released + 1 \in 1 .. Len(blocks)
        BY SMTT(30), <2>1, <2>2, <2>3, <2>4, <2>5
    <2>10. blocks[a - released + 1].id = released + (a - released + 1) - 1
        BY Zenon, <1>1, <2>9 DEF IInv, Numbered
    <2>11. blocks[a - released + 1].id = a
        BY <2>1, <2>2, <2>10
    <2>12. ~(a - released < toBeReleased - released)
        BY <2>1, <2>2, <2>4
    <2>13. a - released < Len(blocks)
        BY <2>1, <2>2, <2>3
    <2>14. QED
        BY ZenonT(30), <2>2, <2>7, <2>8, <2>11, <2>12, <2>13 DEF BlockReferenceToBlockIndex
<1>2. IInv => FinalizersReturnTheirBlock
    BY Zenon, <1>1 DEF FinalizersReturnTheirBlock
<1>3. QED
    BY Invariance, <1>2, PTL

\* The groups of blocks, allocation and locations are sound: all of the above.
THEOREM AllocationSoundness == Spec => []AllocationSound
<1>1. TypeOK /\ GroupsMatchBlocks /\ AllocationFindsSpace /\ FinalizersReturnTheirBlock /\ CorruptBlocksHidden
      => AllocationSound
    BY Zenon DEF AllocationSound
<1>2. QED
    BY <1>1, TypeCorrect, GroupsCorrect, AllocationCorrect, FinalizersCorrect, CorruptionHidden, PTL

----------------------------------------------------------------------------
(* The refinement of LocationBlobMap.                                      *)

Used(bs) == [i \in 1 .. Len(bs) |-> bs[i].used]

LEMMA UsedIsSeq ==
    ASSUME NEW bs \in Seq(Block)
    PROVE  Used(bs) \in Seq(0 .. BlockSize) /\ Len(Used(bs)) = Len(bs)
<1>1. Len(bs) \in Nat /\ \A i \in 1 .. Len(bs) : bs[i].used \in 0 .. BlockSize
    BY Zenon, BlockTypes
<1>2. QED
    BY <1>1 DEF Used

LEMMA UsedOfTail ==
    ASSUME NEW bs \in Seq(Block), bs # <<>>
    PROVE  Used(Tail(bs)) = Tail(Used(bs))
<1>1. /\ Tail(bs) \in Seq(Block)
      /\ Len(Tail(bs)) = Len(bs) - 1
      /\ \A i \in 1 .. Len(Tail(bs)) : Tail(bs)[i] = bs[i + 1]
      /\ Len(bs) \in Nat \ {0}
    BY Zenon, HeadTailProperties, EmptySeq
<1>2. Used(bs) \in Seq(0 .. BlockSize) /\ Len(Used(bs)) = Len(bs)
    BY Zenon, UsedIsSeq
<1>3. Used(bs) # <<>>
    BY Zenon, <1>1, <1>2, EmptySeq
<1>4. /\ Tail(Used(bs)) \in Seq(0 .. BlockSize)
      /\ Len(Tail(Used(bs))) = Len(bs) - 1
      /\ \A i \in 1 .. Len(Tail(Used(bs))) : Tail(Used(bs))[i] = Used(bs)[i + 1]
    BY Zenon, <1>2, <1>3, HeadTailProperties
<1>5. Used(Tail(bs)) \in Seq(0 .. BlockSize) /\ Len(Used(Tail(bs))) = Len(bs) - 1
    BY Zenon, <1>1, UsedIsSeq
<1>6. ASSUME NEW i \in 1 .. Len(bs) - 1
      PROVE  Used(Tail(bs))[i] = Tail(Used(bs))[i]
    <2>1. i + 1 \in 1 .. Len(bs) /\ i \in 1 .. Len(Tail(bs))
        BY <1>1
    <2>2. Used(Tail(bs))[i] = Tail(bs)[i].used
        BY Zenon, <2>1 DEF Used
    <2>3. Used(bs)[i + 1] = bs[i + 1].used
        BY Zenon, <2>1 DEF Used
    <2>4. QED
        BY Zenon, <1>1, <1>4, <2>1, <2>2, <2>3
<1>7. QED
    BY Zenon, <1>4, <1>5, <1>6, SeqEqual

LEMMA UsedOfAppend ==
    ASSUME NEW bs \in Seq(Block), NEW b \in Block
    PROVE  Used(Append(bs, b)) = Append(Used(bs), b.used)
<1>1. /\ Append(bs, b) \in Seq(Block)
      /\ Len(Append(bs, b)) = Len(bs) + 1
      /\ \A i \in 1 .. Len(bs) : Append(bs, b)[i] = bs[i]
      /\ Append(bs, b)[Len(bs) + 1] = b
      /\ Len(bs) \in Nat
    BY AppendProperties, BlockTypes
<1>2. Used(bs) \in Seq(0 .. BlockSize) /\ Len(Used(bs)) = Len(bs) /\ b.used \in 0 .. BlockSize
    BY Zenon, UsedIsSeq DEF Block
<1>3. /\ Append(Used(bs), b.used) \in Seq(0 .. BlockSize)
      /\ Len(Append(Used(bs), b.used)) = Len(bs) + 1
      /\ \A i \in 1 .. Len(bs) : Append(Used(bs), b.used)[i] = Used(bs)[i]
      /\ Append(Used(bs), b.used)[Len(bs) + 1] = b.used
    BY <1>2, AppendProperties
<1>4. Used(Append(bs, b)) \in Seq(0 .. BlockSize)
      /\ Len(Used(Append(bs, b))) = Len(bs) + 1
    BY Zenon, <1>1, UsedIsSeq
<1>5. ASSUME NEW i \in 1 .. Len(bs) + 1
      PROVE  Used(Append(bs, b))[i] = Append(Used(bs), b.used)[i]
    <2>1. Used(Append(bs, b))[i] = Append(bs, b)[i].used
        BY Zenon, <1>1 DEF Used
    <2>2. CASE i = Len(bs) + 1
        BY Zenon, <1>1, <1>3, <2>1, <2>2
    <2>3. CASE i # Len(bs) + 1
        <3>1. i \in 1 .. Len(bs)
            BY <1>1, <2>3
        <3>2. Used(bs)[i] = bs[i].used
            BY Zenon, <3>1 DEF Used
        <3>3. QED
            BY Zenon, <1>1, <1>3, <2>1, <3>1, <3>2
    <2>4. QED
        BY Zenon, <2>2, <2>3
<1>6. QED
    BY Zenon, <1>3, <1>4, <1>5, SeqEqual

\* The variables of LocationBlobMap.
LEMMA MappedState ==
    ASSUME IInv
    PROVE  /\ blocks \in Seq(Block) /\ Len(blocks) \in Nat
           /\ released \in Nat /\ toBeReleased \in Nat /\ oldBlocks \in Nat
           /\ currentBlocks \in Nat /\ newBlocks \in Nat
           /\ released <= toBeReleased /\ toBeReleased <= released + Len(blocks)
           /\ Len(blocks) = oldBlocks + currentBlocks + newBlocks
           /\ Abstract!NextBlock = released + Len(blocks)
<1>1. /\ blocks \in Seq(Block)
      /\ released \in Nat /\ toBeReleased \in Nat /\ oldBlocks \in Nat
      /\ currentBlocks \in Nat /\ newBlocks \in Nat
    BY Zenon DEF IInv, TypeOK, Block
<1>2. Len(Used(blocks)) = Len(blocks) /\ Len(blocks) \in Nat
    BY Zenon, <1>1, UsedIsSeq, BlockTypes
<1>3. Abstract!NextBlock = released + Len(blocks)
    BY Zenon, <1>2 DEF Abstract!NextBlock, Used
<1>4. QED
    BY Zenon, <1>1, <1>2, <1>3 DEF IInv, GroupsMatchBlocks

LEMMA InitRefines == Init => Abstract!Init
<1> SUFFICES ASSUME Init PROVE Abstract!Init
    BY Zenon
<1>1. IInv
    BY Zenon, InitInv
<1>2. released = 0 /\ toBeReleased = Larger(oldBlocks - DesiredOldBlocks, 0)
    BY Zenon DEF Init
<1>3. Used(blocks) \in Seq(0 .. BlockSize)
    BY Zenon, <1>1, MappedState, UsedIsSeq
<1>4. released + oldBlocks \in 0 .. Abstract!NextBlock /\ released + oldBlocks = oldBlocks
    BY <1>1, <1>2, MappedState
<1>5. QED
    BY Zenon, <1>2, <1>3, <1>4 DEF Abstract!Init, Abstract!Larger, Larger, Used

LEMMA ReadFailsRefines ==
    ASSUME IInv, NEW r \in Reader, ReadFails(r)
    PROVE  Abstract!Next
<1> DEFINE block == readers[r].id
<1>1. /\ block \in Nat /\ block < released + Len(blocks)
      /\ readers[r].total = block + 1
    BY Zenon DEF ReadFails, IInv, TypeOK, ClientsKnowBlocks
<1>2. /\ toBeReleased' = Larger(toBeReleased, block + 1)
      /\ UNCHANGED <<released, oldBlocks, blocks, policy>>
    BY Zenon, <1>1 DEF ReadFails, IncreaseTotalBlocksToBeReleased, counts
<1>3. block \in 0 .. Abstract!NextBlock - 1
    BY SMTT(30), <1>1, MappedState
<1> HIDE DEF block
<1>4. Abstract!DataIntegrityError(block)
    BY Zenon, <1>1, <1>2, MappedState DEF Abstract!DataIntegrityError, Abstract!Larger, Larger
<1>5. QED
    BY Zenon, <1>3, <1>4 DEF Abstract!Next

LEMMA ReleaseBlockRefines ==
    ASSUME IInv, ReleaseBlock
    PROVE  Abstract!Next
<1>1. released < toBeReleased
    BY MappedState DEF ReleaseBlock, At, IInv, TypeOK, PutProgress
<1>2. blocks # <<>>
    BY <1>1, MappedState, EmptySeq
<1>3. /\ released' = released + 1
      /\ blocks' = Tail(blocks)
      /\ UNCHANGED <<toBeReleased, policy>>
    BY Zenon DEF ReleaseBlock, environment
<1>4. Used(blocks') = Tail(Used(blocks))
    BY Zenon, <1>2, <1>3, MappedState, UsedOfTail
<1>5. released' + oldBlocks' = Abstract!Larger(released + oldBlocks, released')
    <2>1. CASE oldBlocks > 0
        <3>1. oldBlocks' = oldBlocks - 1
            BY <2>1, MappedState DEF ReleaseBlock
        <3>2. QED
            BY SMTT(30), <1>3, <2>1, <3>1, MappedState DEF Abstract!Larger
    <2>2. CASE oldBlocks = 0
        <3>1. oldBlocks' = 0
            BY <2>2, MappedState DEF ReleaseBlock
        <3>2. QED
            BY <1>3, <2>2, <3>1, MappedState DEF Abstract!Larger
    <2>3. QED
        BY SMTT(30), <2>1, <2>2, MappedState
<1>6. Abstract!ReleaseCorrupted
    BY Zenon, <1>1, <1>3, <1>4, <1>5 DEF Abstract!ReleaseCorrupted, Used
<1>7. QED
    BY Zenon, <1>6 DEF Abstract!Next

LEMMA UsedOfPushedBack ==
    ASSUME IInv
    PROVE  Used(PushedBack) = Append(Used(blocks), 0)
<1> DEFINE b == [id |-> NextID, used |-> 0]
<1>1. b \in Block /\ b.used = 0
    BY SMTT(30), MappedState, NextIDIsTotal, SizeAssumption DEF Block
<1> HIDE DEF b
<1>2. Used(Append(blocks, b)) = Append(Used(blocks), b.used)
    BY Zenon, <1>1, MappedState, UsedOfAppend
<1>3. QED
    BY Zenon, <1>1, <1>2 DEF PushedBack, b

LEMMA GrowRefines ==
    ASSUME IInv, Grow
    PROVE  Abstract!Next
<1>1. blocks' = PushedBack /\ UNCHANGED <<released, toBeReleased, oldBlocks, policy>>
    BY Zenon DEF Grow, environment
<1>2. Used(blocks') = Append(Used(blocks), 0)
    BY Zenon, <1>1, UsedOfPushedBack
<1>3. Abstract!PushBack
    BY Zenon, <1>1, <1>2 DEF Abstract!PushBack, Used
<1>4. QED
    BY Zenon, <1>3 DEF Abstract!Next

LEMMA RotateRefines ==
    ASSUME IInv, Rotate
    PROVE  Abstract!Next
<1>1. /\ newBlocks > 0 /\ released + oldBlocks < Abstract!NextBlock
      /\ policy' = policy
    <2>1. newBlocks > 0
        BY Zenon DEF Rotate, At, IInv, PutProgress
    <2>2. QED
        BY SMTT(30), <2>1, MappedState DEF Rotate, environment
<1>2. Used(PushedBack) = Append(Used(blocks), 0)
    BY Zenon, UsedOfPushedBack
<1>3. CASE TooManyOldBlocks
    <2>1. /\ oldBlocks + 1 > DesiredOldBlocks
          /\ blocks' = Tail(PushedBack)
          /\ released' = released + 1
          /\ toBeReleased' = Larger(toBeReleased, released + 1)
          /\ oldBlocks' = oldBlocks
        BY Zenon, <1>3, RotatedBlocks DEF TooManyOldBlocks
    <2>2. Used(blocks') = Tail(Append(Used(blocks), 0))
        <3>1. PushedBack \in Seq(Block) /\ Len(PushedBack) = Len(blocks) + 1
            BY Zenon, PushedBackBlocks
        <3>2. PushedBack # <<>>
            BY <3>1, MappedState, EmptySeq
        <3>3. QED
            BY Zenon, <1>2, <2>1, <3>1, <3>2, UsedOfTail
    <2>3. /\ released' + oldBlocks' = released + oldBlocks + 1
          /\ (released' + oldBlocks') - released > DesiredOldBlocks
        <3>1. /\ (released + 1) + oldBlocks = released + oldBlocks + 1
              /\ ((released + 1) + oldBlocks) - released > DesiredOldBlocks
            <4>1. released \in Nat /\ oldBlocks \in Nat
                BY Zenon, MappedState
            <4>2. QED
                BY <2>1, <4>1, CountAssumption
        <3>2. QED
            BY Zenon, <2>1, <3>1
    <2>4. toBeReleased' = Abstract!Larger(toBeReleased, released')
        BY Zenon, <2>1 DEF Abstract!Larger, Larger
    <2>5. Abstract!Rotate
        BY ZenonT(30), <1>1, <2>1, <2>2, <2>3, <2>4 DEF Abstract!Rotate, Used
    <2>6. QED
        BY Zenon, <2>5 DEF Abstract!Next
<1>4. CASE ~TooManyOldBlocks
    <2>1. /\ ~(oldBlocks + 1 > DesiredOldBlocks)
          /\ blocks' = PushedBack
          /\ released' = released
          /\ toBeReleased' = toBeReleased
          /\ oldBlocks' = oldBlocks + 1
        BY Zenon, <1>4, RotatedBlocks DEF TooManyOldBlocks
    <2>2. Used(blocks') = Append(Used(blocks), 0)
        BY Zenon, <1>2, <2>1
    <2>3. /\ released' + oldBlocks' = released + oldBlocks + 1
          /\ ~((released' + oldBlocks') - released > DesiredOldBlocks)
        <3>1. /\ released + (oldBlocks + 1) = released + oldBlocks + 1
              /\ ~((released + (oldBlocks + 1)) - released > DesiredOldBlocks)
            <4>1. released \in Nat /\ oldBlocks \in Nat
                BY Zenon, MappedState
            <4>2. QED
                BY SMTT(30), <2>1, <4>1, CountAssumption
        <3>2. QED
            BY Zenon, <2>1, <3>1
    <2>4. Abstract!Rotate
        BY Zenon, <1>1, <2>1, <2>2, <2>3 DEF Abstract!Rotate, Used
    <2>5. QED
        BY Zenon, <2>4 DEF Abstract!Next
<1>5. QED
    BY Zenon, <1>3, <1>4

LEMMA AllocateRefines ==
    ASSUME IInv, Allocate
    PROVE  Abstract!Next
<1> DEFINE index == AllocationIndex
           bytes == put.size
           b == [blocks[index + 1] EXCEPT !.used = @ + bytes]
<1>1. /\ index \in oldBlocks + currentBlocks .. Len(blocks) - 1
      /\ bytes \in Nat
      /\ blocks[index + 1] \in Block
      /\ blocks[index + 1].used + bytes <= BlockSize
      /\ blocks' = [blocks EXCEPT ![index + 1] = b]
      /\ b \in Block
    BY Zenon, AllocationBlock
<1>2. b.used = blocks[index + 1].used + bytes
    BY Zenon, <1>1 DEF Block
<1> HIDE DEF index, bytes, b
<1>3. index + 1 \in 1 .. Len(blocks) /\ index \in Nat
    BY SMTT(30), <1>1, MappedState
<1>4. /\ blocks' \in Seq(Block)
      /\ Len(blocks') = Len(blocks)
      /\ \A j \in 1 .. Len(blocks) : blocks'[j] = IF j = index + 1 THEN b ELSE blocks[j]
    BY SMTT(30), <1>1, <1>3, MappedState, ExceptSeq
<1>5. Used(blocks') = [Used(blocks) EXCEPT ![index + 1] = @ + bytes]
    <2>1. ASSUME NEW j \in 1 .. Len(blocks)
          PROVE  blocks'[j].used = IF j = index + 1 THEN blocks[index + 1].used + bytes
                                                   ELSE blocks[j].used
        BY Zenon, <1>2, <1>4
    <2>2. Used(blocks') = [j \in 1 .. Len(blocks) |-> blocks'[j].used]
        BY Zenon, <1>4 DEF Used
    <2>3. QED
        BY Zenon, <2>1, <2>2 DEF Used
<1>6. /\ UNCHANGED <<released, toBeReleased, oldBlocks, policy>>
    BY Zenon DEF Allocate, counts
<1>7. policy = "mutable" => index = Len(blocks) - 1
    BY SMTT(30), <1>1, MappedState DEF IInv, GroupsBounded
<1>8. bytes \in 0 .. BlockSize
    <2>1. blocks[index + 1].used \in 0 .. BlockSize
        BY Zenon, <1>1 DEF Block
    <2>2. QED
        BY SMTT(30), <1>1, <2>1, SizeAssumption
<1> DEFINE target == released + index
           next == Abstract!NextBlock
<1>9. next = released + Len(blocks)
    BY Zenon, MappedState
<1> HIDE DEF next
<1>10. /\ target \in released + oldBlocks .. next - 1
       /\ policy = "mutable" => target = next - 1
       /\ target - released = index
    <2>1. /\ released \in Nat /\ oldBlocks \in Nat /\ currentBlocks \in Nat
          /\ Len(blocks) \in Nat
        BY Zenon, MappedState
    <2>2. index \in oldBlocks + currentBlocks .. Len(blocks) - 1 /\ index \in Nat
        BY Zenon, <1>1, <1>3
    <2>3. QED
        BY SMTT(30), <1>7, <1>9, <2>1, <2>2
<1>11. Used(blocks)[index + 1] + bytes <= BlockSize
    BY Zenon, <1>1, <1>3 DEF Used
<1> HIDE DEF target
<1>12. PICK block \in released + oldBlocks .. next - 1, size \in 0 .. BlockSize :
             block = target /\ size = bytes
    BY Zenon, <1>8, <1>10
<1>13. Abstract!Allocate(block, size)
    BY ZenonT(30), <1>5, <1>6, <1>10, <1>11, <1>12 DEF Abstract!Allocate, Abstract!BlockIndex, Used, next
<1>14. QED
    BY Zenon, <1>12, <1>13 DEF Abstract!Next, next

LEMMA StutterRefines ==
    ASSUME UNCHANGED <<released, toBeReleased, oldBlocks, blocks, policy>>
    PROVE  UNCHANGED Abstract!blobMapVars
BY Zenon DEF Abstract!blobMapVars

LEMMA NextRefines ==
    ASSUME IInv, [Next]_vars
    PROVE  [Abstract!Next]_(Abstract!blobMapVars)
<1>1. CASE UNCHANGED vars
    BY Zenon, <1>1, StutterRefines DEF vars, counts
<1>2. CASE \E w \in Writer, size \in BlobSize : PutStart(w, size)
    BY Zenon, <1>2, StutterRefines DEF PutStart, counts, environment
<1>3. CASE ReleaseDone \/ PushBackFails \/ GrowDone \/ MakeCurrent \/ RotateDone
              \/ NextAllocationBlock
    BY Zenon, <1>3, StutterRefines DEF ReleaseDone, PushBackFails, GrowDone, MakeCurrent,
       RotateDone, NextAllocationBlock, counts, environment
<1>4. CASE ReleaseBlock \/ Grow \/ Rotate \/ Allocate
    BY Zenon, <1>4, ReleaseBlockRefines, GrowRefines, RotateRefines, AllocateRefines
<1>5. CASE \E w \in Writer : Finalize(w)
    BY Zenon, <1>5, StutterRefines DEF Finalize, counts
<1>6. CASE \E r \in Reader, index \in 0 .. Len(blocks) - 1 : Get(r, index)
    BY Zenon, <1>6, StutterRefines DEF Get, counts
<1>7. CASE \E r \in Reader : ReadSucceeds(r)
    BY Zenon, <1>7, StutterRefines DEF ReadSucceeds, counts
<1>8. CASE \E r \in Reader : ReadFails(r)
    BY Zenon, <1>8, ReadFailsRefines
<1>9. QED
    BY SMTT(30), <1>1, <1>2, <1>3, <1>4, <1>5, <1>6, <1>7, <1>8 DEF Next, FindBlockWithSpace

\* Whatever the policy and whenever corruption is reported, callers see a
\* LocationBlobMap: blocks only disappear oldest first, after corruption or after
\* having been "old" for long enough.
THEOREM Refinement == Spec => ImplementsLocationBlobMap
<1>1. Init => Abstract!Init
    BY Zenon, InitRefines
<1>2. IInv /\ [Next]_vars => [Abstract!Next]_(Abstract!blobMapVars)
    BY Zenon, NextRefines
<1>3. QED
    BY Invariance, <1>1, <1>2, PTL DEF Spec, ImplementsLocationBlobMap, Abstract!Spec
============================================================================
