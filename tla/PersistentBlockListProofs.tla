--------------------- MODULE PersistentBlockListProofs ---------------------
(***************************************************************************)
(* Proofs about PersistentBlockList, for every number of blocks, epochs    *)
(* and bytes.                                                              *)
(***************************************************************************)
EXTENDS PersistentBlockList, WellFoundedInduction, TLAPS

----------------------------------------------------------------------------
(* Sequences.                                                              *)

\* Elements of a sequence.
LEMMA ElementOfSeq ==
    ASSUME NEW S, NEW s \in Seq(S), NEW n \in 1 .. Len(s)
    PROVE  s[n] \in S
  OBVIOUS

\* Sequences without elements, and others.
LEMMA EmptySeq ==
    ASSUME NEW S
    PROVE  /\ << >> \in Seq(S) /\ Len(<< >>) = 0
           /\ \A s \in Seq(S) : s # << >> => Len(s) \in Nat \ {0}
  OBVIOUS

\* Lengths of sequences.
LEMMA LenProperties ==
    ASSUME NEW S, NEW s \in Seq(S)
    PROVE  Len(s) \in Nat /\ s \in [1 .. Len(s) -> S] /\ DOMAIN s = 1 .. Len(s)
  OBVIOUS

\* Assigning to an element of a sequence.
LEMMA ExceptSeq ==
    ASSUME NEW S, NEW s \in Seq(S), NEW i \in 1 .. Len(s), NEW e \in S
    PROVE  /\ [s EXCEPT ![i] = e] \in Seq(S)
           /\ Len([s EXCEPT ![i] = e]) = Len(s)
           /\ \A j \in 1 .. Len(s) : [s EXCEPT ![i] = e][j] = IF j = i THEN e ELSE s[j]
  OBVIOUS

\* Parts of a sequence.
LEMMA SubSeqProperties ==
    ASSUME NEW S, NEW s, NEW m \in Int, NEW n \in Int, \A i \in m .. n : s[i] \in S
    PROVE  /\ SubSeq(s, m, n) \in Seq(S)
           /\ Len(SubSeq(s, m, n)) = IF m <= n THEN n - m + 1 ELSE 0
           /\ \A i \in 1 .. n - m + 1 : SubSeq(s, m, n)[i] = s[m + i - 1]
  OBVIOUS

\* Dropping the first element of a sequence.
LEMMA HeadTailProperties ==
    ASSUME NEW S, NEW s \in Seq(S), s # << >>
    PROVE  /\ Head(s) \in S /\ Tail(s) \in Seq(S) /\ Len(Tail(s)) = Len(s) - 1
           /\ \A i \in 1 .. Len(Tail(s)) : Tail(s)[i] = s[i + 1]
  OBVIOUS

\* Appending to a sequence.
LEMMA AppendProperties ==
    ASSUME NEW S, NEW s \in Seq(S), NEW e \in S
    PROVE  /\ Append(s, e) \in Seq(S) /\ Append(s, e) # << >> /\ Len(Append(s, e)) = Len(s) + 1
           /\ \A i \in 1 .. Len(s) : Append(s, e)[i] = s[i]
           /\ Append(s, e)[Len(s) + 1] = e
  OBVIOUS
----------------------------------------------------------------------------
(* Running totals of the epoch counts.                                     *)

\* Induction over the natural numbers, stated with a set.
LEMMA NatSetInduction ==
    ASSUME NEW T, 0 \in T, \A n \in Nat : n \in T => n + 1 \in T
    PROVE  Nat \subseteq T
<1> DEFINE C == Nat \ T
<1> SUFFICES ASSUME C # {} PROVE FALSE
    BY Zenon
<1>1. PICK x \in C : \A y \in C : ~(<<y, x>> \in OpToRel(<, Nat))
    <2>1. C \subseteq Nat
        BY Zenon
    <2> HIDE DEF C
    <2>2. QED
        BY Zenon, <2>1, WFMin, NatLessThanWellFounded
<1>2. x \in Nat \ {0}
    BY Zenon
<1>3. x - 1 \in T
    <2>1. <<x - 1, x>> \in OpToRel(<, Nat)
        BY <1>2 DEF OpToRel
    <2>2. x - 1 \notin C
        BY Zenon, <1>1, <2>1
    <2>3. QED
        BY <1>2, <2>2
<1>4. QED
    BY <1>2, <1>3

\* t is the running total of the epoch counts of bs.
IsRunningTotal(t, bs) ==
    /\ t \in [0 .. Len(bs) -> Nat]
    /\ t[0] = 0
    /\ \A i \in 1 .. Len(bs) : t[i] = t[i - 1] + bs[i].epochCount

\* A running total exists.
LEMMA RunningTotalExists ==
    ASSUME NEW bs, Len(bs) \in Nat, \A i \in 1 .. Len(bs) : bs[i].epochCount \in Nat
    PROVE  \E t : IsRunningTotal(t, bs)
<1> DEFINE Total(t, n) == /\ t \in [0 .. n -> Nat]
                          /\ t[0] = 0
                          /\ \A i \in 1 .. n : t[i] = t[i - 1] + bs[i].epochCount
           T == {n \in Nat : n <= Len(bs) => \E t : Total(t, n)}
<1>1. 0 \in T
    <2>1. Total([j \in 0 .. 0 |-> 0], 0)
        OBVIOUS
    <2>2. QED
        BY Zenon, <2>1
<1>2. ASSUME NEW n \in Nat, n \in T PROVE n + 1 \in T
    <2> HIDE DEF Total
    <2> SUFFICES ASSUME n + 1 <= Len(bs) PROVE \E t : Total(t, n + 1)
        OBVIOUS
    <2>0. n <= Len(bs)
        OBVIOUS
    <2>1. PICK t : Total(t, n)
        BY Zenon, <1>2, <2>0
    <2> USE DEF Total
    <2> DEFINE u == [j \in 0 .. n + 1 |->
                        IF j = n + 1 THEN t[n] + bs[n + 1].epochCount ELSE t[j]]
    <2>2. Total(u, n + 1)
        <3>1. u \in [0 .. n + 1 -> Nat]
            BY <2>1
        <3>2. u[0] = 0
            BY <2>1
        <3>3. ASSUME NEW i \in 1 .. n + 1 PROVE u[i] = u[i - 1] + bs[i].epochCount
            BY <2>1
        <3>4. QED
            BY Zenon, <3>1, <3>2, <3>3
    <2>3. QED
        BY Zenon, <2>2
<1>3. Len(bs) \in T
    <2> HIDE DEF T
    <2>1. Nat \subseteq T
        BY Zenon, <1>1, <1>2, NatSetInduction
    <2>2. QED
        BY Zenon, <2>1
<1>4. QED
    BY <1>3 DEF IsRunningTotal

\* There is only one.
LEMMA RunningTotalUnique ==
    ASSUME NEW bs, Len(bs) \in Nat,
           NEW t, IsRunningTotal(t, bs), NEW u, IsRunningTotal(u, bs)
    PROVE  t = u
<1> DEFINE T == {n \in Nat : n <= Len(bs) => t[n] = u[n]}
<1>1. 0 \in T
    BY Zenon DEF IsRunningTotal
<1>2. ASSUME NEW n \in Nat, n \in T PROVE n + 1 \in T
    BY <1>2 DEF IsRunningTotal
<1>3. Nat \subseteq T
    <2> HIDE DEF T
    <2>1. QED
        BY Zenon, <1>1, <1>2, NatSetInduction
<1>4. QED
    BY <1>3 DEF IsRunningTotal

\* EpochsUpTo computes it.
LEMMA EpochsUpToIsTotal ==
    ASSUME NEW bs, Len(bs) \in Nat, \A i \in 1 .. Len(bs) : bs[i].epochCount \in Nat
    PROVE  IsRunningTotal(EpochsUpTo(bs), bs)
<1> DEFINE F(t) == [n \in 0 .. Len(bs) |->
                       IF n = 0 THEN 0 ELSE t[n - 1] + bs[n].epochCount]
<1>1. PICK t : IsRunningTotal(t, bs)
    BY Zenon, RunningTotalExists
<1>2. t = F(t)
    BY <1>1 DEF IsRunningTotal
<1>3. EpochsUpTo(bs) = F(EpochsUpTo(bs))
    BY Zenon, <1>2 DEF EpochsUpTo
<1> DEFINE e == EpochsUpTo(bs)
<1>4. e = F(e)
    BY Zenon, <1>3
<1> HIDE DEF e
<1> DEFINE T == {n \in Nat : n <= Len(bs) => e[n] = t[n]}
<1>5. 0 \in T
    BY <1>1, <1>4 DEF IsRunningTotal
<1>6. ASSUME NEW n \in Nat, n \in T PROVE n + 1 \in T
    <2> SUFFICES ASSUME n + 1 <= Len(bs) PROVE e[n + 1] = t[n + 1]
        OBVIOUS
    <2>1. e[n + 1] = e[n] + bs[n + 1].epochCount
        BY <1>4
    <2>2. QED
        BY <1>1, <1>6, <2>1 DEF IsRunningTotal
<1>7. Nat \subseteq T
    <2> HIDE DEF T
    <2>1. QED
        BY Zenon, <1>5, <1>6, NatSetInduction
<1>8. DOMAIN e = 0 .. Len(bs)
    BY Zenon, <1>4
<1>9. e = t
    <2>1. e = [n \in 0 .. Len(bs) |-> e[n]]
        BY Zenon, <1>4
    <2>2. \A n \in 0 .. Len(bs) : e[n] = t[n]
        BY <1>7
    <2>3. QED
        BY Zenon, <1>1, <2>1, <2>2 DEF IsRunningTotal
<1>10. QED
    BY Zenon, <1>1, <1>9 DEF e

\* A running total never decreases.
LEMMA RunningTotalMonotonic ==
    ASSUME NEW bs, Len(bs) \in Nat, \A i \in 1 .. Len(bs) : bs[i].epochCount \in Nat,
           NEW t, IsRunningTotal(t, bs),
           NEW i \in 0 .. Len(bs), NEW j \in 0 .. Len(bs), i <= j
    PROVE  t[i] <= t[j]
<1> DEFINE T == {n \in Nat : i + n <= Len(bs) => t[i] <= t[i + n]}
<1>1. 0 \in T
    BY SMTT(30) DEF IsRunningTotal
<1>2. ASSUME NEW n \in Nat, n \in T PROVE n + 1 \in T
    <2> SUFFICES ASSUME i + (n + 1) <= Len(bs) PROVE t[i] <= t[i + (n + 1)]
        OBVIOUS
    <2>1. t[i + (n + 1)] = t[i + n] + bs[i + (n + 1)].epochCount
        BY DEF IsRunningTotal
    <2>2. t[i] \in Nat /\ t[i + n] \in Nat /\ bs[i + (n + 1)].epochCount \in Nat
        BY SMTT(30) DEF IsRunningTotal
    <2>3. QED
        BY SMTT(30), <1>2, <2>1, <2>2
<1>3. Nat \subseteq T
    <2> HIDE DEF T
    <2>1. QED
        BY Zenon, <1>1, <1>2, NatSetInduction
<1>4. j - i \in T /\ i + (j - i) = j
    BY <1>3
<1>5. QED
    BY <1>4

\* Every epoch is counted by exactly one block.
LEMMA EpochHasOwner ==
    ASSUME NEW bs, Len(bs) \in Nat, \A i \in 1 .. Len(bs) : bs[i].epochCount \in Nat,
           NEW t, IsRunningTotal(t, bs), NEW e \in 1 .. t[Len(bs)]
    PROVE  \E i \in 1 .. Len(bs) : t[i - 1] < e /\ e <= t[i]
<1> SUFFICES ASSUME \A i \in 1 .. Len(bs) : ~(t[i - 1] < e /\ e <= t[i])
             PROVE  FALSE
    BY Zenon
<1> DEFINE T == {n \in Nat : n <= Len(bs) => t[n] < e}
<1>1. 0 \in T
    BY DEF IsRunningTotal
<1>2. ASSUME NEW n \in Nat, n \in T PROVE n + 1 \in T
    <2> SUFFICES ASSUME n + 1 <= Len(bs) PROVE t[n + 1] < e
        OBVIOUS
    <2>1. n + 1 \in 1 .. Len(bs) /\ (n + 1) - 1 = n
        OBVIOUS
    <2>2. t[n] < e /\ ~(t[n] < e /\ e <= t[n + 1])
        BY <1>2, <2>1
    <2>3. t[n + 1] \in Nat /\ t[Len(bs)] \in Nat
        BY DEF IsRunningTotal
    <2>4. QED
        BY <2>2, <2>3
<1>3. Nat \subseteq T
    <2> HIDE DEF T
    <2>1. QED
        BY Zenon, <1>1, <1>2, NatSetInduction
<1>4. t[Len(bs)] < e
    BY <1>3
<1>5. QED
    BY <1>4 DEF IsRunningTotal

LEMMA EpochOwnerUnique ==
    ASSUME NEW bs, Len(bs) \in Nat, \A i \in 1 .. Len(bs) : bs[i].epochCount \in Nat,
           NEW t, IsRunningTotal(t, bs), NEW e \in Nat,
           NEW i \in 1 .. Len(bs), t[i - 1] < e, e <= t[i],
           NEW j \in 1 .. Len(bs), t[j - 1] < e, e <= t[j]
    PROVE  i = j
<1>1. ASSUME NEW k \in 1 .. Len(bs), NEW m \in 1 .. Len(bs), k < m,
             e <= t[k], t[m - 1] < e
      PROVE  FALSE
    <2>1. t[k] <= t[m - 1]
        BY SMTT(30), <1>1, RunningTotalMonotonic
    <2>2. t[k] \in Nat /\ t[m - 1] \in Nat
        BY SMTT(30) DEF IsRunningTotal
    <2>3. QED
        BY <1>1, <2>1, <2>2
<1>2. QED
    BY <1>1

----------------------------------------------------------------------------
(* The inductive invariant.                                                *)

\* t shows how the blocks partition the epochs.
IsPartition(t) ==
    /\ IsRunningTotal(t, blocks)
    /\ t[Len(blocks)] = Len(epochHashSeeds)
    /\ \A i \in 1 .. Len(blocks) : \A e \in t[i - 1] + 1 .. t[i] :
           epochLastAbsoluteBlockIndex[e] = totalBlocksReleased + i - 1

IInv == /\ TypeOK
        /\ OffsetsOrdered
        /\ EpochsOrdered
        /\ WakeupsMatchWork
        /\ \E t : IsPartition(t)

LEMMA BlockTypes ==
    ASSUME NEW bs \in Seq(BlockInfo)
    PROVE  /\ Len(bs) \in Nat
           /\ DOMAIN bs = 1 .. Len(bs)
           /\ \A i \in 1 .. Len(bs) : bs[i] \in BlockInfo /\ bs[i].epochCount \in Nat
<1>1. Len(bs) \in Nat /\ DOMAIN bs = 1 .. Len(bs)
    BY Zenon, LenProperties
<1>2. ASSUME NEW i \in 1 .. Len(bs)
      PROVE  bs[i] \in BlockInfo /\ bs[i].epochCount \in Nat
    <2>1. bs[i] \in BlockInfo
        BY Zenon, ElementOfSeq
    <2>2. QED
        BY Zenon, <2>1 DEF BlockInfo
<1>3. QED
    BY Zenon, <1>1, <1>2

LEMMA PartitionImpliesPartitioned ==
    ASSUME TypeOK, NEW t, IsPartition(t)
    PROVE  EpochsPartitioned
<1>1. IsRunningTotal(EpochsUpTo(blocks), blocks)
    BY Zenon, BlockTypes, EpochsUpToIsTotal DEF TypeOK
<1>2. t = EpochsUpTo(blocks)
    BY Zenon, <1>1, RunningTotalUnique, BlockTypes DEF TypeOK, IsPartition
<1>3. IsEpochTotal(t)
    BY Zenon DEF IsPartition, IsEpochTotal, IsRunningTotal
<1>4. QED
    BY Zenon, <1>2, <1>3 DEF EpochsPartitioned

----------------------------------------------------------------------------
(* Every step preserves the invariant.                                     *)

\* The slice expression s[n:].
LEMMA DropPrefix ==
    ASSUME NEW S, NEW s \in Seq(S), NEW n \in 0 .. Len(s)
    PROVE  /\ SubSeq(s, n + 1, Len(s)) \in Seq(S)
           /\ Len(SubSeq(s, n + 1, Len(s))) = Len(s) - n
           /\ \A i \in 1 .. Len(s) - n : SubSeq(s, n + 1, Len(s))[i] = s[i + n]
<1>1. Len(s) \in Nat
    BY Zenon, LenProperties
<1>2. \A i \in n + 1 .. Len(s) : s[i] \in S
    BY <1>1, ElementOfSeq
<1>3. n + 1 \in Int /\ Len(s) \in Int
    BY <1>1
<1>4. /\ SubSeq(s, n + 1, Len(s)) \in Seq(S)
      /\ Len(SubSeq(s, n + 1, Len(s))) =
             IF n + 1 <= Len(s) THEN Len(s) - (n + 1) + 1 ELSE 0
      /\ \A i \in 1 .. Len(s) - (n + 1) + 1 :
             SubSeq(s, n + 1, Len(s))[i] = s[(n + 1) + i - 1]
    BY <1>2, <1>3, SubSeqProperties
<1>5. Len(SubSeq(s, n + 1, Len(s))) = Len(s) - n
    BY <1>1, <1>4
<1>6. ASSUME NEW i \in 1 .. Len(s) - n
      PROVE  SubSeq(s, n + 1, Len(s))[i] = s[i + n]
    <2>1. i \in 1 .. Len(s) - (n + 1) + 1 /\ (n + 1) + i - 1 = i + n
        BY <1>1
    <2>2. QED
        BY Zenon, <1>4, <2>1
<1>7. QED
    BY Zenon, <1>4, <1>5, <1>6

LEMMA EpochAddType ==
    ASSUME NEW id \in EpochID, NEW n \in 0 .. EpochIDs
    PROVE  EpochAdd(id, n) \in EpochID
BY EpochAssumption DEF EpochAdd, EpochID

LEMMA DropEpochsOrdered ==
    ASSUME NEW a \in Nat, NEW b \in Nat, NEW c \in Nat, NEW n \in Nat,
           a <= b, b <= c, n <= c
    PROVE  /\ DropEpochs(a, n) \in Nat
           /\ DropEpochs(b, n) \in Nat
           /\ DropEpochs(a, n) <= DropEpochs(b, n)
           /\ DropEpochs(b, n) <= c - n
BY DEF DropEpochs

\* The numbers among the types.
LEMMA NumberTypes ==
    ASSUME TypeOK
    PROVE  /\ Len(blocks) \in Nat
           /\ Len(epochHashSeeds) \in Nat
           /\ Len(epochLastAbsoluteBlockIndex) = Len(epochHashSeeds)
           /\ Len(epochHashSeeds) <= MaxEpochs
           /\ totalBlocksReleased \in Nat
           /\ oldestEpochID \in Nat
           /\ oldestEpochID < EpochIDs
           /\ synchronizingEpochs \in Nat
           /\ synchronizedEpochs \in Nat
           /\ Len(blocksToRelease) \in Nat
           /\ blocksReleasing \in Nat
<1>1. /\ Len(blocks) \in Nat
      /\ Len(epochHashSeeds) \in Nat
      /\ Len(blocksToRelease) \in Nat
    BY Zenon, LenProperties DEF TypeOK
<1>2. oldestEpochID \in Nat /\ oldestEpochID < EpochIDs
    BY EpochAssumption DEF TypeOK, EpochID
<1>3. QED
    BY Zenon, <1>1, <1>2 DEF TypeOK

LEMMA PopFrontInv ==
    ASSUME IInv, PopFront
    PROVE  IInv'
<1> DEFINE n == Head(blocks).epochCount
<1> USE EpochAssumption
<1>1. /\ blocks \in Seq(BlockInfo)
      /\ Len(blocks) \in Nat \ {0}
      /\ Head(blocks) = blocks[1]
      /\ blocks' = Tail(blocks)
    <2>1. blocks \in Seq(BlockInfo) /\ blocks # <<>> /\ blocks' = Tail(blocks)
        BY Zenon DEF IInv, TypeOK, PopFront
    <2>2. QED
        BY <2>1, HeadTailProperties, BlockTypes, EmptySeq
<1>2. /\ blocks' \in Seq(BlockInfo)
      /\ Len(blocks') = Len(blocks) - 1
      /\ \A i \in 1 .. Len(blocks) - 1 : blocks'[i] = blocks[i + 1]
    BY <1>1, HeadTailProperties
<1>3. PICK t : IsPartition(t)
    BY Zenon DEF IInv
<1>4. n \in Nat /\ n = t[1] /\ n <= Len(epochHashSeeds)
    <2>1. IsRunningTotal(t, blocks) /\ t[Len(blocks)] = Len(epochHashSeeds)
        BY Zenon, <1>3 DEF IsPartition
    <2>2. t[1] <= t[Len(blocks)]
        BY SMTT(30), <1>1, <2>1, BlockTypes, RunningTotalMonotonic
    <2>3. n \in Nat
        BY <1>1, BlockTypes
    <2>4. t[1] = n
        BY <1>1, <2>1, <2>3 DEF IsRunningTotal
    <2>5. QED
        BY Zenon, <2>1, <2>2, <2>3, <2>4
<1>5. /\ epochHashSeeds \in Seq(Seed)
      /\ epochLastAbsoluteBlockIndex \in Seq(Nat)
      /\ Len(epochLastAbsoluteBlockIndex) = Len(epochHashSeeds)
      /\ Len(epochHashSeeds) \in Nat
      /\ Len(epochHashSeeds) <= MaxEpochs
    BY DEF IInv, TypeOK
<1>6. /\ epochHashSeeds' \in Seq(Seed)
      /\ Len(epochHashSeeds') = Len(epochHashSeeds) - n
    <2>1. epochHashSeeds' = SubSeq(epochHashSeeds, n + 1, Len(epochHashSeeds))
        BY Zenon DEF PopFront
    <2> HIDE DEF n
    <2>2. /\ SubSeq(epochHashSeeds, n + 1, Len(epochHashSeeds)) \in Seq(Seed)
          /\ Len(SubSeq(epochHashSeeds, n + 1, Len(epochHashSeeds)))
                 = Len(epochHashSeeds) - n
        <3>1. n \in 0 .. Len(epochHashSeeds)
            BY <1>4, <1>5
        <3>2. QED
            BY Zenon, <1>5, <3>1, DropPrefix
    <2>3. QED
        BY Zenon, <2>1, <2>2
<1>7. /\ epochLastAbsoluteBlockIndex' \in Seq(Nat)
      /\ Len(epochLastAbsoluteBlockIndex') = Len(epochHashSeeds) - n
      /\ \A e \in 1 .. Len(epochHashSeeds) - n :
             epochLastAbsoluteBlockIndex'[e] = epochLastAbsoluteBlockIndex[e + n]
    <2>1. epochLastAbsoluteBlockIndex' =
              SubSeq(epochLastAbsoluteBlockIndex, n + 1,
                     Len(epochLastAbsoluteBlockIndex))
        BY Zenon DEF PopFront
    <2> HIDE DEF n
    <2>2. n \in 0 .. Len(epochLastAbsoluteBlockIndex)
        BY <1>4, <1>5
    <2>3. QED
        BY Zenon, <1>5, <2>1, <2>2, DropPrefix
<1>8. /\ synchronizingEpochs' = DropEpochs(synchronizingEpochs, n)
      /\ synchronizedEpochs' = DropEpochs(synchronizedEpochs, n)
      /\ totalBlocksReleased' = totalBlocksReleased + 1
      /\ oldestEpochID' = EpochAdd(oldestEpochID, n)
    BY Zenon DEF PopFront
<1> HIDE DEF n
<1>a. /\ totalBlocksReleased \in Nat
      /\ oldestEpochID \in Nat
      /\ oldestEpochID < EpochIDs
      /\ synchronizingEpochs \in Nat
      /\ synchronizedEpochs \in Nat
      /\ synchronizedEpochs <= synchronizingEpochs
      /\ synchronizingEpochs <= Len(epochHashSeeds)
    BY Zenon, NumberTypes DEF IInv, EpochsOrdered
<1>9. TypeOK'
    <2>1. blocksToRelease' \in Seq(Location) /\ blocksReleasing' \in Nat
        <3>1. Head(blocks) \in BlockInfo
            BY <1>1, BlockTypes
        <3>2. Head(blocks).location \in Location
            BY Zenon, <3>1 DEF BlockInfo
        <3>3. QED
            BY <3>2 DEF IInv, TypeOK, PopFront
    <2>2. oldestEpochID' \in EpochID
        <3>1. oldestEpochID \in EpochID
            BY Zenon DEF IInv, TypeOK
        <3>2. n \in 0 .. EpochIDs
            BY <1>4, <1>5
        <3>3. QED
            BY Zenon, <1>8, <3>1, <3>2, EpochAddType
    <2>3. synchronizingEpochs' \in Nat /\ synchronizedEpochs' \in Nat
        BY SMTT(30), <1>4, <1>8, <1>a DEF DropEpochs
    <2>4. blockPutWakeup' \in BOOLEAN
        BY Zenon DEF PopFront
    <2>5. blockReleaseWakeup' \in BOOLEAN
        BY Zenon DEF PopFront
    <2>6. closedForWriting' \in BOOLEAN
        BY Zenon DEF PopFront, IInv, TypeOK
    <2>7. totalBlocksReleased' \in Nat
        BY <1>8 DEF IInv, TypeOK
    <2>8. Len(epochHashSeeds') <= MaxEpochs
        BY <1>4, <1>5, <1>6
    <2>9. QED
        BY Zenon, <1>2, <1>6, <1>7, <2>1, <2>2, <2>3, <2>4, <2>5, <2>6, <2>7, <2>8
           DEF TypeOK
<1>10. OffsetsOrdered'
    <2>1. \A i \in 1 .. Len(blocks) :
              /\ blocks[i].synchronizedOffsetBytes <= blocks[i].synchronizingOffsetBytes
              /\ blocks[i].synchronizingOffsetBytes <= blocks[i].writtenOffsetBytes
        BY Zenon, <1>1, BlockTypes DEF IInv, OffsetsOrdered
    <2>2. DOMAIN blocks' = 1 .. Len(blocks) - 1
        BY Zenon, <1>1, <1>2, BlockTypes
    <2>3. QED
        BY <1>1, <1>2, <2>1, <2>2 DEF OffsetsOrdered
<1>11. EpochsOrdered'
    <2>1. n \in Nat /\ n <= Len(epochHashSeeds) /\ Len(epochHashSeeds) \in Nat
        BY Zenon, <1>4, <1>5
    <2>2. /\ DropEpochs(synchronizedEpochs, n) <= DropEpochs(synchronizingEpochs, n)
          /\ DropEpochs(synchronizingEpochs, n) <= Len(epochHashSeeds) - n
        BY Zenon, <1>a, <2>1, DropEpochsOrdered
    <2>3. QED
        BY Zenon, <1>6, <1>8, <2>2 DEF EpochsOrdered
<1>12. WakeupsMatchWork'
    <2>1. blockPutWakeup' <=> synchronizedEpochs' = Len(epochHashSeeds')
        <3>1. blockPutWakeup' = (\/ blockPutWakeup
                                 \/ synchronizedEpochs' = Len(epochHashSeeds'))
            BY Zenon DEF PopFront
        <3>2. blockPutWakeup => synchronizedEpochs = Len(epochHashSeeds)
            BY Zenon DEF IInv, WakeupsMatchWork
        <3>3. synchronizedEpochs = Len(epochHashSeeds)
                  => synchronizedEpochs' = Len(epochHashSeeds')
            BY <1>4, <1>5, <1>6, <1>8 DEF DropEpochs
        <3>4. QED
            BY Zenon, <3>1, <3>2, <3>3
    <2>2. ~blockReleaseWakeup' /\ blocksToRelease' # <<>>
          /\ Len(blocksToRelease') = Len(blocksToRelease) + 1
        <3>1. blocksToRelease \in Seq(Location) /\ Head(blocks) \in BlockInfo
            BY <1>1, BlockTypes DEF IInv, TypeOK
        <3>2. Head(blocks).location \in Location
            BY Zenon, <3>1 DEF BlockInfo
        <3>3. /\ blocksToRelease' = Append(blocksToRelease, Head(blocks).location)
              /\ blockReleaseWakeup' = FALSE
            BY Zenon DEF PopFront
        <3>4. QED
            BY <3>1, <3>2, <3>3, AppendProperties
    <2>3. blocksReleasing' <= Len(blocksToRelease')
        <3>1. blocksReleasing' = blocksReleasing /\ blocksReleasing <= Len(blocksToRelease)
            BY Zenon DEF PopFront, IInv, WakeupsMatchWork
        <3>2. QED
            BY SMTT(30), <2>2, <3>1, NumberTypes DEF IInv
    <2>4. QED
        BY Zenon, <2>1, <2>2, <2>3 DEF WakeupsMatchWork
<1>13. \E u : IsPartition(u)'
    <2>1. PICK u : u = [i \in 0 .. Len(blocks) - 1 |-> t[i + 1] - t[1]]
        BY Zenon
    <2>2. /\ t \in [0 .. Len(blocks) -> Nat]
          /\ t[0] = 0
          /\ \A i \in 1 .. Len(blocks) : t[i] = t[i - 1] + blocks[i].epochCount
          /\ t[Len(blocks)] = Len(epochHashSeeds)
        BY Zenon, <1>3 DEF IsPartition, IsRunningTotal
    <2>a. \A i \in 0 .. Len(blocks) : t[i] \in Nat
        BY Zenon, <2>2
    <2>3. \A i \in 1 .. Len(blocks) : t[1] <= t[i] /\ t[i] <= t[Len(blocks)]
        BY SMTT(30), <1>1, <1>3, BlockTypes, RunningTotalMonotonic DEF IsPartition
    <2>4. IsRunningTotal(u, blocks')
        <3>1. u \in [0 .. Len(blocks') -> Nat]
            <4>1. ASSUME NEW i \in 0 .. Len(blocks) - 1
                  PROVE  t[i + 1] - t[1] \in Nat
                <5>1. i + 1 \in 1 .. Len(blocks) /\ 1 \in 0 .. Len(blocks)
                    BY <1>1
                <5>2. t[i + 1] \in Nat /\ t[1] \in Nat /\ t[1] <= t[i + 1]
                    BY <1>1, <2>a, <2>3, <5>1
                <5>3. QED
                    BY <5>2
            <4>2. QED
                BY Zenon, <1>2, <2>1, <4>1
        <3>2. u[0] = 0
            <4>1. 0 \in 0 .. Len(blocks) - 1 /\ 0 + 1 = 1 /\ 1 \in 0 .. Len(blocks)
                BY <1>1
            <4>2. u[0] = t[1] - t[1] /\ t[1] \in Nat
                BY Zenon, <2>1, <2>2, <4>1
            <4>3. QED
                BY <4>2
        <3>3. ASSUME NEW i \in 1 .. Len(blocks')
              PROVE  u[i] = u[i - 1] + blocks'[i].epochCount
            <4>1. i + 1 \in 1 .. Len(blocks) /\ i \in 1 .. Len(blocks)
                BY <1>1, <1>2
            <4>2. t[i + 1] = t[i] + blocks[i + 1].epochCount
                BY <2>2, <4>1
            <4>3. blocks[i + 1].epochCount \in Nat
                BY Zenon, <1>1, <4>1, BlockTypes
            <4>4. u[i] = t[i + 1] - t[1] /\ u[i - 1] = t[i] - t[1]
                BY <1>1, <1>2, <2>1
            <4>5. blocks'[i] = blocks[i + 1]
                BY Zenon, <1>2
            <4>6. t[1] \in Nat /\ t[i] \in Nat
                BY <1>1, <2>a, <4>1
            <4>7. QED
                BY <4>2, <4>3, <4>4, <4>5, <4>6
        <3>4. QED
            BY Zenon, <3>1, <3>2, <3>3 DEF IsRunningTotal
    <2>5. u[Len(blocks')] = Len(epochHashSeeds')
        BY SMTT(30), <1>1, <1>2, <1>4, <1>6, <2>1, <2>2
    <2>6. ASSUME NEW i \in 1 .. Len(blocks'), NEW e \in u[i - 1] + 1 .. u[i]
          PROVE  epochLastAbsoluteBlockIndex'[e] = totalBlocksReleased' + i - 1
        <3>1. i + 1 \in 1 .. Len(blocks) /\ i \in 1 .. Len(blocks)
            BY <1>1, <1>2
        <3>2. u[i] = t[i + 1] - n /\ u[i - 1] = t[i] - n
            BY <1>1, <1>2, <1>4, <2>1
        <3>3. t[i] \in Nat /\ t[i + 1] \in Nat /\ n <= t[i] /\ t[i + 1] <= Len(epochHashSeeds)
            BY SMTT(30), <1>4, <2>2, <2>3, <3>1
        <3>4. e + n \in t[i] + 1 .. t[i + 1] /\ e \in 1 .. Len(epochHashSeeds) - n
            <4>1. e \in (t[i] - n) + 1 .. t[i + 1] - n
                BY Zenon, <3>2
            <4>2. /\ n \in Nat /\ Len(epochHashSeeds) \in Nat
                  /\ t[i] \in Nat /\ t[i + 1] \in Nat
                  /\ n <= t[i] /\ t[i + 1] <= Len(epochHashSeeds)
                BY Zenon, <1>4, <1>5, <3>3
            <4>3. QED
                BY SMTT(30), <4>1, <4>2
        <3>5. epochLastAbsoluteBlockIndex[e + n] = totalBlocksReleased + (i + 1) - 1
            <4>1. e + n \in t[(i + 1) - 1] + 1 .. t[i + 1]
                BY <3>1, <3>4
            <4>2. QED
                BY Zenon, <1>3, <3>1, <4>1 DEF IsPartition
        <3>6. totalBlocksReleased \in Nat
            BY Zenon DEF IInv, TypeOK
        <3>7. QED
            BY SMTT(30), <1>7, <1>8, <3>4, <3>5, <3>6
    <2>7. QED
        BY Zenon, <2>4, <2>5, <2>6 DEF IsPartition
<1>14. QED
    BY Zenon, <1>9, <1>10, <1>11, <1>12, <1>13 DEF IInv

LEMMA PushBackInv ==
    ASSUME IInv, NEW location \in Location, PushBack(location)
    PROVE  IInv'
<1> DEFINE b == [location |-> location,
                 writtenOffsetBytes |-> 0,
                 synchronizingOffsetBytes |-> 0,
                 synchronizedOffsetBytes |-> 0,
                 epochCount |-> 0]
<1>1. b \in BlockInfo
    BY BlockSizeAssumption DEF BlockInfo
<1>2. blocks \in Seq(BlockInfo) /\ Len(blocks) \in Nat /\ blocks' = Append(blocks, b)
    BY Zenon, NumberTypes DEF IInv, TypeOK, PushBack
<1>3. /\ blocks' \in Seq(BlockInfo)
      /\ Len(blocks') = Len(blocks) + 1
      /\ \A i \in 1 .. Len(blocks) : blocks'[i] = blocks[i]
      /\ blocks'[Len(blocks) + 1] = b
    <2> HIDE DEF b
    <2>1. QED
        BY <1>1, <1>2, AppendProperties
<1>4. UNCHANGED <<epochVars, totalBlocksReleased, syncVars, releaseVars,
                  closedForWriting>>
    BY Zenon DEF PushBack
<1> USE <1>4 DEF epochVars, syncVars, releaseVars
<1>5. TypeOK'
    BY Zenon, <1>3 DEF IInv, TypeOK
<1>6. OffsetsOrdered'
    <2>1. DOMAIN blocks' = 1 .. Len(blocks) + 1 /\ DOMAIN blocks = 1 .. Len(blocks)
        BY Zenon, <1>2, <1>3, BlockTypes
    <2>2. ASSUME NEW i \in DOMAIN blocks'
          PROVE  /\ blocks'[i].synchronizedOffsetBytes <= blocks'[i].synchronizingOffsetBytes
                 /\ blocks'[i].synchronizingOffsetBytes <= blocks'[i].writtenOffsetBytes
        <3>1. CASE i = Len(blocks) + 1
            BY <1>3, <3>1
        <3>2. CASE i # Len(blocks) + 1
            <4>1. i \in DOMAIN blocks
                BY <1>2, <2>1, <3>2
            <4>2. QED
                BY Zenon, <1>3, <2>1, <4>1 DEF IInv, OffsetsOrdered
        <3>3. QED
            BY Zenon, <3>1, <3>2
    <2>3. QED
        BY Zenon, <2>2 DEF OffsetsOrdered
<1>7. EpochsOrdered' /\ WakeupsMatchWork'
    BY Zenon DEF IInv, EpochsOrdered, WakeupsMatchWork
<1>8. \E u : IsPartition(u)'
    <2>1. PICK t : IsPartition(t)
        BY Zenon DEF IInv
    <2>2. /\ t \in [0 .. Len(blocks) -> Nat]
          /\ t[0] = 0
          /\ \A i \in 1 .. Len(blocks) : t[i] = t[i - 1] + blocks[i].epochCount
          /\ t[Len(blocks)] = Len(epochHashSeeds)
        BY Zenon, <2>1 DEF IsPartition, IsRunningTotal
    <2>3. PICK u : u = [i \in 0 .. Len(blocks) + 1 |->
                           IF i = Len(blocks) + 1 THEN t[Len(blocks)] ELSE t[i]]
        BY Zenon
    <2>4. IsRunningTotal(u, blocks')
        <3>1. u \in [0 .. Len(blocks') -> Nat]
            BY <1>2, <1>3, <2>2, <2>3
        <3>2. u[0] = 0
            BY <1>2, <2>2, <2>3
        <3>3. ASSUME NEW i \in 1 .. Len(blocks')
              PROVE  u[i] = u[i - 1] + blocks'[i].epochCount
            <4>1. CASE i = Len(blocks) + 1
                <5>1. blocks'[i].epochCount = 0
                    BY <1>3, <4>1
                <5>2. u[i] = t[Len(blocks)] /\ u[i - 1] = t[Len(blocks)]
                    BY <1>2, <2>3, <4>1
                <5>3. t[Len(blocks)] \in Nat
                    BY <1>2, <2>2
                <5>4. QED
                    BY <5>1, <5>2, <5>3
            <4>2. CASE i # Len(blocks) + 1
                <5>1. i \in 1 .. Len(blocks)
                    BY <1>2, <1>3, <4>2
                <5>2. u[i] = t[i] /\ u[i - 1] = t[i - 1]
                    BY <1>2, <2>3, <5>1
                <5>3. QED
                    BY Zenon, <1>3, <2>2, <5>1, <5>2
            <4>3. QED
                BY Zenon, <4>1, <4>2
        <3>4. QED
            BY Zenon, <3>1, <3>2, <3>3 DEF IsRunningTotal
    <2>5. u[Len(blocks')] = Len(epochHashSeeds')
        BY <1>2, <1>3, <2>2, <2>3
    <2>6. ASSUME NEW i \in 1 .. Len(blocks'), NEW e \in u[i - 1] + 1 .. u[i]
          PROVE  epochLastAbsoluteBlockIndex'[e] = totalBlocksReleased' + i - 1
        <3>1. i # Len(blocks) + 1
            <4> SUFFICES ASSUME i = Len(blocks) + 1 PROVE FALSE
                BY Zenon
            <4>1. u[i] = t[Len(blocks)] /\ u[i - 1] = t[Len(blocks)]
                BY <1>2, <2>3
            <4>2. t[Len(blocks)] \in Nat
                BY <1>2, <2>2
            <4>3. QED
                BY <4>1, <4>2
        <3>2. i \in 1 .. Len(blocks)
            BY <1>2, <1>3, <3>1
        <3>3. u[i] = t[i] /\ u[i - 1] = t[i - 1]
            BY <1>2, <2>3, <3>2
        <3>4. QED
            BY Zenon, <2>1, <3>2, <3>3 DEF IsPartition
    <2>7. QED
        BY Zenon, <2>4, <2>5, <2>6 DEF IsPartition
<1>9. QED
    BY Zenon, <1>5, <1>6, <1>7, <1>8 DEF IInv

\* Steps that leave the epoch counts of the blocks alone.
LEMMA PartitionUnchanged ==
    ASSUME NEW t, IsPartition(t), Len(blocks') = Len(blocks),
           \A i \in 1 .. Len(blocks) : blocks'[i].epochCount = blocks[i].epochCount,
           UNCHANGED <<epochHashSeeds, epochLastAbsoluteBlockIndex,
                       totalBlocksReleased>>
    PROVE  IsPartition(t)'
BY Zenon DEF IsPartition, IsRunningTotal

LEMMA NotifySyncStartingInv ==
    ASSUME IInv, NEW isFinalSync \in BOOLEAN, NotifySyncStarting(isFinalSync)
    PROVE  IInv'
<1>1. blocks \in Seq(BlockInfo) /\ Len(blocks) \in Nat /\ DOMAIN blocks = 1 .. Len(blocks)
    BY Zenon, BlockTypes DEF IInv, TypeOK
<1>2. blocks' = [i \in DOMAIN blocks |->
                    [blocks[i] EXCEPT !.synchronizingOffsetBytes =
                                          blocks[i].writtenOffsetBytes]]
    BY Zenon DEF NotifySyncStarting
<1>3. \A i \in 1 .. Len(blocks) : blocks[i] \in BlockInfo
    BY Zenon, <1>1, BlockTypes
<1>4. \A i \in 1 .. Len(blocks) :
          /\ blocks'[i] \in BlockInfo
          /\ blocks'[i].epochCount = blocks[i].epochCount
          /\ blocks'[i].writtenOffsetBytes = blocks[i].writtenOffsetBytes
          /\ blocks'[i].synchronizingOffsetBytes = blocks[i].writtenOffsetBytes
          /\ blocks'[i].synchronizedOffsetBytes = blocks[i].synchronizedOffsetBytes
    BY Zenon, <1>1, <1>2, <1>3 DEF BlockInfo
<1>5. blocks' \in Seq(BlockInfo) /\ Len(blocks') = Len(blocks)
    <2>1. blocks' \in [1 .. Len(blocks) -> BlockInfo]
        BY Zenon, <1>1, <1>2, <1>4
    <2>2. QED
        BY <1>1, <2>1
<1>6. /\ UNCHANGED <<epochVars, totalBlocksReleased, synchronizedEpochs,
                     blockPutWakeup, releaseVars>>
      /\ synchronizingEpochs' = Len(epochHashSeeds)
      /\ closedForWriting' \in BOOLEAN
    BY Zenon DEF NotifySyncStarting
<1> USE <1>6 DEF epochVars, releaseVars
<1>7. TypeOK'
    BY Zenon, <1>5, NumberTypes DEF IInv, TypeOK
<1>8. OffsetsOrdered'
    <2>1. ASSUME NEW i \in 1 .. Len(blocks)
          PROVE  /\ blocks'[i].synchronizedOffsetBytes <= blocks'[i].synchronizingOffsetBytes
                 /\ blocks'[i].synchronizingOffsetBytes <= blocks'[i].writtenOffsetBytes
        <3>1. /\ blocks[i].synchronizedOffsetBytes <= blocks[i].synchronizingOffsetBytes
              /\ blocks[i].synchronizingOffsetBytes <= blocks[i].writtenOffsetBytes
            BY Zenon, <1>1 DEF IInv, OffsetsOrdered
        <3>2. /\ blocks[i].synchronizedOffsetBytes \in Int
              /\ blocks[i].synchronizingOffsetBytes \in Int
              /\ blocks[i].writtenOffsetBytes \in Int
            BY <1>3 DEF BlockInfo
        <3>3. QED
            BY <1>4, <3>1, <3>2
    <2>2. DOMAIN blocks' = 1 .. Len(blocks)
        BY Zenon, <1>1, <1>2
    <2>3. QED
        BY Zenon, <2>1, <2>2 DEF OffsetsOrdered
<1>9. EpochsOrdered' /\ WakeupsMatchWork'
    BY SMTT(30), NumberTypes DEF IInv, EpochsOrdered, WakeupsMatchWork
<1>10. \E t : IsPartition(t)'
    BY Zenon, <1>4, <1>5, PartitionUnchanged DEF IInv
<1>11. QED
    BY Zenon, <1>7, <1>8, <1>9, <1>10 DEF IInv

LEMMA NotifySyncCompletedInv ==
    ASSUME IInv, NotifySyncCompleted
    PROVE  IInv'
<1>1. blocks \in Seq(BlockInfo) /\ Len(blocks) \in Nat /\ DOMAIN blocks = 1 .. Len(blocks)
    BY Zenon, BlockTypes DEF IInv, TypeOK
<1>2. blocks' = [i \in DOMAIN blocks |->
                    [blocks[i] EXCEPT !.synchronizedOffsetBytes =
                                          blocks[i].synchronizingOffsetBytes]]
    BY Zenon DEF NotifySyncCompleted
<1>3. \A i \in 1 .. Len(blocks) : blocks[i] \in BlockInfo
    BY Zenon, <1>1, BlockTypes
<1>4. \A i \in 1 .. Len(blocks) :
          /\ blocks'[i] \in BlockInfo
          /\ blocks'[i].epochCount = blocks[i].epochCount
          /\ blocks'[i].writtenOffsetBytes = blocks[i].writtenOffsetBytes
          /\ blocks'[i].synchronizingOffsetBytes = blocks[i].synchronizingOffsetBytes
          /\ blocks'[i].synchronizedOffsetBytes = blocks[i].synchronizingOffsetBytes
    BY Zenon, <1>1, <1>2, <1>3 DEF BlockInfo
<1>5. blocks' \in Seq(BlockInfo) /\ Len(blocks') = Len(blocks)
    <2>1. blocks' \in [1 .. Len(blocks) -> BlockInfo]
        BY Zenon, <1>1, <1>2, <1>4
    <2>2. QED
        BY <1>1, <2>1
<1>6. /\ UNCHANGED <<epochVars, totalBlocksReleased, synchronizingEpochs,
                     releaseVars, closedForWriting>>
      /\ synchronizedEpochs' = synchronizingEpochs
      /\ blockPutWakeup' = (blockPutWakeup \/ synchronizingEpochs = Len(epochHashSeeds))
    BY Zenon DEF NotifySyncCompleted
<1> USE <1>6 DEF epochVars, releaseVars
<1>7. TypeOK'
    BY Zenon, <1>5 DEF IInv, TypeOK
<1>8. OffsetsOrdered'
    <2>1. ASSUME NEW i \in 1 .. Len(blocks)
          PROVE  /\ blocks'[i].synchronizedOffsetBytes <= blocks'[i].synchronizingOffsetBytes
                 /\ blocks'[i].synchronizingOffsetBytes <= blocks'[i].writtenOffsetBytes
        <3>1. blocks[i].synchronizingOffsetBytes <= blocks[i].writtenOffsetBytes
            BY Zenon, <1>1 DEF IInv, OffsetsOrdered
        <3>2. blocks[i].synchronizingOffsetBytes \in Int
            BY <1>3 DEF BlockInfo
        <3>3. QED
            BY <1>4, <3>1, <3>2
    <2>2. DOMAIN blocks' = 1 .. Len(blocks)
        BY Zenon, <1>1, <1>2
    <2>3. QED
        BY Zenon, <2>1, <2>2 DEF OffsetsOrdered
<1>9. EpochsOrdered'
    BY NumberTypes DEF IInv, EpochsOrdered
<1>10. WakeupsMatchWork'
    <2>1. blockPutWakeup => synchronizingEpochs = Len(epochHashSeeds)
        BY NumberTypes DEF IInv, EpochsOrdered, WakeupsMatchWork
    <2>2. blockPutWakeup' <=> synchronizedEpochs' = Len(epochHashSeeds')
        BY Zenon, <2>1
    <2>3. QED
        BY Zenon, <2>2 DEF IInv, WakeupsMatchWork
<1>11. \E t : IsPartition(t)'
    BY Zenon, <1>4, <1>5, PartitionUnchanged DEF IInv
<1>12. QED
    BY Zenon, <1>7, <1>8, <1>9, <1>10, <1>11 DEF IInv

LEMMA GetPersistentStateInv ==
    ASSUME IInv, GetPersistentState
    PROVE  IInv'
<1> USE DEF GetPersistentState, epochVars, syncVars
<1>1. TypeOK'
    BY Zenon, NumberTypes DEF IInv, TypeOK
<1>2. OffsetsOrdered' /\ EpochsOrdered'
    BY Zenon DEF IInv, OffsetsOrdered, EpochsOrdered
<1>3. WakeupsMatchWork'
    BY NumberTypes DEF IInv, WakeupsMatchWork
<1>4. \E t : IsPartition(t)'
    BY Zenon, PartitionUnchanged DEF IInv
<1>5. QED
    BY Zenon, <1>1, <1>2, <1>3, <1>4 DEF IInv

LEMMA NotifyPersistentStateWrittenInv ==
    ASSUME IInv, NotifyPersistentStateWritten
    PROVE  IInv'
<1>1. /\ UNCHANGED <<blocks, epochVars, totalBlocksReleased, syncVars,
                     closedForWriting>>
      /\ blocksReleasing' = 0
      /\ blocksToRelease' = SubSeq(blocksToRelease, blocksReleasing + 1,
                                   Len(blocksToRelease))
      /\ blockReleaseWakeup' = (blockReleaseWakeup \/ blocksToRelease' = <<>>)
    BY Zenon DEF NotifyPersistentStateWritten
<1>2. /\ blocksToRelease \in Seq(Location)
      /\ blocksReleasing \in 0 .. Len(blocksToRelease)
      /\ Len(blocksToRelease) \in Nat
      /\ blockReleaseWakeup \in BOOLEAN
      /\ blockReleaseWakeup <=> blocksToRelease = <<>>
    BY NumberTypes DEF IInv, TypeOK, WakeupsMatchWork
<1>3. /\ blocksToRelease' \in Seq(Location)
      /\ Len(blocksToRelease') = Len(blocksToRelease) - blocksReleasing
    BY Zenon, <1>1, <1>2, DropPrefix
<1>4. TypeOK'
    <2>1. blockReleaseWakeup' \in BOOLEAN
        BY Zenon, <1>1
    <2>2. QED
        BY Zenon, <1>1, <1>3, <2>1 DEF IInv, TypeOK, epochVars, syncVars
<1>5. OffsetsOrdered' /\ EpochsOrdered'
    BY Zenon, <1>1 DEF IInv, OffsetsOrdered, EpochsOrdered, epochVars, syncVars
<1>6. WakeupsMatchWork'
    <2>1. blockPutWakeup' <=> synchronizedEpochs' = Len(epochHashSeeds')
        BY Zenon, <1>1 DEF IInv, WakeupsMatchWork, epochVars, syncVars
    <2>2. blocksToRelease = <<>> => blocksToRelease' = <<>>
        <3> SUFFICES ASSUME blocksToRelease = <<>> PROVE blocksToRelease' = <<>>
            BY Zenon
        <3>1. Len(blocksToRelease) = 0
            BY Zenon, EmptySeq
        <3>2. Len(blocksToRelease') = 0
            BY <1>2, <1>3, <3>1
        <3>3. QED
            BY Zenon, <1>3, <3>2, EmptySeq
    <2>3. blocksReleasing' <= Len(blocksToRelease')
        BY <1>1, <1>2, <1>3
    <2>4. QED
        BY Zenon, <1>1, <1>2, <2>1, <2>2, <2>3 DEF WakeupsMatchWork
<1>7. \E t : IsPartition(t)'
    BY Zenon, <1>1, PartitionUnchanged DEF IInv, epochVars
<1>8. QED
    BY Zenon, <1>4, <1>5, <1>6, <1>7 DEF IInv

\* A block whose written offset is raised.
LEMMA RaisedBlock ==
    ASSUME NEW b \in BlockInfo, NEW offset \in 0 .. BlockSize,
           NEW c, c = [b EXCEPT !.writtenOffsetBytes = RaiseOffset(@, offset)]
    PROVE  /\ c \in BlockInfo
           /\ c.epochCount = b.epochCount
           /\ c.synchronizingOffsetBytes = b.synchronizingOffsetBytes
           /\ c.synchronizedOffsetBytes = b.synchronizedOffsetBytes
           /\ c.writtenOffsetBytes >= b.writtenOffsetBytes
BY BlockSizeAssumption DEF BlockInfo, RaiseOffset

\* A block that gets one more epoch.
LEMMA BumpedBlock ==
    ASSUME NEW b \in BlockInfo, NEW c, c = [b EXCEPT !.epochCount = @ + 1]
    PROVE  /\ c \in BlockInfo
           /\ c.epochCount = b.epochCount + 1
           /\ c.synchronizingOffsetBytes = b.synchronizingOffsetBytes
           /\ c.synchronizedOffsetBytes = b.synchronizedOffsetBytes
           /\ c.writtenOffsetBytes = b.writtenOffsetBytes
BY DEF BlockInfo

\* What a completed Put does to the blocks.
PutBlocks(new, bumped) ==
    /\ new \in Seq(BlockInfo)
    /\ Len(new) = Len(blocks)
    /\ \A i \in 1 .. Len(blocks) :
          /\ new[i].epochCount = blocks[i].epochCount
                                     + (IF bumped /\ i = Len(blocks) THEN 1 ELSE 0)
          /\ new[i].synchronizingOffsetBytes = blocks[i].synchronizingOffsetBytes
          /\ new[i].synchronizedOffsetBytes = blocks[i].synchronizedOffsetBytes
          /\ new[i].writtenOffsetBytes >= blocks[i].writtenOffsetBytes

LEMMA PutFinalizerBlocks ==
    ASSUME IInv,
           NEW absoluteBlockIndex \in 0 .. totalBlocksReleased + Len(blocks) - 1,
           NEW writtenOffset \in 0 .. BlockSize, NEW seed \in Seed,
           PutFinalizer(absoluteBlockIndex, writtenOffset, seed)
    PROVE  /\ Len(blocks) \in Nat \ {0}
           /\ PutBlocks(blocks', NeedsNewEpoch(absoluteBlockIndex))
<1> DEFINE index == absoluteBlockIndex - totalBlocksReleased + 1
           written == [blocks EXCEPT ![index].writtenOffsetBytes =
                          RaiseOffset(@, writtenOffset)]
           raised == [blocks[index] EXCEPT !.writtenOffsetBytes =
                          RaiseOffset(@, writtenOffset)]
           last == Len(blocks)
<1>1. blocks \in Seq(BlockInfo) /\ Len(blocks) \in Nat /\ totalBlocksReleased \in Nat
    BY Zenon, NumberTypes DEF IInv, TypeOK
<1>2. index \in 1 .. Len(blocks) /\ Len(blocks) \in Nat \ {0}
    BY <1>1 DEF PutFinalizer
<1> HIDE DEF index
<1>3. \A i \in 1 .. Len(blocks) : blocks[i] \in BlockInfo
    BY Zenon, <1>1, BlockTypes
<1>4. /\ raised \in BlockInfo
      /\ raised.epochCount = blocks[index].epochCount
      /\ raised.synchronizingOffsetBytes = blocks[index].synchronizingOffsetBytes
      /\ raised.synchronizedOffsetBytes = blocks[index].synchronizedOffsetBytes
      /\ raised.writtenOffsetBytes >= blocks[index].writtenOffsetBytes
    BY Zenon, <1>2, <1>3, RaisedBlock
<1>5. written = [blocks EXCEPT ![index] = raised]
    BY Zenon, <1>1, <1>2
<1> HIDE DEF raised, written
<1>6. /\ written \in Seq(BlockInfo)
      /\ Len(written) = Len(blocks)
      /\ \A i \in 1 .. Len(blocks) :
            written[i] = IF i = index THEN raised ELSE blocks[i]
    BY <1>1, <1>2, <1>4, <1>5, ExceptSeq
<1>7. ASSUME NEW i \in 1 .. Len(blocks)
      PROVE  /\ written[i] \in BlockInfo
             /\ written[i].epochCount = blocks[i].epochCount
             /\ written[i].synchronizingOffsetBytes = blocks[i].synchronizingOffsetBytes
             /\ written[i].synchronizedOffsetBytes = blocks[i].synchronizedOffsetBytes
             /\ written[i].writtenOffsetBytes >= blocks[i].writtenOffsetBytes
             /\ blocks[i].epochCount \in Nat
    <2>1. blocks[i] \in BlockInfo /\ blocks[i].epochCount \in Nat
          /\ blocks[i].writtenOffsetBytes \in Int
        BY <1>3 DEF BlockInfo
    <2>2. CASE i = index
        BY Zenon, <1>4, <1>6, <2>1, <2>2
    <2>3. CASE i # index
        BY <1>6, <2>1, <2>3
    <2>4. QED
        BY Zenon, <2>2, <2>3
<1>8. CASE ~NeedsNewEpoch(absoluteBlockIndex)
    <2>1. blocks' = written
        BY Zenon, <1>8 DEF PutFinalizer, written, index
    <2>2. QED
        BY SMTT(30), <1>2, <1>6, <1>7, <1>8, <2>1 DEF PutBlocks
<1>9. CASE NeedsNewEpoch(absoluteBlockIndex)
    <2> DEFINE bumped == [written[last] EXCEPT !.epochCount = @ + 1]
    <2>1. blocks' = [written EXCEPT ![last].epochCount = @ + 1]
        BY Zenon, <1>9 DEF PutFinalizer, written, index
    <2>2. blocks' = [written EXCEPT ![last] = bumped]
        BY Zenon, <1>2, <1>6, <2>1
    <2>3. /\ bumped \in BlockInfo
          /\ bumped.epochCount = written[last].epochCount + 1
          /\ bumped.synchronizingOffsetBytes = written[last].synchronizingOffsetBytes
          /\ bumped.synchronizedOffsetBytes = written[last].synchronizedOffsetBytes
          /\ bumped.writtenOffsetBytes = written[last].writtenOffsetBytes
        BY <1>2, <1>7, BumpedBlock
    <2> HIDE DEF bumped
    <2>4. /\ blocks' \in Seq(BlockInfo)
          /\ Len(blocks') = Len(blocks)
          /\ \A i \in 1 .. Len(blocks) :
                blocks'[i] = IF i = last THEN bumped ELSE written[i]
        BY SMTT(30), <1>2, <1>6, <2>2, <2>3, ExceptSeq
    <2>5. ASSUME NEW i \in 1 .. Len(blocks)
          PROVE  /\ blocks'[i].epochCount = blocks[i].epochCount
                                               + (IF i = Len(blocks) THEN 1 ELSE 0)
                 /\ blocks'[i].synchronizingOffsetBytes = blocks[i].synchronizingOffsetBytes
                 /\ blocks'[i].synchronizedOffsetBytes = blocks[i].synchronizedOffsetBytes
                 /\ blocks'[i].writtenOffsetBytes >= blocks[i].writtenOffsetBytes
        <3>1. CASE i = last
            BY Zenon, <1>7, <2>3, <2>4, <3>1
        <3>2. CASE i # last
            BY <1>7, <2>4, <3>2
        <3>3. QED
            BY Zenon, <3>1, <3>2
    <2>6. QED
        BY Zenon, <1>2, <1>9, <2>4, <2>5 DEF PutBlocks
<1>10. QED
    BY Zenon, <1>8, <1>9

LEMMA PutFinalizerInv ==
    ASSUME IInv,
           NEW absoluteBlockIndex \in 0 .. totalBlocksReleased + Len(blocks) - 1,
           NEW writtenOffset \in 0 .. BlockSize, NEW seed \in Seed,
           PutFinalizer(absoluteBlockIndex, writtenOffset, seed)
    PROVE  IInv'
<1>1. /\ Len(blocks) \in Nat \ {0}
      /\ PutBlocks(blocks', NeedsNewEpoch(absoluteBlockIndex))
    BY Zenon, PutFinalizerBlocks
<1>2. /\ Len(epochHashSeeds) \in Nat
      /\ totalBlocksReleased \in Nat
      /\ synchronizingEpochs \in Nat
      /\ synchronizedEpochs \in Nat
      /\ epochHashSeeds \in Seq(Seed)
      /\ epochLastAbsoluteBlockIndex \in Seq(Nat)
      /\ Len(epochLastAbsoluteBlockIndex) = Len(epochHashSeeds)
      /\ Len(epochHashSeeds) <= MaxEpochs
      /\ synchronizedEpochs <= synchronizingEpochs
      /\ synchronizingEpochs <= Len(epochHashSeeds)
    BY Zenon, NumberTypes DEF IInv, TypeOK, EpochsOrdered
<1>3. UNCHANGED <<oldestEpochID, totalBlocksReleased, synchronizingEpochs,
                  synchronizedEpochs, releaseVars, closedForWriting>>
    BY Zenon DEF PutFinalizer
<1>4. PICK t : IsPartition(t)
    BY Zenon DEF IInv
<1>5. OffsetsOrdered'
    <2>1. DOMAIN blocks' = 1 .. Len(blocks)
        BY Zenon, <1>1, BlockTypes DEF PutBlocks
    <2>2. ASSUME NEW i \in 1 .. Len(blocks)
          PROVE  /\ blocks'[i].synchronizedOffsetBytes <= blocks'[i].synchronizingOffsetBytes
                 /\ blocks'[i].synchronizingOffsetBytes <= blocks'[i].writtenOffsetBytes
        <3>1. blocks[i] \in BlockInfo /\ blocks'[i] \in BlockInfo /\ i \in DOMAIN blocks
            <4>1. blocks \in Seq(BlockInfo) /\ blocks' \in Seq(BlockInfo)
                  /\ Len(blocks') = Len(blocks)
                BY Zenon, <1>1 DEF IInv, TypeOK, PutBlocks
            <4>2. QED
                BY Zenon, <4>1, BlockTypes
        <3>2. /\ blocks[i].synchronizedOffsetBytes <= blocks[i].synchronizingOffsetBytes
              /\ blocks[i].synchronizingOffsetBytes <= blocks[i].writtenOffsetBytes
            BY Zenon, <3>1 DEF IInv, OffsetsOrdered
        <3>3. /\ blocks'[i].synchronizingOffsetBytes = blocks[i].synchronizingOffsetBytes
              /\ blocks'[i].synchronizedOffsetBytes = blocks[i].synchronizedOffsetBytes
              /\ blocks'[i].writtenOffsetBytes >= blocks[i].writtenOffsetBytes
            BY Zenon, <1>1 DEF PutBlocks
        <3>4. /\ blocks[i].synchronizingOffsetBytes \in Int
              /\ blocks[i].writtenOffsetBytes \in Int
              /\ blocks'[i].writtenOffsetBytes \in Int
            BY <3>1 DEF BlockInfo
        <3>5. QED
            BY <3>2, <3>3, <3>4
    <2>3. QED
        BY Zenon, <2>1, <2>2 DEF OffsetsOrdered
<1>6. blocks' \in Seq(BlockInfo) /\ Len(blocks') = Len(blocks)
    BY Zenon, <1>1 DEF PutBlocks
<1>7. CASE ~NeedsNewEpoch(absoluteBlockIndex)
    <2>1. UNCHANGED <<epochHashSeeds, epochLastAbsoluteBlockIndex, blockPutWakeup>>
        BY Zenon, <1>7 DEF PutFinalizer
    <2>2. TypeOK'
        BY Zenon, <1>3, <1>6, <2>1 DEF IInv, TypeOK, releaseVars
    <2>3. EpochsOrdered' /\ WakeupsMatchWork'
        BY Zenon, <1>3, <2>1 DEF IInv, EpochsOrdered, WakeupsMatchWork, releaseVars
    <2>4. \A i \in 1 .. Len(blocks) : blocks'[i].epochCount = blocks[i].epochCount
        <3> SUFFICES ASSUME NEW i \in 1 .. Len(blocks)
                     PROVE  blocks'[i].epochCount = blocks[i].epochCount
            BY Zenon
        <3>1. blocks'[i].epochCount = blocks[i].epochCount + 0
            BY Zenon, <1>1, <1>7 DEF PutBlocks
        <3>2. blocks[i].epochCount \in Nat
            BY Zenon, BlockTypes DEF IInv, TypeOK
        <3>3. QED
            BY <3>1, <3>2
    <2>5. IsPartition(t)'
        BY Zenon, <1>3, <1>4, <1>6, <2>1, <2>4, PartitionUnchanged
    <2>6. QED
        BY Zenon, <1>5, <2>2, <2>3, <2>5 DEF IInv
<1>8. CASE NeedsNewEpoch(absoluteBlockIndex)
    <2>1. /\ Len(epochHashSeeds) < MaxEpochs
          /\ epochHashSeeds' = Append(epochHashSeeds, seed)
          /\ epochLastAbsoluteBlockIndex' =
                 Append(epochLastAbsoluteBlockIndex, totalBlocksReleased + Len(blocks) - 1)
          /\ blockPutWakeup' = FALSE
        BY Zenon, <1>8 DEF PutFinalizer
    <2>2. /\ epochHashSeeds' \in Seq(Seed)
          /\ Len(epochHashSeeds') = Len(epochHashSeeds) + 1
        BY Zenon, <1>2, <2>1, AppendProperties
    <2>3. /\ epochLastAbsoluteBlockIndex' \in Seq(Nat)
          /\ Len(epochLastAbsoluteBlockIndex') = Len(epochHashSeeds) + 1
          /\ \A e \in 1 .. Len(epochHashSeeds) :
                epochLastAbsoluteBlockIndex'[e] = epochLastAbsoluteBlockIndex[e]
          /\ epochLastAbsoluteBlockIndex'[Len(epochHashSeeds) + 1]
                = totalBlocksReleased + Len(blocks) - 1
        <3>1. totalBlocksReleased + Len(blocks) - 1 \in Nat
            BY <1>1, <1>2
        <3>2. QED
            BY SMTT(30), <1>2, <2>1, <3>1, AppendProperties
    <2>4. TypeOK'
        <3>1. Len(epochHashSeeds') <= MaxEpochs
            BY <1>2, <2>1, <2>2, EpochAssumption
        <3>2. QED
            BY Zenon, <1>3, <1>6, <2>1, <2>2, <2>3, <3>1 DEF IInv, TypeOK, releaseVars
    <2>5. EpochsOrdered'
        BY SMTT(30), <1>2, <1>3, <2>2 DEF EpochsOrdered
    <2>6. WakeupsMatchWork'
        <3>1. synchronizedEpochs' # Len(epochHashSeeds')
            BY <1>2, <1>3, <2>2
        <3>2. QED
            BY Zenon, <1>3, <2>1, <3>1 DEF IInv, WakeupsMatchWork, releaseVars
    <2>7. \E u : IsPartition(u)'
        <3>1. /\ t \in [0 .. Len(blocks) -> Nat]
              /\ t[0] = 0
              /\ \A i \in 1 .. Len(blocks) : t[i] = t[i - 1] + blocks[i].epochCount
              /\ t[Len(blocks)] = Len(epochHashSeeds)
            BY Zenon, <1>4 DEF IsPartition, IsRunningTotal
        <3>2. PICK u : u = [i \in 0 .. Len(blocks) |->
                               IF i = Len(blocks) THEN t[i] + 1 ELSE t[i]]
            BY Zenon
        <3>3. ASSUME NEW i \in 1 .. Len(blocks)
              PROVE  /\ t[i] \in Nat /\ t[i - 1] \in Nat
                     /\ u[i - 1] = t[i - 1]
                     /\ u[i] = IF i = Len(blocks) THEN t[i] + 1 ELSE t[i]
                     /\ t[i] <= Len(epochHashSeeds)
            <4>1. i \in 0 .. Len(blocks) /\ i - 1 \in 0 .. Len(blocks)
                  /\ i - 1 # Len(blocks) /\ Len(blocks) \in 0 .. Len(blocks)
                BY <1>1
            <4>2. t[i] <= t[Len(blocks)]
                <5>1. IsRunningTotal(t, blocks) /\ blocks \in Seq(BlockInfo)
                    BY Zenon, <1>4 DEF IsPartition, IInv, TypeOK
                <5>2. i <= Len(blocks)
                    BY <1>1
                <5>3. QED
                    BY Zenon, <4>1, <5>1, <5>2, RunningTotalMonotonic, BlockTypes
            <4>3. QED
                BY Zenon, <3>1, <3>2, <4>1, <4>2
        <3>4. IsRunningTotal(u, blocks')
            <4>1. u \in [0 .. Len(blocks') -> Nat]
                BY <1>6, <3>1, <3>2
            <4>2. u[0] = 0
                BY <1>1, <3>1, <3>2
            <4>3. ASSUME NEW i \in 1 .. Len(blocks')
                  PROVE  u[i] = u[i - 1] + blocks'[i].epochCount
                <5>1. i \in 1 .. Len(blocks)
                    BY Zenon, <1>6
                <5>2. blocks'[i].epochCount =
                          blocks[i].epochCount + (IF i = Len(blocks) THEN 1 ELSE 0)
                    BY Zenon, <1>1, <1>8, <5>1 DEF PutBlocks
                <5>3. blocks[i].epochCount \in Nat
                    BY Zenon, <5>1, BlockTypes DEF IInv, TypeOK
                <5>4. t[i] = t[i - 1] + blocks[i].epochCount
                    BY Zenon, <3>1, <5>1
                <5>5. /\ t[i] \in Nat /\ t[i - 1] \in Nat
                      /\ u[i - 1] = t[i - 1]
                      /\ u[i] = IF i = Len(blocks) THEN t[i] + 1 ELSE t[i]
                    BY Zenon, <3>3, <5>1
                <5>6. QED
                    BY SMTT(30), <5>2, <5>3, <5>4, <5>5
            <4>4. QED
                BY Zenon, <4>1, <4>2, <4>3 DEF IsRunningTotal
        <3>5. u[Len(blocks')] = Len(epochHashSeeds')
            BY SMTT(30), <1>1, <1>6, <2>2, <3>1, <3>2
        <3>6. ASSUME NEW i \in 1 .. Len(blocks'), NEW e \in u[i - 1] + 1 .. u[i]
              PROVE  epochLastAbsoluteBlockIndex'[e] = totalBlocksReleased' + i - 1
            <4>1. i \in 1 .. Len(blocks)
                BY Zenon, <1>6
            <4>2. /\ t[i] \in Nat /\ t[i - 1] \in Nat
                  /\ u[i - 1] = t[i - 1]
                  /\ u[i] = IF i = Len(blocks) THEN t[i] + 1 ELSE t[i]
                  /\ t[i] <= Len(epochHashSeeds)
                BY Zenon, <3>3, <4>1
            <4>3. CASE e \in t[i - 1] + 1 .. t[i]
                <5>1. epochLastAbsoluteBlockIndex[e] = totalBlocksReleased + i - 1
                    BY Zenon, <1>4, <4>1, <4>3 DEF IsPartition
                <5>2. e \in 1 .. Len(epochHashSeeds)
                    BY SMTT(30), <1>2, <4>2, <4>3
                <5>3. QED
                    BY Zenon, <1>3, <2>3, <5>1, <5>2
            <4>4. CASE e \notin t[i - 1] + 1 .. t[i]
                <5>1. i = Len(blocks) /\ e = t[i] + 1
                    BY <4>2, <4>4
                <5>2. e = Len(epochHashSeeds) + 1
                    BY Zenon, <3>1, <5>1
                <5>3. QED
                    BY Zenon, <1>3, <2>3, <5>1, <5>2
            <4>5. QED
                BY Zenon, <4>3, <4>4
        <3>7. QED
            BY Zenon, <3>4, <3>5, <3>6 DEF IsPartition
    <2>8. QED
        BY Zenon, <1>5, <2>4, <2>5, <2>6, <2>7 DEF IInv
<1>9. QED
    BY Zenon, <1>7, <1>8

----------------------------------------------------------------------------
(* The initial state.                                                      *)

LEMMA InitInv ==
    ASSUME Init
    PROVE  IInv
<1>1. PICK initial \in InitialState :
          NewPersistentBlockList(initial.oldestEpochID, initial.blocks)
    BY Zenon DEF Init
<1> DEFINE bs == initial.blocks
           rs == RestoredBlocks(bs)
<1>2. bs \in Seq(BlockState) /\ initial.oldestEpochID \in EpochID
      /\ Len(RestoredSeeds(bs)) <= MaxEpochs
    BY Zenon, InitialStateAssumption
<1>3. PICK t : t = EpochsUpTo(rs)
    BY Zenon
<1>4. /\ Len(bs) \in Nat
      /\ DOMAIN bs = 1 .. Len(bs)
      /\ \A i \in 1 .. Len(bs) : bs[i] \in BlockState
    BY Zenon, <1>2, LenProperties, ElementOfSeq
<1>5. \A i \in 1 .. Len(bs) :
          /\ rs[i] \in BlockInfo
          /\ rs[i].epochCount = Len(bs[i].epochHashSeeds)
          /\ rs[i].writtenOffsetBytes = bs[i].writeOffsetBytes
          /\ rs[i].synchronizingOffsetBytes = bs[i].writeOffsetBytes
          /\ rs[i].synchronizedOffsetBytes = bs[i].writeOffsetBytes
          /\ bs[i].writeOffsetBytes \in 0 .. BlockSize
          /\ bs[i].epochHashSeeds \in Seq(Seed)
    BY Zenon, <1>4, LenProperties DEF RestoredBlocks, RestoredBlock, BlockInfo, BlockState
<1>6. rs \in Seq(BlockInfo) /\ Len(rs) = Len(bs) /\ DOMAIN rs = 1 .. Len(bs)
    <2>1. rs \in [1 .. Len(bs) -> BlockInfo]
        BY Zenon, <1>4, <1>5 DEF RestoredBlocks
    <2>2. QED
        BY SMTT(30), <1>4, <2>1
<1>7. IsRunningTotal(t, rs)
    BY Zenon, <1>3, <1>6, EpochsUpToIsTotal, BlockTypes
<1>8. t[Len(bs)] \in Nat /\ RestoredEpochs(bs) = 1 .. t[Len(bs)]
    <2>1. t[Len(bs)] \in Nat
        BY <1>4, <1>6, <1>7 DEF IsRunningTotal
    <2>2. QED
        BY Zenon, <1>3, <2>1 DEF RestoredEpochs
<1>9. ASSUME NEW e \in 1 .. t[Len(bs)]
      PROVE  /\ RestoredOwner(bs, e) \in 1 .. Len(bs)
             /\ t[RestoredOwner(bs, e) - 1] < e
             /\ e <= t[RestoredOwner(bs, e)]
    <2>1. RestoredOwner(bs, e) =
              CHOOSE i \in 1 .. Len(bs) : t[i - 1] < e /\ e <= t[i]
        BY Zenon, <1>3, <1>6 DEF RestoredOwner, EpochOwner
    <2>2. \E i \in 1 .. Len(bs) : t[i - 1] < e /\ e <= t[i]
        BY Zenon, <1>6, <1>7, EpochHasOwner, BlockTypes
    <2>3. QED
        BY Zenon, <2>1, <2>2
<1>10. RestoredSeeds(bs) \in Seq(Seed) /\ Len(RestoredSeeds(bs)) = t[Len(bs)]
    <2>1. ASSUME NEW e \in 1 .. t[Len(bs)]
          PROVE  bs[RestoredOwner(bs, e)].epochHashSeeds
                     [e - t[RestoredOwner(bs, e) - 1]] \in Seed
        <3>1. PICK i : i = RestoredOwner(bs, e)
            BY Zenon
        <3>2. i \in 1 .. Len(bs) /\ t[i - 1] < e /\ e <= t[i]
            BY Zenon, <1>9, <3>1
        <3>3. /\ t[i] = t[i - 1] + Len(bs[i].epochHashSeeds)
              /\ t[i - 1] \in Nat
            <4>1. rs[i].epochCount = Len(bs[i].epochHashSeeds)
                BY Zenon, <1>5, <3>2
            <4>2. i \in 1 .. Len(rs) /\ i - 1 \in 0 .. Len(rs)
                BY <1>4, <1>6, <3>2
            <4> HIDE DEF rs, bs
            <4>3. t[i] = t[i - 1] + rs[i].epochCount /\ t[i - 1] \in Nat
                BY Zenon, <1>7, <4>2 DEF IsRunningTotal
            <4>4. QED
                BY Zenon, <4>1, <4>3
        <3>4. bs[i].epochHashSeeds \in Seq(Seed) /\ Len(bs[i].epochHashSeeds) \in Nat
            BY Zenon, <1>5, <3>2, LenProperties
        <3>5. e - t[i - 1] \in 1 .. Len(bs[i].epochHashSeeds)
            BY SMTT(30), <1>8, <3>2, <3>3, <3>4
        <3>6. QED
            BY Zenon, <3>1, <3>4, <3>5, ElementOfSeq
    <2>2. RestoredSeeds(bs) \in [1 .. t[Len(bs)] -> Seed]
        BY Zenon, <1>3, <1>8, <2>1 DEF RestoredSeeds
    <2>3. QED
        BY <1>8, <2>2
<1>11. /\ RestoredLastBlocks(bs) \in Seq(Nat)
       /\ Len(RestoredLastBlocks(bs)) = t[Len(bs)]
       /\ \A e \in 1 .. t[Len(bs)] : RestoredLastBlocks(bs)[e] = RestoredOwner(bs, e) - 1
    <2>1. \A e \in 1 .. t[Len(bs)] : RestoredOwner(bs, e) - 1 \in Nat
        BY <1>4, <1>9
    <2>2. /\ RestoredLastBlocks(bs) \in [1 .. t[Len(bs)] -> Nat]
          /\ \A e \in 1 .. t[Len(bs)] : RestoredLastBlocks(bs)[e] = RestoredOwner(bs, e) - 1
        BY Zenon, <1>8, <2>1 DEF RestoredLastBlocks
    <2>3. QED
        BY <1>8, <2>2
<1>12. /\ blocks = rs
       /\ epochHashSeeds = RestoredSeeds(bs)
       /\ epochLastAbsoluteBlockIndex = RestoredLastBlocks(bs)
       /\ totalBlocksReleased = 0
       /\ oldestEpochID = initial.oldestEpochID
       /\ synchronizingEpochs = Len(epochHashSeeds)
       /\ synchronizedEpochs = Len(epochHashSeeds)
       /\ blockPutWakeup = TRUE
       /\ blocksToRelease = <<>>
       /\ blocksReleasing = 0
       /\ blockReleaseWakeup = TRUE
       /\ closedForWriting = FALSE
    BY Zenon, <1>1 DEF NewPersistentBlockList
<1> HIDE DEF bs, rs
<1>13. TypeOK
    <2>1. blocks \in Seq(BlockInfo) /\ oldestEpochID \in EpochID
        BY Zenon, <1>2, <1>6, <1>12
    <2>2. epochHashSeeds \in Seq(Seed) /\ epochLastAbsoluteBlockIndex \in Seq(Nat)
        BY Zenon, <1>10, <1>11, <1>12
    <2>3. /\ Len(epochLastAbsoluteBlockIndex) = Len(epochHashSeeds)
          /\ Len(epochHashSeeds) \in Nat
          /\ Len(epochHashSeeds) <= MaxEpochs
        BY Zenon, <1>2, <1>8, <1>10, <1>11, <1>12
    <2>4. blocksToRelease \in Seq(Location)
        BY Zenon, <1>12, EmptySeq
    <2>5. QED
        BY Zenon, <1>12, <2>1, <2>2, <2>3, <2>4 DEF TypeOK
<1>14. OffsetsOrdered
    BY <1>5, <1>6, <1>12 DEF OffsetsOrdered
<1>15. EpochsOrdered
    BY <1>8, <1>10, <1>12 DEF EpochsOrdered
<1>16. WakeupsMatchWork
    BY <1>12 DEF WakeupsMatchWork
<1>17. IsPartition(t)
    <2>1. ASSUME NEW i \in 1 .. Len(bs), NEW e \in t[i - 1] + 1 .. t[i]
          PROVE  RestoredLastBlocks(bs)[e] = 0 + i - 1
        <3>1. t[i - 1] \in Nat /\ t[i] \in Nat /\ t[i] <= t[Len(bs)]
            <4>1. i \in 0 .. Len(bs) /\ i - 1 \in 0 .. Len(bs) /\ i <= Len(bs)
                  /\ Len(bs) \in 0 .. Len(bs)
                BY <1>4
            <4>2. t[i] <= t[Len(bs)]
                BY Zenon, <1>6, <1>7, <4>1, RunningTotalMonotonic, BlockTypes
            <4>3. QED
                BY Zenon, <1>6, <1>7, <4>1, <4>2 DEF IsRunningTotal
        <3>2. e \in 1 .. t[Len(bs)] /\ t[i - 1] < e /\ e <= t[i]
            BY SMTT(30), <1>8, <3>1
        <3>3. RestoredOwner(bs, e) = i
            <4>1. e \in Nat
                BY <3>2
            <4>2. /\ RestoredOwner(bs, e) \in 1 .. Len(bs)
                  /\ t[RestoredOwner(bs, e) - 1] < e
                  /\ e <= t[RestoredOwner(bs, e)]
                BY Zenon, <1>9, <3>2
            <4>3. QED
                BY Zenon, <1>6, <1>7, <3>2, <4>1, <4>2, EpochOwnerUnique, BlockTypes
        <3>4. QED
            BY <1>11, <3>2, <3>3
    <2>2. QED
        BY Zenon, <1>6, <1>7, <1>10, <1>12, <2>1 DEF IsPartition
<1>18. QED
    BY Zenon, <1>13, <1>14, <1>15, <1>16, <1>17 DEF IInv

----------------------------------------------------------------------------
(* Theorems.                                                               *)

LEMMA NextInv ==
    ASSUME IInv, [Next]_blockListVars
    PROVE  IInv'
<1>1. CASE PopFront
    BY Zenon, <1>1, PopFrontInv
<1>2. CASE \E location \in Location \ HeldLocations : PushBack(location)
    BY Zenon, <1>2, PushBackInv
<1>3. CASE \E absoluteBlockIndex \in 0 .. totalBlocksReleased + Len(blocks) - 1,
              writtenOffset \in 0 .. BlockSize, seed \in Seed :
                  PutFinalizer(absoluteBlockIndex, writtenOffset, seed)
    BY Zenon, <1>3, PutFinalizerInv
<1>4. CASE \E isFinalSync \in BOOLEAN : NotifySyncStarting(isFinalSync)
    BY Zenon, <1>4, NotifySyncStartingInv
<1>5. CASE NotifySyncCompleted
    BY Zenon, <1>5, NotifySyncCompletedInv
<1>6. CASE GetPersistentState
    BY Zenon, <1>6, GetPersistentStateInv
<1>7. CASE NotifyPersistentStateWritten
    BY Zenon, <1>7, NotifyPersistentStateWrittenInv
<1>8. CASE UNCHANGED blockListVars
    <2> USE <1>8 DEF blockListVars, epochVars, syncVars, releaseVars
    <2>1. TypeOK' /\ OffsetsOrdered' /\ EpochsOrdered' /\ WakeupsMatchWork'
        BY Zenon DEF IInv, TypeOK, OffsetsOrdered, EpochsOrdered, WakeupsMatchWork
    <2>2. \E t : IsPartition(t)'
        BY Zenon, PartitionUnchanged DEF IInv
    <2>3. QED
        BY Zenon, <2>1, <2>2 DEF IInv
<1>9. QED
    BY Zenon, <1>1, <1>2, <1>3, <1>4, <1>5, <1>6, <1>7, <1>8 DEF Next

\* The conjunction of all invariants below is inductive: it holds in the states
\* that NewPersistentBlockList creates, and every method preserves it.
THEOREM Invariance == Spec => []IInv
<1>1. Init => IInv
    BY Zenon, InitInv
<1>2. IInv /\ [Next]_blockListVars => IInv'
    BY Zenon, NextInv
<1>3. QED
    BY <1>1, <1>2, PTL DEF Spec

\* Every field of the block list keeps its type; the two lists of epochs keep
\* the same length.
THEOREM TypeCorrect == Spec => []TypeOK
<1>1. IInv => TypeOK
    BY Zenon DEF IInv
<1>2. QED
    BY <1>1, Invariance, PTL

\* The inequality documented on persistentBlockInfo.
THEOREM OffsetInequality == Spec => []OffsetsOrdered
<1>1. IInv => OffsetsOrdered
    BY Zenon DEF IInv
<1>2. QED
    BY <1>1, Invariance, PTL

\* The inequality documented on the counts of epochs.
THEOREM EpochInequality == Spec => []EpochsOrdered
<1>1. IInv => EpochsOrdered
    BY Zenon DEF IInv
<1>2. QED
    BY <1>1, Invariance, PTL

\* The syncer's goroutines are awake exactly if there is work for them.
THEOREM Wakeups == Spec => []WakeupsMatchWork
<1>1. IInv => WakeupsMatchWork
    BY Zenon DEF IInv
<1>2. QED
    BY <1>1, Invariance, PTL

\* The blocks partition the epochs, in order.
THEOREM Partitioning == Spec => []EpochsPartitioned
<1>1. IInv => EpochsPartitioned
    BY Zenon, PartitionImpliesPartitioned DEF IInv
<1>2. QED
    BY <1>1, Invariance, PTL

\* The bookkeeping of the block list is consistent: all of the above.
THEOREM Bookkeeping == Spec => []BookkeepingConsistent
<1>1. TypeOK /\ OffsetsOrdered /\ EpochsOrdered /\ EpochsPartitioned /\ WakeupsMatchWork
      => BookkeepingConsistent
    BY Zenon DEF BookkeepingConsistent
<1>2. QED
    BY <1>1, TypeCorrect, OffsetInequality, EpochInequality, Partitioning, Wakeups, PTL

----------------------------------------------------------------------------
(* GetPersistentState and NewPersistentBlockList are inverse to each other *)
(* on the synchronized epochs.                                             *)

LEMMA FirstBlockCovering ==
    ASSUME NEW n \in Nat, NEW t \in [0 .. n -> Nat], NEW c \in Nat, c <= t[n]
    PROVE  \E k \in 0 .. n : t[k] >= c /\ \A m \in 0 .. k - 1 : t[m] < c
<1> SUFFICES ASSUME \A k \in 0 .. n : ~(t[k] >= c /\ \A m \in 0 .. k - 1 : t[m] < c)
             PROVE  FALSE
    BY Zenon
<1> DEFINE T == {k \in Nat : k <= n => \A m \in 0 .. k : t[m] < c}
<1>1. 0 \in T
    <2>1. ~(t[0] >= c /\ \A m \in 0 .. 0 - 1 : t[m] < c)
        OBVIOUS
    <2>2. t[0] \in Nat
        OBVIOUS
    <2>3. t[0] < c
        BY <2>1, <2>2
    <2>4. QED
        BY <2>3
<1>2. ASSUME NEW k \in Nat, k \in T PROVE k + 1 \in T
    <2> SUFFICES ASSUME k + 1 <= n PROVE \A m \in 0 .. k + 1 : t[m] < c
        OBVIOUS
    <2>1. \A m \in 0 .. k : t[m] < c
        BY <1>2
    <2>2. k + 1 \in 0 .. n /\ t[k + 1] \in Nat /\ (k + 1) - 1 = k
        OBVIOUS
    <2>3. t[k + 1] < c
        BY <2>1, <2>2
    <2>4. QED
        BY <2>1, <2>3
<1>3. Nat \subseteq T
    <2> HIDE DEF T
    <2>1. QED
        BY Zenon, <1>1, <1>2, NatSetInduction
<1>4. n \in T /\ n \in 0 .. n /\ t[n] \in Nat
    <2>1. n \in T
        BY Zenon, <1>3
    <2>2. n \in 0 .. n /\ t[n] \in Nat
        OBVIOUS
    <2> HIDE DEF T
    <2>3. QED
        BY Zenon, <2>1, <2>2
<1>5. t[n] < c
    BY <1>4
<1>6. QED
    BY <1>4, <1>5

LEMMA StateRestores ==
    ASSUME IInv
    PROVE  StateRestoresEpochs
<1>1. PICK t : IsPartition(t)
    BY Zenon DEF IInv
<1>2. /\ blocks \in Seq(BlockInfo)
      /\ epochHashSeeds \in Seq(Seed)
      /\ Len(blocks) \in Nat
      /\ Len(epochHashSeeds) \in Nat
      /\ totalBlocksReleased \in Nat
      /\ synchronizedEpochs \in Nat
      /\ synchronizedEpochs <= Len(epochHashSeeds)
    BY SMTT(30), NumberTypes DEF IInv, TypeOK, EpochsOrdered
<1>3. /\ t = EpochsUpTo(blocks)
      /\ t \in [0 .. Len(blocks) -> Nat]
      /\ t[0] = 0
      /\ t[Len(blocks)] = Len(epochHashSeeds)
    <2>1. IsRunningTotal(EpochsUpTo(blocks), blocks)
        BY Zenon, <1>2, BlockTypes, EpochsUpToIsTotal
    <2>2. IsRunningTotal(t, blocks) /\ t[Len(blocks)] = Len(epochHashSeeds)
        BY Zenon, <1>1 DEF IsPartition
    <2>3. t = EpochsUpTo(blocks)
        BY Zenon, <1>2, <2>1, <2>2, RunningTotalUnique
    <2>4. QED
        BY Zenon, <2>2, <2>3 DEF IsRunningTotal
<1> DEFINE L(n) == IF t[n] > synchronizedEpochs THEN synchronizedEpochs ELSE t[n]
           count == CHOOSE n \in 0 .. Len(blocks) :
                        /\ t[n] >= synchronizedEpochs
                        /\ \A m \in 0 .. n - 1 : t[m] < synchronizedEpochs
           state == PersistentBlocks
           rs == RestoredBlocks(state)
<1>4. count \in 0 .. Len(blocks) /\ t[count] >= synchronizedEpochs
    <2>1. \E n \in 0 .. Len(blocks) : /\ t[n] >= synchronizedEpochs
                                      /\ \A m \in 0 .. n - 1 : t[m] < synchronizedEpochs
        BY ZenonT(30), <1>2, <1>3, FirstBlockCovering
    <2>2. QED
        BY Zenon, <2>1
<1>5. state = [i \in 1 .. count |->
                  [location |-> blocks[i].location,
                   writeOffsetBytes |-> blocks[i].synchronizedOffsetBytes,
                   epochHashSeeds |-> SubSeq(epochHashSeeds, L(i - 1) + 1, L(i))]]
    BY Zenon, <1>3 DEF PersistentBlocks
<1> HIDE DEF count, state
<1>6. /\ count \in Nat
      /\ DOMAIN state = 1 .. count
      /\ Len(state) = count
      /\ \A i \in 1 .. count :
            state[i].epochHashSeeds = SubSeq(epochHashSeeds, L(i - 1) + 1, L(i))
    <2>1. count \in Nat
        BY <1>2, <1>4
    <2>2. DOMAIN state = 1 .. count
        BY Zenon, <1>5
    <2>3. Len(state) = count
        BY <1>5, <2>1
    <2>4. \A i \in 1 .. count :
             state[i].epochHashSeeds = SubSeq(epochHashSeeds, L(i - 1) + 1, L(i))
        BY Zenon, <1>5
    <2>5. QED
        BY Zenon, <2>1, <2>2, <2>3, <2>4
<1>7. ASSUME NEW i \in 1 .. count
      PROVE  /\ L(i) \in Nat /\ L(i - 1) \in Nat
             /\ L(i - 1) <= L(i) /\ L(i) <= Len(epochHashSeeds)
             /\ t[i] \in Nat /\ t[i - 1] \in Nat
    <2>1. i \in 0 .. Len(blocks) /\ i - 1 \in 0 .. Len(blocks) /\ i - 1 <= i
        BY <1>2, <1>4
    <2>2. t[i] \in Nat /\ t[i - 1] \in Nat
        BY Zenon, <1>3, <2>1
    <2>3. t[i - 1] <= t[i]
        BY Zenon, <1>1, <1>2, <2>1, RunningTotalMonotonic, BlockTypes DEF IsPartition
    <2>4. QED
        BY <1>2, <2>2, <2>3
<1>8. ASSUME NEW i \in 1 .. count
      PROVE  /\ Len(state[i].epochHashSeeds) = L(i) - L(i - 1)
             /\ \A k \in 1 .. L(i) - L(i - 1) :
                   state[i].epochHashSeeds[k] = epochHashSeeds[L(i - 1) + k]
    <2>1. PICK a, b : a = L(i - 1) /\ b = L(i)
        BY Zenon
    <2>2. a \in Nat /\ b \in Nat /\ a <= b /\ b <= Len(epochHashSeeds)
        BY Zenon, <1>7, <2>1
    <2>3. state[i].epochHashSeeds = SubSeq(epochHashSeeds, a + 1, b)
        BY Zenon, <1>6, <2>1
    <2>4. a + 1 \in Int /\ b \in Int /\ \A k \in a + 1 .. b : epochHashSeeds[k] \in Seed
        BY <1>2, <2>2, ElementOfSeq
    <2>5. /\ Len(SubSeq(epochHashSeeds, a + 1, b)) =
                 IF a + 1 <= b THEN b - (a + 1) + 1 ELSE 0
          /\ \A k \in 1 .. b - (a + 1) + 1 :
                 SubSeq(epochHashSeeds, a + 1, b)[k] = epochHashSeeds[(a + 1) + k - 1]
        BY <2>4, SubSeqProperties
    <2>6. Len(SubSeq(epochHashSeeds, a + 1, b)) = b - a
        BY <2>2, <2>5
    <2>7. ASSUME NEW k \in 1 .. b - a
          PROVE  SubSeq(epochHashSeeds, a + 1, b)[k] = epochHashSeeds[a + k]
        <3>1. k \in 1 .. b - (a + 1) + 1 /\ (a + 1) + k - 1 = a + k
            BY <2>2
        <3>2. QED
            BY Zenon, <2>5, <3>1
    <2> HIDE DEF L
    <2>8. QED
        BY Zenon, <2>1, <2>3, <2>6, <2>7
<1>9. /\ DOMAIN rs = 1 .. count /\ Len(rs) = count
      /\ \A i \in 1 .. count : rs[i].epochCount = L(i) - L(i - 1)
    <2>1. DOMAIN rs = 1 .. count /\ Len(rs) = count
        BY <1>6 DEF RestoredBlocks
    <2>2. \A i \in 1 .. count : rs[i].epochCount = Len(state[i].epochHashSeeds)
        BY Zenon, <1>6 DEF RestoredBlocks, RestoredBlock
    <2>3. QED
        BY Zenon, <1>8, <2>1, <2>2
<1> HIDE DEF rs
<1>10. PICK u : u = [n \in 0 .. count |-> L(n)]
    BY Zenon
<1>11. IsRunningTotal(u, rs)
    <2>1. u \in [0 .. Len(rs) -> Nat]
        <3>1. \A n \in 0 .. count : L(n) \in Nat
            BY SMTT(30), <1>2, <1>3, <1>4
        <3>2. QED
            BY Zenon, <1>9, <1>10, <3>1
    <2>2. u[0] = 0
        BY SMTT(30), <1>2, <1>3, <1>6, <1>10
    <2>3. ASSUME NEW i \in 1 .. Len(rs)
          PROVE  u[i] = u[i - 1] + rs[i].epochCount
        <3>1. i \in 1 .. count /\ i \in 0 .. count /\ i - 1 \in 0 .. count
            BY <1>6, <1>9
        <3>2. u[i] = L(i) /\ u[i - 1] = L(i - 1)
            BY Zenon, <1>10, <3>1
        <3>3. L(i) \in Nat /\ L(i - 1) \in Nat /\ rs[i].epochCount = L(i) - L(i - 1)
            BY Zenon, <1>7, <1>9, <3>1
        <3> HIDE DEF L
        <3>4. QED
            BY <3>2, <3>3
    <2>4. QED
        BY Zenon, <2>1, <2>2, <2>3 DEF IsRunningTotal
<1>12. ASSUME NEW i \in 1 .. Len(rs) PROVE rs[i].epochCount \in Nat
    <2>1. i \in 1 .. count
        BY Zenon, <1>9
    <2>2. L(i) \in Nat /\ L(i - 1) \in Nat /\ L(i - 1) <= L(i)
        BY Zenon, <1>7, <2>1
    <2> HIDE DEF L
    <2>3. QED
        BY <1>9, <2>1, <2>2
<1>13. u = EpochsUpTo(rs)
    <2>1. Len(rs) \in Nat
        BY Zenon, <1>6, <1>9
    <2>2. IsRunningTotal(EpochsUpTo(rs), rs)
        BY Zenon, <1>12, <2>1, EpochsUpToIsTotal
    <2>3. QED
        BY Zenon, <1>11, <2>1, <2>2, RunningTotalUnique
<1>14. u[count] = synchronizedEpochs
    <2>1. t[count] \in Nat /\ count \in 0 .. count
        BY <1>3, <1>4, <1>6
    <2>2. QED
        BY SMTT(30), <1>2, <1>4, <1>10, <2>1
<1>15. RestoredEpochs(state) = 1 .. synchronizedEpochs
    BY Zenon, <1>6, <1>13, <1>14 DEF RestoredEpochs, rs
<1>16. ASSUME NEW e \in 1 .. synchronizedEpochs
       PROVE  \E i \in 1 .. count :
                 /\ i = RestoredOwner(state, e)
                 /\ L(i - 1) < e /\ e <= L(i)
                 /\ t[i - 1] < e /\ e <= t[i]
    <2>1. RestoredOwner(state, e) =
              CHOOSE i \in 1 .. count : u[i - 1] < e /\ e <= u[i]
        BY Zenon, <1>9, <1>13 DEF RestoredOwner, EpochOwner, rs
    <2>2. \E i \in 1 .. count : u[i - 1] < e /\ e <= u[i]
        <3>1. Len(rs) \in Nat /\ e \in 1 .. u[Len(rs)]
            BY Zenon, <1>6, <1>9, <1>14
        <3>2. QED
            BY Zenon, <1>9, <1>11, <1>12, <3>1, EpochHasOwner
    <2>3. PICK i \in 1 .. count : i = RestoredOwner(state, e) /\ u[i - 1] < e /\ e <= u[i]
        BY Zenon, <2>1, <2>2
    <2>4. i \in 0 .. count /\ i - 1 \in 0 .. count
        BY <1>6
    <2>5. L(i - 1) < e /\ e <= L(i)
        BY Zenon, <1>10, <2>3, <2>4
    <2>6. t[i - 1] < e /\ e <= t[i]
        BY SMTT(30), <1>2, <1>7, <2>5
    <2>7. QED
        BY Zenon, <2>3, <2>5, <2>6
<1>17. RestoredSeeds(state) = SubSeq(epochHashSeeds, 1, synchronizedEpochs)
    <2>1. SubSeq(epochHashSeeds, 1, synchronizedEpochs)
              = [e \in 1 .. synchronizedEpochs |-> epochHashSeeds[e]]
        BY SMTT(30), <1>2
    <2>2. ASSUME NEW e \in 1 .. synchronizedEpochs
          PROVE  LET i == RestoredOwner(state, e)
                 IN  state[i].epochHashSeeds[e - u[i - 1]] = epochHashSeeds[e]
        <3>1. PICK i \in 1 .. count : /\ i = RestoredOwner(state, e)
                                      /\ L(i - 1) < e /\ e <= L(i)
            BY Zenon, <1>16
        <3>2. u[i - 1] = L(i - 1)
            BY <1>6, <1>10
        <3>3. L(i) \in Nat /\ L(i - 1) \in Nat
            BY Zenon, <1>7
        <3> HIDE DEF L
        <3>4. e - L(i - 1) \in 1 .. L(i) - L(i - 1) /\ L(i - 1) + (e - L(i - 1)) = e
            BY SMTT(30), <3>1, <3>3
        <3>5. state[i].epochHashSeeds[e - L(i - 1)] = epochHashSeeds[e]
            BY Zenon, <1>8, <3>4
        <3>6. QED
            BY Zenon, <3>1, <3>2, <3>5
    <2>3. RestoredSeeds(state) =
              [e \in 1 .. synchronizedEpochs |->
                  LET i == RestoredOwner(state, e)
                  IN  state[i].epochHashSeeds[e - u[i - 1]]]
        BY Zenon, <1>13, <1>15 DEF RestoredSeeds, rs
    <2>4. QED
        BY Zenon, <2>1, <2>2, <2>3
<1>18. RestoredLastBlocks(state) =
           [e \in 1 .. synchronizedEpochs |->
               epochLastAbsoluteBlockIndex[e] - totalBlocksReleased]
    <2>1. ASSUME NEW e \in 1 .. synchronizedEpochs
          PROVE  RestoredOwner(state, e) - 1
                     = epochLastAbsoluteBlockIndex[e] - totalBlocksReleased
        <3>1. PICK i \in 1 .. count : /\ i = RestoredOwner(state, e)
                                      /\ t[i - 1] < e /\ e <= t[i]
            BY Zenon, <1>16
        <3>2. i \in 1 .. Len(blocks) /\ e \in t[i - 1] + 1 .. t[i]
            BY SMTT(30), <1>2, <1>4, <1>7, <3>1
        <3>3. epochLastAbsoluteBlockIndex[e] = totalBlocksReleased + i - 1
            BY Zenon, <1>1, <3>2 DEF IsPartition
        <3>4. QED
            BY <1>2, <3>1, <3>2, <3>3
    <2>2. QED
        BY Zenon, <1>15, <2>1 DEF RestoredLastBlocks
<1>19. QED
    BY Zenon, <1>17, <1>18 DEF StateRestoresEpochs, state

\* What is restored from the persistent state are the synchronized epochs, with
\* their seeds and the positions of their last blocks.
THEOREM StateRoundTrip == Spec => []StateRestoresEpochs
<1>1. IInv => StateRestoresEpochs
    BY Zenon, StateRestores
<1>2. QED
    BY <1>1, Invariance, PTL

----------------------------------------------------------------------------
(* References.                                                             *)

\* Dropping the n oldest epochs moves an epoch that is not among them n places
\* to the front, also where epoch IDs wrap around.
LEMMA EpochShift ==
    ASSUME NEW id \in EpochID, NEW oldest \in EpochID, NEW n \in Nat,
           n <= EpochSub(id, oldest)
    PROVE  EpochSub(id, EpochAdd(oldest, n)) = EpochSub(id, oldest) - n
BY EpochAssumption DEF EpochID, EpochAdd, EpochSub

LEMMA LatestEpoch ==
    ASSUME NEW oldest \in EpochID, NEW n \in Nat, n < EpochIDs
    PROVE  EpochSub(EpochAdd(oldest, n), oldest) = n
BY SMTT(30), EpochAssumption DEF EpochID, EpochAdd, EpochSub

\* The abbreviation of ReferencesStable for one reference.
StaysSame(ref) ==
    LET absolute == totalBlocksReleased + BlockReferenceToBlockIndex(ref)
    IN  Resolves(ref) /\ absolute > totalBlocksReleased' =>
            /\ Resolves(ref)'
            /\ ReferenceSeed(ref)' = ReferenceSeed(ref)
            /\ absolute = (totalBlocksReleased + BlockReferenceToBlockIndex(ref))'

\* Steps that do not touch the front of the list: epochs are only added.
LEMMA AppendingKeepsReferences ==
    ASSUME IInv, NEW epochID \in EpochID, NEW blocksFromLast \in Nat,
           UNCHANGED <<oldestEpochID, totalBlocksReleased>>,
           Len(epochHashSeeds') \in Nat,
           Len(epochHashSeeds') >= Len(epochHashSeeds),
           \A e \in 1 .. Len(epochHashSeeds) :
               /\ epochHashSeeds'[e] = epochHashSeeds[e]
               /\ epochLastAbsoluteBlockIndex'[e] = epochLastAbsoluteBlockIndex[e]
    PROVE  StaysSame([epochID |-> epochID, blocksFromLast |-> blocksFromLast])
<1> DEFINE ref == [epochID |-> epochID, blocksFromLast |-> blocksFromLast]
<1>a. PICK e : e = EpochSub(epochID, oldestEpochID) + 1
    BY Zenon
<1> SUFFICES ASSUME Resolves(ref)
             PROVE  /\ Resolves(ref)'
                    /\ ReferenceSeed(ref)' = ReferenceSeed(ref)
                    /\ BlockReferenceToBlockIndex(ref)' = BlockReferenceToBlockIndex(ref)
    BY Zenon DEF StaysSame
<1>1. EpochIndex(ref) = e /\ EpochIndex(ref)' = e
    BY Zenon, <1>a DEF EpochIndex
<1>2. e \in Nat \ {0}
    BY SMTT(30), <1>a, EpochAssumption DEF IInv, TypeOK, EpochID, EpochSub
<1>3. e \in 1 .. Len(epochHashSeeds) /\ Len(epochHashSeeds) \in Nat
    BY <1>1, <1>2, NumberTypes DEF Resolves, IInv
<1>4. /\ epochHashSeeds'[e] = epochHashSeeds[e]
      /\ epochLastAbsoluteBlockIndex'[e] = epochLastAbsoluteBlockIndex[e]
    BY Zenon, <1>3
<1>5. LastBlockIndex(e)' = LastBlockIndex(e)
    BY Zenon, <1>4 DEF LastBlockIndex
<1>6. e <= Len(epochHashSeeds')
    BY <1>3
<1>7. Resolves(ref)'
    BY Zenon, <1>1, <1>5, <1>6 DEF Resolves
<1>8. ReferenceSeed(ref)' = ReferenceSeed(ref)
    BY Zenon, <1>1, <1>4 DEF ReferenceSeed
<1>9. BlockReferenceToBlockIndex(ref)' = BlockReferenceToBlockIndex(ref)
    <2>1. BlockReferenceToBlockIndex(ref)' = LastBlockIndex(EpochIndex(ref))' - blocksFromLast
        BY Zenon DEF BlockReferenceToBlockIndex
    <2>2. BlockReferenceToBlockIndex(ref) = LastBlockIndex(EpochIndex(ref)) - blocksFromLast
        BY Zenon DEF BlockReferenceToBlockIndex
    <2>3. LastBlockIndex(EpochIndex(ref))' = LastBlockIndex(EpochIndex(ref))
        BY Zenon, <1>1, <1>4 DEF LastBlockIndex
    <2>4. QED
        BY Zenon, <2>1, <2>2, <2>3
<1>10. QED
    BY Zenon, <1>7, <1>8, <1>9

LEMMA PopFrontKeepsReferences ==
    ASSUME IInv, PopFront, NEW epochID \in EpochID, NEW blocksFromLast \in Nat
    PROVE  StaysSame([epochID |-> epochID, blocksFromLast |-> blocksFromLast])
<1> DEFINE ref == [epochID |-> epochID, blocksFromLast |-> blocksFromLast]
<1>a. PICK n, e : n = Head(blocks).epochCount /\ e = EpochSub(epochID, oldestEpochID) + 1
    BY Zenon
<1> SUFFICES ASSUME Resolves(ref),
                    totalBlocksReleased + BlockReferenceToBlockIndex(ref)
                        > totalBlocksReleased'
             PROVE  /\ Resolves(ref)'
                    /\ ReferenceSeed(ref)' = ReferenceSeed(ref)
                    /\ totalBlocksReleased + BlockReferenceToBlockIndex(ref)
                           = (totalBlocksReleased + BlockReferenceToBlockIndex(ref))'
    BY Zenon DEF StaysSame
<1>1. /\ Len(epochHashSeeds) \in Nat
      /\ Len(epochLastAbsoluteBlockIndex) = Len(epochHashSeeds)
      /\ totalBlocksReleased \in Nat
      /\ oldestEpochID \in EpochID
      /\ epochHashSeeds \in Seq(Seed)
      /\ epochLastAbsoluteBlockIndex \in Seq(Nat)
      /\ blocks \in Seq(BlockInfo)
    BY Zenon, NumberTypes DEF IInv, TypeOK
<1>2. /\ totalBlocksReleased' = totalBlocksReleased + 1
      /\ oldestEpochID' = EpochAdd(oldestEpochID, n)
      /\ epochHashSeeds' = SubSeq(epochHashSeeds, n + 1, Len(epochHashSeeds))
      /\ epochLastAbsoluteBlockIndex' =
             SubSeq(epochLastAbsoluteBlockIndex, n + 1, Len(epochLastAbsoluteBlockIndex))
      /\ blocks # <<>>
    BY Zenon, <1>a DEF PopFront
<1>3. PICK t : IsPartition(t)
    BY Zenon DEF IInv
<1>4. /\ Len(blocks) \in Nat \ {0}
      /\ n \in Nat
      /\ n = t[1] /\ t[0] = 0
      /\ n <= Len(epochHashSeeds)
    <2>1. Len(blocks) \in Nat \ {0} /\ Head(blocks) = blocks[1]
        BY SMTT(30), <1>1, <1>2, EmptySeq
    <2>2. n \in Nat
        BY SMTT(30), <1>a, <1>1, <2>1, BlockTypes
    <2>3. IsRunningTotal(t, blocks) /\ t[Len(blocks)] = Len(epochHashSeeds)
        BY Zenon, <1>3 DEF IsPartition
    <2>4. t[1] <= t[Len(blocks)]
        <3>1. 1 \in 0 .. Len(blocks) /\ Len(blocks) \in 0 .. Len(blocks) /\ 1 <= Len(blocks)
            BY SMTT(30), <2>1
        <3>2. QED
            BY Zenon, <1>1, <2>3, <3>1, BlockTypes, RunningTotalMonotonic
    <2>5. t[0] = 0 /\ t[1] = n
        BY SMTT(30), <1>a, <2>1, <2>2, <2>3 DEF IsRunningTotal
    <2>6. QED
        BY Zenon, <2>1, <2>2, <2>3, <2>4, <2>5
<1>5. e \in Nat \ {0} /\ EpochIndex(ref) = e
    BY SMTT(30), <1>a, <1>1, EpochAssumption DEF EpochID, EpochSub, EpochIndex
<1>6. e \in 1 .. Len(epochHashSeeds)
    BY <1>1, <1>5 DEF Resolves
<1>7. epochLastAbsoluteBlockIndex[e] \in Nat
    BY Zenon, <1>1, <1>6, ElementOfSeq
<1>8. /\ blocksFromLast < epochLastAbsoluteBlockIndex[e] - totalBlocksReleased + 1
      /\ BlockReferenceToBlockIndex(ref)
             = epochLastAbsoluteBlockIndex[e] - totalBlocksReleased + 1 - blocksFromLast
    <2>1. LastBlockIndex(EpochIndex(ref))
              = epochLastAbsoluteBlockIndex[e] - totalBlocksReleased + 1
        BY Zenon, <1>5 DEF LastBlockIndex
    <2>2. blocksFromLast < LastBlockIndex(EpochIndex(ref))
        BY Zenon DEF Resolves
    <2>3. BlockReferenceToBlockIndex(ref) = LastBlockIndex(EpochIndex(ref)) - blocksFromLast
        BY Zenon DEF BlockReferenceToBlockIndex
    <2>4. QED
        BY SMTT(30), <1>1, <1>7, <2>1, <2>2, <2>3
<1>9. epochLastAbsoluteBlockIndex[e] - blocksFromLast > totalBlocksReleased
    <2>1. totalBlocksReleased + (epochLastAbsoluteBlockIndex[e] - totalBlocksReleased + 1
              - blocksFromLast) > totalBlocksReleased + 1
        BY Zenon, <1>2, <1>8
    <2>2. QED
        BY SMTT(30), <1>1, <1>7, <2>1
<1>10. e > n
    <2> SUFFICES ASSUME e <= n PROVE FALSE
        BY <1>4, <1>5
    <2>1. 1 \in 1 .. Len(blocks) /\ e \in t[1 - 1] + 1 .. t[1]
        BY <1>4, <1>5
    <2>2. epochLastAbsoluteBlockIndex[e] = totalBlocksReleased + 1 - 1
        BY Zenon, <1>3, <2>1 DEF IsPartition
    <2>3. QED
        BY <1>1, <1>9, <2>2
<1>11. EpochIndex(ref)' = e - n
    <2>1. n <= EpochSub(epochID, oldestEpochID)
        <3>1. e \in Nat /\ n \in Nat /\ e > n /\ e = EpochSub(epochID, oldestEpochID) + 1
            BY Zenon, <1>a, <1>4, <1>5, <1>10
        <3>2. EpochSub(epochID, oldestEpochID) \in Nat
            BY <1>1, EpochAssumption DEF EpochID, EpochSub
        <3>3. QED
            BY <3>1, <3>2
    <2>2. EpochSub(epochID, oldestEpochID) \in Nat
        BY <1>1, EpochAssumption DEF EpochID, EpochSub
    <2>3. EpochSub(epochID, oldestEpochID') = EpochSub(epochID, oldestEpochID) - n
        BY Zenon, <1>1, <1>2, <1>4, <2>1, EpochShift
    <2>4. EpochIndex(ref)' = EpochSub(epochID, oldestEpochID') + 1
        BY Zenon DEF EpochIndex
    <2>5. QED
        BY SMTT(30), <1>a, <1>4, <2>2, <2>3, <2>4
<1>12. e - n \in 1 .. Len(epochHashSeeds) - n /\ (e - n) + n = e
    BY SMTT(30), <1>1, <1>4, <1>6, <1>10
<1>13. /\ Len(epochHashSeeds') = Len(epochHashSeeds) - n
       /\ epochHashSeeds'[e - n] = epochHashSeeds[e]
    <2>1. n \in 0 .. Len(epochHashSeeds)
        BY <1>1, <1>4
    <2>2. /\ Len(epochHashSeeds') = Len(epochHashSeeds) - n
          /\ \A i \in 1 .. Len(epochHashSeeds) - n : epochHashSeeds'[i] = epochHashSeeds[i + n]
        BY Zenon, <1>1, <1>2, <2>1, DropPrefix
    <2>3. QED
        BY Zenon, <1>12, <2>2
<1>14. epochLastAbsoluteBlockIndex'[e - n] = epochLastAbsoluteBlockIndex[e]
    <2>1. n \in 0 .. Len(epochLastAbsoluteBlockIndex)
        BY <1>1, <1>4
    <2>2. \A i \in 1 .. Len(epochLastAbsoluteBlockIndex) - n :
              epochLastAbsoluteBlockIndex'[i] = epochLastAbsoluteBlockIndex[i + n]
        BY Zenon, <1>1, <1>2, <2>1, DropPrefix
    <2>3. QED
        BY Zenon, <1>1, <1>12, <2>2
<1>15. LastBlockIndex(EpochIndex(ref))'
           = epochLastAbsoluteBlockIndex[e] - (totalBlocksReleased + 1) + 1
    BY Zenon, <1>2, <1>11, <1>14 DEF LastBlockIndex
<1>16. Resolves(ref)'
    <2>1. EpochIndex(ref)' <= Len(epochHashSeeds')
        BY SMTT(30), <1>11, <1>12, <1>13
    <2>2. blocksFromLast < LastBlockIndex(EpochIndex(ref))'
        BY SMTT(30), <1>1, <1>7, <1>9, <1>15
    <2>3. QED
        BY Zenon, <2>1, <2>2 DEF Resolves
<1>17. ReferenceSeed(ref)' = ReferenceSeed(ref)
    BY Zenon, <1>5, <1>11, <1>13 DEF ReferenceSeed
<1>18. totalBlocksReleased + BlockReferenceToBlockIndex(ref)
           = (totalBlocksReleased + BlockReferenceToBlockIndex(ref))'
    <2>1. PICK l, a : l = epochLastAbsoluteBlockIndex[e] /\ a = totalBlocksReleased
        BY Zenon
    <2>2. l \in Nat /\ a \in Nat
        BY Zenon, <1>1, <1>7, <2>1
    <2>3. LastBlockIndex(EpochIndex(ref))' = l - a
        BY <1>15, <2>1, <2>2
    <2>4. PICK b : b = BlockReferenceToBlockIndex(ref)'
        BY Zenon
    <2>5. b = (l - a) - blocksFromLast
        BY Zenon, <2>3, <2>4 DEF BlockReferenceToBlockIndex
    <2>6. a + BlockReferenceToBlockIndex(ref) = (a + 1) + b
        BY SMTT(30), <1>8, <2>1, <2>2, <2>5
    <2>7. totalBlocksReleased' = a + 1
        BY Zenon, <1>2, <2>1
    <2>8. QED
        BY Zenon, <2>1, <2>4, <2>6, <2>7
<1>19. QED
    BY Zenon, <1>16, <1>17, <1>18

\* Every step of the block list keeps every reference that it does not drop.
LEMMA NextKeepsReferences ==
    ASSUME IInv, [Next]_blockListVars, NEW epochID \in EpochID,
           NEW blocksFromLast \in Nat
    PROVE  StaysSame([epochID |-> epochID, blocksFromLast |-> blocksFromLast])
<1>1. Len(epochHashSeeds) \in Nat
    BY Zenon, NumberTypes DEF IInv
<1>2. CASE UNCHANGED <<oldestEpochID, totalBlocksReleased, epochHashSeeds,
                       epochLastAbsoluteBlockIndex>>
    <2>1. Len(epochHashSeeds') = Len(epochHashSeeds)
        BY Zenon, <1>2
    <2>2. QED
        BY <1>1, <1>2, <2>1, AppendingKeepsReferences
<1>3. CASE PopFront
    BY Zenon, <1>3, PopFrontKeepsReferences
<1>4. ASSUME NEW absoluteBlockIndex, NEW writtenOffset, NEW seed \in Seed,
             PutFinalizer(absoluteBlockIndex, writtenOffset, seed),
             NeedsNewEpoch(absoluteBlockIndex)
      PROVE  StaysSame([epochID |-> epochID, blocksFromLast |-> blocksFromLast])
    <2>1. PICK last : /\ last = totalBlocksReleased + Len(blocks) - 1
                      /\ epochLastAbsoluteBlockIndex' =
                             Append(epochLastAbsoluteBlockIndex, last)
        BY Zenon, <1>4 DEF PutFinalizer
    <2>2. epochHashSeeds' = Append(epochHashSeeds, seed)
        BY Zenon, <1>4 DEF PutFinalizer
    <2>3. UNCHANGED <<oldestEpochID, totalBlocksReleased>>
        BY Zenon, <1>4 DEF PutFinalizer
    <2>4. /\ epochHashSeeds \in Seq(Seed)
          /\ epochLastAbsoluteBlockIndex \in Seq(Nat)
          /\ Len(epochLastAbsoluteBlockIndex) = Len(epochHashSeeds)
        BY Zenon DEF IInv, TypeOK
    <2>5. /\ Len(epochHashSeeds') = Len(epochHashSeeds) + 1
          /\ \A e \in 1 .. Len(epochHashSeeds) : epochHashSeeds'[e] = epochHashSeeds[e]
        BY <2>2, <2>4, AppendProperties
    <2>6. \A e \in 1 .. Len(epochHashSeeds) :
              epochLastAbsoluteBlockIndex'[e] = epochLastAbsoluteBlockIndex[e]
        <3>1. last \in Int
            BY <2>1, NumberTypes DEF IInv
        <3>2. epochLastAbsoluteBlockIndex \in Seq(Int)
            BY <2>4
        <3>3. QED
            BY SMTT(30), <2>1, <2>4, <3>1, <3>2, AppendProperties
    <2>7. /\ Len(epochHashSeeds') \in Nat
          /\ Len(epochHashSeeds') >= Len(epochHashSeeds)
        BY <1>1, <2>5
    <2>8. QED
        BY Zenon, <2>3, <2>5, <2>6, <2>7, AppendingKeepsReferences
<1>5. ASSUME NEW absoluteBlockIndex, NEW writtenOffset, NEW seed \in Seed,
             PutFinalizer(absoluteBlockIndex, writtenOffset, seed),
             ~NeedsNewEpoch(absoluteBlockIndex)
      PROVE  UNCHANGED <<oldestEpochID, totalBlocksReleased, epochHashSeeds,
                         epochLastAbsoluteBlockIndex>>
    BY Zenon, <1>5 DEF PutFinalizer
<1>6. ASSUME NEW location, PushBack(location)
      PROVE  UNCHANGED <<oldestEpochID, totalBlocksReleased, epochHashSeeds,
                         epochLastAbsoluteBlockIndex>>
    BY Zenon, <1>6 DEF PushBack, epochVars
<1>7. ASSUME NEW isFinalSync, NotifySyncStarting(isFinalSync)
      PROVE  UNCHANGED <<oldestEpochID, totalBlocksReleased, epochHashSeeds,
                         epochLastAbsoluteBlockIndex>>
    BY Zenon, <1>7 DEF NotifySyncStarting, epochVars
<1>8. ASSUME \/ NotifySyncCompleted
             \/ GetPersistentState
             \/ NotifyPersistentStateWritten
             \/ UNCHANGED blockListVars
      PROVE  UNCHANGED <<oldestEpochID, totalBlocksReleased, epochHashSeeds,
                         epochLastAbsoluteBlockIndex>>
    BY Zenon, <1>8 DEF NotifySyncCompleted, GetPersistentState, NotifyPersistentStateWritten,
                blockListVars, epochVars
<1>9. QED
    BY Zenon, <1>2, <1>3, <1>4, <1>5, <1>6, <1>7, <1>8 DEF Next

\* A reference stays valid, with the same block and hash seed, for as long as
\* its block is in the list: what Put stores in the key-location map can be
\* interpreted by any later BlockReferenceToBlockIndex.
THEOREM ReferenceStability == Spec => ReferencesStable
<1>1. ASSUME IInv, [Next]_blockListVars
      PROVE  \A epochID \in EpochID, blocksFromLast \in 0 .. Len(blocks) :
                 StaysSame([epochID |-> epochID, blocksFromLast |-> blocksFromLast])
    <2>1. 0 .. Len(blocks) \subseteq Nat
        BY <1>1, NumberTypes DEF IInv
    <2>2. QED
        BY Zenon, <1>1, <2>1, NextKeepsReferences
<1> DEFINE Keeps ==
        \A epochID \in EpochID, blocksFromLast \in 0 .. Len(blocks) :
            StaysSame([epochID |-> epochID, blocksFromLast |-> blocksFromLast])
<1>2. IInv /\ [Next]_blockListVars => [Keeps]_blockListVars
    BY Zenon, <1>1
<1>3. Spec => [][Keeps]_blockListVars
    BY <1>2, Invariance, PTL DEF Spec
<1>4. QED
    BY Zenon, <1>3 DEF ReferencesStable, StaysSame

\* The epoch that a completed Put belongs to: the latest one, which covers the
\* Put's block and is not part of the synchronization in progress.
LEMMA PutUsesLatestEpoch ==
    ASSUME IInv,
           NEW absoluteBlockIndex \in 0 .. totalBlocksReleased + Len(blocks) - 1,
           NEW writtenOffset \in 0 .. BlockSize, NEW seed \in Seed,
           PutFinalizer(absoluteBlockIndex, writtenOffset, seed)
    PROVE  /\ Len(epochHashSeeds') \in Nat
           /\ Len(epochHashSeeds') > synchronizingEpochs'
           /\ epochLastAbsoluteBlockIndex'[Len(epochHashSeeds')] \in Nat
           /\ epochLastAbsoluteBlockIndex'[Len(epochHashSeeds')] >= absoluteBlockIndex
<1>1. /\ Len(epochHashSeeds) \in Nat
      /\ Len(blocks) \in Nat
      /\ totalBlocksReleased \in Nat
      /\ synchronizingEpochs \in Nat
      /\ synchronizingEpochs <= Len(epochHashSeeds)
      /\ synchronizingEpochs' = synchronizingEpochs
    BY Zenon, NumberTypes DEF IInv, EpochsOrdered, PutFinalizer
<1>2. /\ epochHashSeeds \in Seq(Seed)
      /\ epochLastAbsoluteBlockIndex \in Seq(Nat)
      /\ Len(epochLastAbsoluteBlockIndex) = Len(epochHashSeeds)
    BY Zenon DEF IInv, TypeOK
<1>3. CASE NeedsNewEpoch(absoluteBlockIndex)
    <2>1. PICK last : /\ last = totalBlocksReleased + Len(blocks) - 1
                      /\ epochLastAbsoluteBlockIndex' =
                             Append(epochLastAbsoluteBlockIndex, last)
        BY Zenon, <1>3 DEF PutFinalizer
    <2>2. last \in Nat /\ last >= absoluteBlockIndex
        BY <1>1, <2>1
    <2>3. epochHashSeeds' = Append(epochHashSeeds, seed)
        BY Zenon, <1>3 DEF PutFinalizer
    <2>4. Len(epochHashSeeds') = Len(epochHashSeeds) + 1
        BY Zenon, <1>2, <2>3, AppendProperties
    <2>5. epochLastAbsoluteBlockIndex'[Len(epochHashSeeds) + 1] = last
        BY <1>2, <2>1, <2>2, AppendProperties
    <2>6. QED
        BY <1>1, <2>2, <2>4, <2>5
<1>4. CASE ~NeedsNewEpoch(absoluteBlockIndex)
    <2>1. UNCHANGED <<epochHashSeeds, epochLastAbsoluteBlockIndex>>
        BY Zenon, <1>4 DEF PutFinalizer
    <2>2. Len(epochHashSeeds) # synchronizingEpochs
        BY Zenon, <1>2, <1>4 DEF NeedsNewEpoch
    <2>3. ~(epochLastAbsoluteBlockIndex[Len(epochHashSeeds)] < absoluteBlockIndex)
        BY Zenon, <1>2, <1>4 DEF NeedsNewEpoch
    <2>4. epochLastAbsoluteBlockIndex[Len(epochHashSeeds)] \in Nat
        <3>1. Len(epochHashSeeds) \in 1 .. Len(epochLastAbsoluteBlockIndex)
            BY <1>1, <1>2, <2>2
        <3>2. QED
            BY Zenon, <1>2, <3>1, ElementOfSeq
    <2>5. Len(epochHashSeeds) > synchronizingEpochs
        BY <1>1, <2>2
    <2>6. absoluteBlockIndex \in Nat
        BY SMTT(30), <1>1
    <2>7. QED
        BY SMTT(30), <1>1, <2>1, <2>3, <2>4, <2>5, <2>6
<1>5. QED
    BY Zenon, <1>3, <1>4

\* The latest epoch covers a block and is not being synchronized.
LatestEpochCovers(absoluteBlockIndex) ==
    /\ absoluteBlockIndex >= totalBlocksReleased
    /\ Len(epochHashSeeds) > synchronizingEpochs
    /\ epochLastAbsoluteBlockIndex[Len(epochHashSeeds)] \in Nat
    /\ epochLastAbsoluteBlockIndex[Len(epochHashSeeds)] >= absoluteBlockIndex

\* The reference for a block that the latest epoch covers.
LEMMA LatestReference ==
    ASSUME NEW absoluteBlockIndex \in Nat, TypeOK, LatestEpochCovers(absoluteBlockIndex)
    PROVE  HasUsableReference(absoluteBlockIndex)
<1> USE DEF LatestEpochCovers
<1>1. PICK n, index, last :
          /\ n = Len(epochHashSeeds)
          /\ index = absoluteBlockIndex - totalBlocksReleased + 1
          /\ last = LastBlockIndex(n)
    BY Zenon
<1>2. /\ n \in Nat \ {0}
      /\ n > synchronizingEpochs
      /\ n - 1 \in Nat
      /\ n - 1 < EpochIDs
      /\ totalBlocksReleased \in Nat
      /\ oldestEpochID \in EpochID
    <2>1. n \in Nat /\ synchronizingEpochs \in Nat /\ n <= MaxEpochs
        BY Zenon, <1>1, NumberTypes
    <2>2. QED
        BY SMTT(30), <1>1, <2>1, NumberTypes, EpochAssumption DEF TypeOK
<1>3. index \in Nat \ {0} /\ last \in Nat /\ last >= index
    <2>1. last = epochLastAbsoluteBlockIndex[n] - totalBlocksReleased + 1
        BY Zenon, <1>1 DEF LastBlockIndex
    <2>2. QED
        BY <1>1, <1>2, <2>1
<1>4. PICK id : id = EpochAdd(oldestEpochID, n - 1)
    BY Zenon
<1> DEFINE ref == [epochID |-> id, blocksFromLast |-> last - index]
<1>5. BlockIndexToBlockReference(index) = ref
    BY Zenon, <1>1, <1>4 DEF BlockIndexToBlockReference
<1>6. EpochIndex(ref) = n
    <2>1. EpochSub(id, oldestEpochID) = n - 1
        BY Zenon, <1>2, <1>4, LatestEpoch
    <2>2. EpochIndex(ref) = EpochSub(id, oldestEpochID) + 1
        BY Zenon DEF EpochIndex
    <2>3. QED
        BY <1>2, <2>1, <2>2
<1>7. Resolves(ref)
    BY SMTT(30), <1>1, <1>2, <1>3, <1>6 DEF Resolves
<1>8. BlockReferenceToBlockIndex(ref) = index
    BY <1>1, <1>3, <1>6 DEF BlockReferenceToBlockIndex
<1>9. ref.blocksFromLast >= 0
    BY <1>3
<1>10. EpochIndex(ref) > synchronizingEpochs
    BY Zenon, <1>2, <1>6
<1>11. QED
    BY Zenon, <1>1, <1>5, <1>7, <1>8, <1>9, <1>10 DEF HasUsableReference

\* The reference that a completed Put stores designates the block that was
\* written, in an epoch that only a later synchronization declares persistent.
THEOREM UsableReferences == Spec => PutGetsUsableReference
<1> DEFINE GetsUsable ==
        \A absoluteBlockIndex \in 0 .. totalBlocksReleased + Len(blocks) - 1,
           writtenOffset \in 0 .. BlockSize, seed \in Seed :
            PutFinalizer(absoluteBlockIndex, writtenOffset, seed) =>
                HasUsableReference(absoluteBlockIndex)'
<1>1. ASSUME NEW absoluteBlockIndex \in Nat
      PROVE  TypeOK' /\ LatestEpochCovers(absoluteBlockIndex)'
                 => HasUsableReference(absoluteBlockIndex)'
    <2>1. TypeOK /\ LatestEpochCovers(absoluteBlockIndex)
              => HasUsableReference(absoluteBlockIndex)
        BY Zenon, LatestReference
    <2>2. QED
        BY <2>1, PTL
<1>2. ASSUME IInv, IInv',
             NEW absoluteBlockIndex \in 0 .. totalBlocksReleased + Len(blocks) - 1,
             NEW writtenOffset \in 0 .. BlockSize, NEW seed \in Seed,
             PutFinalizer(absoluteBlockIndex, writtenOffset, seed)
      PROVE  HasUsableReference(absoluteBlockIndex)'
    <2>1. absoluteBlockIndex \in Nat /\ absoluteBlockIndex >= totalBlocksReleased'
        BY <1>2, NumberTypes DEF IInv, PutFinalizer
    <2>2. LatestEpochCovers(absoluteBlockIndex)'
        BY Zenon, <1>2, <2>1, PutUsesLatestEpoch DEF LatestEpochCovers
    <2>3. TypeOK'
        BY Zenon, <1>2 DEF IInv
    <2>4. QED
        BY Zenon, <1>1, <2>1, <2>2, <2>3
<1>3. IInv /\ IInv' => GetsUsable
    BY Zenon, <1>2
<1>4. IInv /\ IInv' /\ [Next]_blockListVars => [GetsUsable]_blockListVars
    BY Zenon, <1>3
<1>5. Spec => [][GetsUsable]_blockListVars
    BY <1>4, Invariance, PTL DEF Spec
<1>6. QED
    BY Zenon, <1>5 DEF PutGetsUsableReference
============================================================================
