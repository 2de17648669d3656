---------------------- MODULE FlatBlobAccessInvariant ----------------------
(***************************************************************************)
(* The inductive invariant of FlatBlobAccess, and the steps that its       *)
(* operations have in common: blocks that move on, space that is           *)
(* allocated, data that is written and entries that are stored. The        *)
(* operations themselves follow in FlatBlobAccessProofs.                   *)
(***************************************************************************)
EXTENDS FlatBlobAccess, TLAPS

----------------------------------------------------------------------------
(* The inductive invariant.                                                *)

\* The blocks are in order, and there are no more of them than allowed.
BlocksInOrder ==
    /\ released \in Nat /\ toBeReleased \in Nat /\ oldEnd \in Nat
    /\ used \in Seq(0 .. BlockSize)
    /\ released <= toBeReleased /\ toBeReleased <= Blobs!NextBlock
    /\ released <= oldEnd /\ oldEnd <= Blobs!NextBlock
    /\ Blobs!NextBlock <= MaxBlocks

\* A blob can be at a location without extending beyond its block.
Fits(location, key) ==
    /\ location \in Location
    /\ location.block < Blobs!NextBlock
    /\ location.offset + SizeBytes(key) <= BlockSize

\* The space at a location has been allocated, as far as its block still exists.
Taken(location, key) ==
    /\ Fits(location, key)
    /\ location.block >= released =>
          location.offset + SizeBytes(key) <= used[location.block - released + 1]

\* Two blobs do not overlap.
Apart(location, key, other, otherKey) ==
    \/ location.block # other.block
    \/ location.offset + SizeBytes(key) <= other.offset
    \/ other.offset + SizeBytes(otherKey) <= location.offset

\* Clients that have space allocated, and the ones that are yet to write to it.
HasTarget(state) == state # None /\ state.at \in {"write", "copy", "finalize"}
IsWriting(state) == state # None /\ state.at \in {"write", "copy"}
IsFinding(state) == state # None /\ state.op = "find"
IsSlicing(state) == state # None /\ state.at \in {"slice", "sliced"}

\* Keys with an entry that was stored as a whole.
WholeKeys == {k \in Key \ SliceKeys : map[k] # None}

\* Entries and parents of slices lie within blocks.
EntriesFit == \A k \in Key : map[k] # None => Fits(map[k], k)
ParentsFit ==
    \A c \in Client : IsSlicing(clients[c]) => Fits(clients[c].source, clients[c].key)

\* What is being written overlaps with nothing else.
SpaceTaken ==
    /\ \A k \in WholeKeys : Taken(map[k], k)
    /\ \A c \in Client : HasTarget(clients[c]) => Taken(clients[c].target, clients[c].key)

SpaceExclusive ==
    \A c \in Client : IsWriting(clients[c]) =>
        /\ \A k \in WholeKeys : Apart(clients[c].target, clients[c].key, map[k], k)
        /\ \A d \in Client \ {c} : HasTarget(clients[d]) =>
              Apart(clients[c].target, clients[c].key, clients[d].target, clients[d].key)

\* Blobs are complete by the time that the map refers to them.
EntriesComplete == \A k \in WholeKeys : DataAt(map[k], k) \in Contents[k]
CopiesComplete ==
    \A c \in Client : Is(c, "finalize") =>
        DataAt(clients[c].target, clients[c].key) \in Contents[clients[c].key]
UploadsComplete ==
    \A c \in Client : Is(c, "write") => clients[c].data \in Contents[clients[c].key]

\* What FindMissing() has not seen yet.
Remaining(state) ==
    state.missing
       \cup (IF state.at = "returned" THEN {} ELSE Range(state.todo))
       \cup (IF state.at \in {"copy", "finalize"} THEN {state.key} ELSE {})

\* Everything else was seen, and copies are made in blocks that are not old.
FindingsSeen ==
    \A c \in Client : IsFinding(clients[c]) =>
        /\ clients[c].start <= oldEnd
        /\ clients[c].keys \ Remaining(clients[c]) \subseteq seen[c]
        /\ HasTarget(clients[c]) => clients[c].start <= clients[c].target.block

FlatInv ==
    /\ BlocksInOrder
    /\ TypeOK
    /\ DOMAIN cells = 0 .. MaxBlocks - 1
    /\ DOMAIN seen = Client
    /\ completed \subseteq Data
    /\ EntriesFit /\ ParentsFit
    /\ SpaceTaken /\ SpaceExclusive
    /\ EntriesComplete /\ CopiesComplete /\ UploadsComplete
    /\ FindingsSeen

----------------------------------------------------------------------------
(* Numbers and sequences.                                                  *)

\* Elements of a sequence.
LEMMA ElementOfSeq ==
    ASSUME NEW S, NEW s \in Seq(S), NEW i \in 1 .. Len(s)
    PROVE  s[i] \in S
  OBVIOUS

\* Assigning to an element of a sequence.
LEMMA ExceptSeq ==
    ASSUME NEW S, NEW s \in Seq(S), NEW i \in 1 .. Len(s), NEW e \in S
    PROVE  /\ [s EXCEPT ![i] = e] \in Seq(S)
           /\ Len([s EXCEPT ![i] = e]) = Len(s)
           /\ \A j \in 1 .. Len(s) : [s EXCEPT ![i] = e][j] = IF j = i THEN e ELSE s[j]
  OBVIOUS

\* Appending to a sequence.
LEMMA AppendProperties ==
    ASSUME NEW S, NEW s \in Seq(S), NEW e \in S
    PROVE  /\ Append(s, e) \in Seq(S) /\ Len(Append(s, e)) = Len(s) + 1
           /\ \A i \in 1 .. Len(s) : Append(s, e)[i] = s[i]
           /\ Append(s, e)[Len(s) + 1] = e
  OBVIOUS

\* Dropping the first element of a sequence.
LEMMA HeadTailProperties ==
    ASSUME NEW S, NEW s \in Seq(S), s # <<>>
    PROVE  /\ Tail(s) \in Seq(S) /\ Len(Tail(s)) = Len(s) - 1
           /\ \A i \in 1 .. Len(Tail(s)) : Tail(s)[i] = s[i + 1]
  OBVIOUS

\* What remains after the element at n.
LEMMA Remainder ==
    ASSUME NEW S, NEW s \in Seq(S), NEW n \in 1 .. Len(s)
    PROVE  /\ SubSeq(s, n + 1, Len(s)) \in Seq(S)
           /\ \A i \in n + 1 .. Len(s) : s[i] \in Range(SubSeq(s, n + 1, Len(s)))
<1> DEFINE rest == SubSeq(s, n + 1, Len(s))
<1>1. /\ rest \in Seq(S) /\ Len(rest) = Len(s) - n
      /\ \A i \in 1 .. Len(s) - n : rest[i] = s[n + i]
  OBVIOUS
<1> HIDE DEF rest
<1>2. ASSUME NEW i \in n + 1 .. Len(s)  PROVE  s[i] \in Range(rest)
  <2>1. i - n \in DOMAIN rest /\ rest[i - n] = s[i]
    BY <1>1
  <2> QED  BY Zenon, <2>1 DEF Range
<1> QED  BY Zenon, <1>1, <1>2 DEF rest

\* An order of a set has all of its elements.
LEMMA AllElements ==
    ASSUME NEW S, Cardinality(S) \in Nat, NEW s \in Orders(S)
    PROVE  s \in Seq(S) /\ Range(s) = S /\ (s = <<>> => S = {})
<1>1. s \in [1 .. Cardinality(S) -> S] /\ \A x \in S : \E i \in 1 .. Cardinality(S) : s[i] = x
  BY Zenon DEF Orders, Surjection
<1>2. s \in Seq(S) /\ DOMAIN s = 1 .. Cardinality(S)
  BY <1>1
<1>3. Range(s) = S
  BY Zenon, <1>1, <1>2 DEF Range
<1>4. s = <<>> => S = {}
  BY <1>1, <1>2
<1> QED  BY Zenon, <1>2, <1>3, <1>4

----------------------------------------------------------------------------
(* Blobs, slices and blocks.                                               *)

\* All data of a key has the same size.
LEMMA Sizes ==
    \A k \in Key : /\ SizeBytes(k) \in Nat
                   /\ \A data \in Contents[k] :
                         /\ DOMAIN data = 1 .. SizeBytes(k)
                         /\ data = [i \in 1 .. SizeBytes(k) |-> data[i]]
<1> SUFFICES ASSUME NEW k \in Key
             PROVE  /\ SizeBytes(k) \in Nat
                    /\ \A data \in Contents[k] :
                          /\ DOMAIN data = 1 .. SizeBytes(k)
                          /\ data = [i \in 1 .. SizeBytes(k) |-> data[i]]
  BY Zenon
<1>1. \A data \in Contents[k] : data \in Seq(Range(data)) /\ Len(data) = SizeBytes(k)
  BY Zenon, FlatAssumption
<1>2. PICK d \in Contents[k] : TRUE
  BY Zenon, FlatAssumption
<1>3. SizeBytes(k) \in Nat
  BY <1>1, <1>2
<1>4. ASSUME NEW data \in Contents[k]
      PROVE  DOMAIN data = 1 .. SizeBytes(k) /\ data = [i \in 1 .. SizeBytes(k) |-> data[i]]
  BY <1>1
<1> QED  BY Zenon, <1>3, <1>4

\* Slices lie within their parents.
LEMMA SlicesLie ==
    \A k \in Key : \A i \in DOMAIN Slices[k] :
        /\ Slices[k][i].key \in Key /\ Slices[k][i].offset \in Nat
        /\ Slices[k][i].offset + SizeBytes(Slices[k][i].key) <= SizeBytes(k)
        /\ Slices[k][i].key \in SliceKeys
  BY FlatAssumption DEF SliceKeys

\* What the blocks do from one step to the next.
BlocksAdvance ==
    /\ BlocksInOrder'
    /\ released <= released' /\ toBeReleased <= toBeReleased' /\ oldEnd <= oldEnd'
    /\ Blobs!NextBlock <= Blobs!NextBlock'
    /\ \A block \in released' .. Blobs!NextBlock - 1 :
          used[block - released + 1] <= used'[block - released' + 1]

\* The number of bytes of a block that are allocated.
LEMMA Filled ==
    ASSUME BlocksInOrder, NEW block \in released .. Blobs!NextBlock - 1
    PROVE  /\ block - released + 1 \in 1 .. Len(used)
           /\ used[block - released + 1] \in 0 .. BlockSize
<1>1. used \in Seq(0 .. BlockSize) /\ Len(used) \in Nat /\ released \in Nat
  BY DEF BlocksInOrder
<1>2. block - released + 1 \in 1 .. Len(used)
  BY <1>1 DEF Blobs!NextBlock
<1> QED  BY <1>1, <1>2, ElementOfSeq, Zenon

\* Blocks are left alone.
LEMMA BlocksStay ==
    ASSUME BlocksInOrder, UNCHANGED blobMapVars
    PROVE  BlocksAdvance
<1>1. \A block \in released .. Blobs!NextBlock - 1 : used[block - released + 1] \in 0 .. BlockSize
  BY Zenon, Filled
<1> QED  BY <1>1 DEF BlocksInOrder, BlocksAdvance, Blobs!NextBlock, blobMapVars

\* Blocks up to a corrupted one are to be released.
LEMMA CorruptionFound ==
    ASSUME BlocksInOrder, NEW block \in Nat, Blobs!DataIntegrityError(block)
    PROVE  BlocksAdvance
<1>1. \A b \in released .. Blobs!NextBlock - 1 : used[b - released + 1] \in 0 .. BlockSize
  BY Zenon, Filled
<1> QED  BY <1>1 DEF BlocksInOrder, BlocksAdvance, Blobs!NextBlock, Blobs!DataIntegrityError, Blobs!Larger

\* PutStart() releases, creates and rotates blocks.
LEMMA BlocksMoveOn ==
    ASSUME BlocksInOrder, BlocksMove
    PROVE  BlocksAdvance
<1>a. BlockSize \in Nat /\ MaxBlocks \in Nat
  BY Zenon, FlatAssumption
<1>b. \A b \in released .. Blobs!NextBlock - 1 : used[b - released + 1] \in 0 .. BlockSize
  BY Zenon, Filled
<1>1. CASE Blobs!ReleaseCorrupted
  <2>1. used # <<>> /\ used \in Seq(0 .. BlockSize)
    BY <1>1 DEF Blobs!ReleaseCorrupted, BlocksInOrder, Blobs!NextBlock
  <2>2. /\ used' \in Seq(0 .. BlockSize) /\ Len(used') = Len(used) - 1
        /\ \A i \in 1 .. Len(used') : used'[i] = used[i + 1]
    BY Zenon, <1>1, <2>1, HeadTailProperties DEF Blobs!ReleaseCorrupted
  <2> QED  BY <1>1, <1>a, <1>b, <2>1, <2>2
           DEF BlocksInOrder, BlocksAdvance, Blobs!NextBlock, Blobs!ReleaseCorrupted, Blobs!Larger
<1>2. CASE Blobs!NextBlock < MaxBlocks /\ Blobs!PushBack
  <2>1. /\ used' \in Seq(0 .. BlockSize) /\ Len(used') = Len(used) + 1
        /\ \A i \in 1 .. Len(used) : used'[i] = used[i]
    BY <1>2, <1>a, AppendProperties DEF BlocksInOrder, Blobs!PushBack
  <2> QED  BY SMTT(30), <1>2, <1>a, <1>b, <2>1
           DEF BlocksInOrder, BlocksAdvance, Blobs!NextBlock, Blobs!PushBack
<1>3. CASE Blobs!NextBlock < MaxBlocks /\ Blobs!Rotate
  <2> DEFINE appended == Append(used, 0)
  <2>1. /\ appended \in Seq(0 .. BlockSize) /\ Len(appended) = Len(used) + 1
        /\ \A i \in 1 .. Len(used) : appended[i] = used[i]
    BY <1>a, AppendProperties DEF BlocksInOrder
  <2> HIDE DEF appended
  <2>2. CASE oldEnd' - released > DesiredOldBlocks
    <3>1. /\ released' = released + 1 /\ toBeReleased' = Blobs!Larger(toBeReleased, released')
          /\ used' = Tail(appended) /\ oldEnd' = oldEnd + 1 /\ oldEnd < Blobs!NextBlock
      BY Zenon, <1>3, <2>2 DEF Blobs!Rotate, appended
    <3>2. appended # <<>>
      BY <2>1 DEF BlocksInOrder
    <3>3. /\ used' \in Seq(0 .. BlockSize) /\ Len(used') = Len(appended) - 1
          /\ \A i \in 1 .. Len(used') : used'[i] = appended[i + 1]
      BY Zenon, <2>1, <3>1, <3>2, HeadTailProperties
    <3>4. BlocksInOrder'
      <4>1. /\ released \in Nat /\ toBeReleased \in Nat /\ oldEnd \in Nat /\ Len(used) \in Nat
            /\ released <= toBeReleased /\ toBeReleased <= released + Len(used)
            /\ released <= oldEnd /\ oldEnd < released + Len(used) /\ released + Len(used) < MaxBlocks
        BY <1>3, <3>1 DEF BlocksInOrder, Blobs!NextBlock
      <4>2. Len(used') = Len(used)
        BY <2>1, <3>3, <4>1
      <4>3. toBeReleased' \in Nat /\ released' <= toBeReleased' /\ toBeReleased' <= released' + Len(used')
        <5>1. toBeReleased' = toBeReleased \/ toBeReleased' = released + 1
          BY Zenon, <3>1 DEF Blobs!Larger
        <5>2. toBeReleased' >= toBeReleased /\ toBeReleased' >= released + 1
          BY <3>1, <4>1, <5>1 DEF Blobs!Larger
        <5>3. released' = released + 1
          BY Zenon, <3>1
        <5> QED  BY <4>1, <4>2, <5>1, <5>2, <5>3
      <4>4. released' = released + 1 /\ oldEnd' = oldEnd + 1 /\ used' \in Seq(0 .. BlockSize)
        BY Zenon, <3>1, <3>3
      <4> QED  BY <1>a, <4>1, <4>2, <4>3, <4>4 DEF BlocksInOrder, Blobs!NextBlock
    <3>5. ASSUME NEW b \in released' .. Blobs!NextBlock - 1
          PROVE  used[b - released + 1] <= used'[b - released' + 1]
      <4>1. b - released + 1 \in 2 .. Len(used) /\ b - released' + 1 = b - released
        BY <3>1 DEF BlocksInOrder, Blobs!NextBlock
      <4> DEFINE i == b - released
      <4>2. i \in 1 .. Len(used') /\ i + 1 \in 1 .. Len(used)
        BY <2>1, <3>3, <4>1 DEF BlocksInOrder
      <4>3. used[i + 1] \in 0 .. BlockSize
        BY <4>2, ElementOfSeq, Zenon DEF BlocksInOrder
      <4> HIDE DEF i
      <4>4. used'[i] = used[i + 1]
        BY Zenon, <2>1, <3>3, <4>2
      <4>5. used[i + 1] <= used'[i]
        BY <4>3, <4>4
      <4> QED  BY Zenon, <4>1, <4>5 DEF i
    <3>6. /\ released <= released' /\ toBeReleased <= toBeReleased' /\ oldEnd <= oldEnd'
          /\ Blobs!NextBlock <= Blobs!NextBlock'
      BY <2>1, <3>1, <3>3 DEF BlocksInOrder, Blobs!NextBlock, Blobs!Larger
    <3> QED  BY Zenon, <3>4, <3>5, <3>6 DEF BlocksAdvance
  <2>3. CASE ~(oldEnd' - released > DesiredOldBlocks)
    <3>1. /\ released' = released /\ toBeReleased' = toBeReleased
          /\ used' = appended /\ oldEnd' = oldEnd + 1 /\ oldEnd < Blobs!NextBlock
      BY Zenon, <1>3, <2>3 DEF Blobs!Rotate, appended
    <3>2. BlocksInOrder'
      BY SMTT(30), <1>3, <1>a, <2>1, <3>1 DEF BlocksInOrder, Blobs!NextBlock
    <3>3. /\ released <= released' /\ toBeReleased <= toBeReleased' /\ oldEnd <= oldEnd'
          /\ Blobs!NextBlock <= Blobs!NextBlock'
      BY <2>1, <3>1 DEF BlocksInOrder, Blobs!NextBlock
    <3>4. ASSUME NEW b \in released' .. Blobs!NextBlock - 1
          PROVE  used[b - released + 1] <= used'[b - released' + 1]
      <4>1. b - released + 1 \in 1 .. Len(used) /\ used[b - released + 1] \in 0 .. BlockSize
        BY Zenon, <3>1, Filled
      <4> QED  BY <2>1, <3>1, <4>1
    <3> QED  BY Zenon, <3>2, <3>3, <3>4 DEF BlocksAdvance
  <2> QED  BY Zenon, <2>2, <2>3
<1> QED  BY Zenon, <1>1, <1>2, <1>3 DEF BlocksMove

\* The same of a location after a step.
FitsNext(location, key) ==
    /\ location \in Location
    /\ location.block < Blobs!NextBlock'
    /\ location.offset + SizeBytes(key) <= BlockSize

TakenNext(location, key) ==
    /\ FitsNext(location, key)
    /\ location.block >= released' =>
          location.offset + SizeBytes(key) <= used'[location.block - released' + 1]

\* Locations remain valid, and space remains allocated.
LEMMA FitsLater ==
    ASSUME BlocksInOrder, BlocksAdvance, NEW location, NEW key, Fits(location, key)
    PROVE  FitsNext(location, key)
<1>1. Blobs!NextBlock \in Nat /\ Blobs!NextBlock' \in Nat /\ Blobs!NextBlock <= Blobs!NextBlock'
  BY SMTT(30) DEF BlocksInOrder, BlocksAdvance, Blobs!NextBlock
<1>2. location.block \in Nat
  BY DEF Fits, Location
<1> QED  BY <1>1, <1>2 DEF Fits, FitsNext

\* Space remains allocated until its block is released.
LEMMA TakenLater ==
    ASSUME BlocksInOrder, BlocksAdvance, NEW location, NEW key \in Key, Taken(location, key)
    PROVE  TakenNext(location, key)
<1>1. FitsNext(location, key)
  BY Zenon, FitsLater DEF Taken
<1> DEFINE end == location.offset + SizeBytes(key)
<1>2. location.block \in Nat /\ end \in Nat
  BY Sizes DEF Taken, Fits, Location
<1>3. /\ released \in Nat /\ released' \in Nat /\ released <= released'
      /\ Blobs!NextBlock \in Nat /\ location.block < Blobs!NextBlock
  BY DEF BlocksInOrder, BlocksAdvance, Blobs!NextBlock, Taken, Fits
<1>4. ASSUME location.block >= released'
      PROVE  end <= used'[location.block - released' + 1]
  <2>1. location.block \in released' .. Blobs!NextBlock - 1
    BY <1>2, <1>3, <1>4
  <2>2. location.block \in released .. Blobs!NextBlock - 1
    BY <1>2, <1>3, <1>4
  <2>3. location.block \in released' .. Blobs!NextBlock' - 1
    BY SMTT(30), <1>2, <1>3, <1>4 DEF BlocksAdvance, BlocksInOrder, Blobs!NextBlock
  <2>4. end <= used[location.block - released + 1]
    BY <2>2, <1>3, <1>2 DEF Taken
  <2>5. used[location.block - released + 1] <= used'[location.block - released' + 1]
    BY Zenon, <2>1 DEF BlocksAdvance
  <2>6. used[location.block - released + 1] \in 0 .. BlockSize
    BY Zenon, <2>2, Filled
  <2>7. used'[location.block - released' + 1] \in 0 .. BlockSize
    <3>1. used' \in Seq(0 .. BlockSize) /\ Len(used') \in Nat
      BY DEF BlocksAdvance, BlocksInOrder
    <3>2. location.block - released' + 1 \in 1 .. Len(used')
      BY SMTT(30), <1>2, <1>3, <2>3, <3>1 DEF Blobs!NextBlock
    <3> QED  BY <3>1, <3>2, ElementOfSeq, Zenon
  <2> HIDE DEF end
  <2> QED  BY <1>2, <2>4, <2>5, <2>6, <2>7, FlatAssumption
<1> QED  BY Zenon, <1>1, <1>4 DEF TakenNext

\* Space that is allocated was not taken before.
LEMMA Allocation ==
    ASSUME BlocksInOrder, NEW key \in Key, NEW block \in oldEnd .. Blobs!NextBlock - 1,
           Allocate(key, block), NEW location, location = Allocated(block)
    PROVE  /\ BlocksAdvance
           /\ toBeReleased' = toBeReleased /\ oldEnd' = oldEnd /\ Blobs!NextBlock' = Blobs!NextBlock
           /\ location \in Location /\ oldEnd <= location.block
           /\ TakenNext(location, key)
           /\ \A other, otherKey : otherKey \in Key /\ Taken(other, otherKey) =>
                 Apart(location, key, other, otherKey)
<1> DEFINE i == block - released + 1
           size == SizeBytes(key)
<1>1. /\ used[i] + size <= BlockSize /\ used' = [used EXCEPT ![i] = used[i] + size]
      /\ released' = released /\ toBeReleased' = toBeReleased /\ oldEnd' = oldEnd
  BY Zenon DEF Allocate, Blobs!Allocate, Blobs!BlockIndex
<1>2. location = [block |-> block, offset |-> used[i]]
  BY Zenon DEF Allocated, Blobs!BlockIndex
<1>3. /\ released \in Nat /\ oldEnd \in Nat /\ used \in Seq(0 .. BlockSize) /\ Len(used) \in Nat
      /\ released <= oldEnd /\ BlockSize \in Nat /\ MaxBlocks \in Nat
      /\ Blobs!NextBlock \in Nat /\ Blobs!NextBlock <= MaxBlocks
  BY FlatAssumption DEF BlocksInOrder, Blobs!NextBlock
<1>4. block \in released .. Blobs!NextBlock - 1 /\ block \in 0 .. MaxBlocks - 1
  BY <1>3
<1>5. i \in 1 .. Len(used) /\ used[i] \in 0 .. BlockSize
  BY Zenon, <1>4, Filled
<1>6. size \in Nat
  BY Zenon, Sizes
<1>7. location \in Location /\ oldEnd <= location.block
  BY <1>2, <1>4, <1>5 DEF Location
<1> HIDE DEF i, size
<1>8. used[i] + size \in 0 .. BlockSize
  BY SMTT(30), <1>1, <1>5, <1>6, <1>3
<1>9. used' \in Seq(0 .. BlockSize) /\ Len(used') = Len(used)
  BY <1>1, <1>3, <1>5, <1>8, ExceptSeq
<1>10. BlocksAdvance
  <2>1. BlocksInOrder'
    BY Zenon, <1>1, <1>9 DEF BlocksInOrder, Blobs!NextBlock
  <2>2. /\ released <= released' /\ toBeReleased <= toBeReleased' /\ oldEnd <= oldEnd'
        /\ Blobs!NextBlock <= Blobs!NextBlock'
    BY <1>1, <1>9 DEF BlocksInOrder, Blobs!NextBlock
  <2>3. ASSUME NEW b \in released' .. Blobs!NextBlock - 1
        PROVE  used[b - released + 1] <= used'[b - released' + 1]
    <3> DEFINE j == b - released + 1
    <3>1. j \in 1 .. Len(used) /\ used[j] \in 0 .. BlockSize
      BY Zenon, <1>1, Filled
    <3> HIDE DEF j
    <3>2. used[j] <= used'[j]
      BY SMTT(30), <1>1, <1>3, <1>5, <1>6, <3>1
    <3> QED  BY Zenon, <1>1, <3>2 DEF j
  <2> QED  BY Zenon, <2>1, <2>2, <2>3 DEF BlocksAdvance
<1>11. TakenNext(location, key)
  <2>1. used'[i] = used[i] + size
    BY <1>1, <1>3, <1>5
  <2>2. Blobs!NextBlock' = Blobs!NextBlock
    BY Zenon, <1>1, <1>9 DEF Blobs!NextBlock
  <2>3. location.block < Blobs!NextBlock' /\ location.offset + size <= BlockSize
    BY <1>1, <1>2, <1>3, <2>2
  <2>4. location.offset + size <= used'[location.block - released' + 1]
    BY <1>1, <1>2, <1>3, <1>5, <1>6, <2>1 DEF i
  <2> QED  BY Zenon, <1>7, <2>3, <2>4 DEF TakenNext, FitsNext, size
<1>12. ASSUME NEW other, NEW otherKey \in Key, Taken(other, otherKey), location.block = other.block
       PROVE  other.offset + SizeBytes(otherKey) <= location.offset
  <2>1. other.block - released + 1 = i /\ other.block >= released
    BY SMTT(30), <1>2, <1>3, <1>12 DEF i
  <2> QED  BY <1>2, <1>12, <2>1 DEF Taken
<1>13. toBeReleased' = toBeReleased /\ oldEnd' = oldEnd /\ Blobs!NextBlock' = Blobs!NextBlock
  BY Zenon, <1>1, <1>9 DEF Blobs!NextBlock
<1> QED  BY Zenon, <1>7, <1>10, <1>11, <1>12, <1>13 DEF Apart

\* The fields that an operation has at a given point.
LEMMA StateAt ==
    ASSUME NEW s \in ClientState
    PROVE  /\ s.at = "read" => s \in ReadState
           /\ s.at = "write" => s \in PutState
           /\ s.at = "retry" => s \in RetryState
           /\ s.at = "copy" => s \in CopyState \cup RefreshState
           /\ s.at = "finalize" => s \in PutState \cup CopyState \cup RefreshState
           /\ s.at = "wait" => s \in WaitState
           /\ s.at = "returned" => s \in ReturnedState
           /\ s.at = "lock" => s \in LockState
           /\ s.at \in {"slice", "sliced"} => s \in SliceState
  BY Zenon DEF ClientState, ReadState, PutState, RetryState, CopyState, WaitState, RefreshState,
         ReturnedState, LockState, SliceState

\* Where an operation writes to.
LEMMA TargetTyped ==
    ASSUME NEW s \in ClientState \cup {None}, HasTarget(s)
    PROVE  s.target \in Location /\ s.key \in Key
<1>1. s \in PutState \cup CopyState \cup RefreshState
  BY Zenon, StateAt DEF HasTarget
<1> QED  BY Zenon, <1>1 DEF PutState, CopyState, RefreshState

----------------------------------------------------------------------------
(* What the steps of clients have in common.                               *)

\* An entry of the map remains, or a client has just finalized it.
EntriesFrom(c) ==
    \A k \in WholeKeys' :
        \/ k \in WholeKeys /\ map'[k] = map[k]
        \/ Is(c, "finalize") /\ k = clients[c].key /\ map'[k] = clients[c].target

\* Space was allocated in this step.
Fresh(location, key) ==
    /\ TakenNext(location, key)
    /\ \A other, otherKey : otherKey \in Key /\ Taken(other, otherKey) =>
          Apart(location, key, other, otherKey)

\* A client has nothing to write to, the space it had before, or fresh space.
TargetFrom(c) ==
    \/ ~HasTarget(clients'[c])
    \/ /\ HasTarget(clients[c])
       /\ clients'[c].target = clients[c].target
       /\ clients'[c].key = clients[c].key
       /\ IsWriting(clients'[c]) => IsWriting(clients[c])
    \/ Fresh(clients'[c].target, clients'[c].key)

\* A step by which a client obtains space that was not allocated before.
LEMMA SpaceStep ==
    ASSUME FlatInv, BlocksAdvance, NEW c \in Client,
           clients' \in [Client -> ClientState \cup {None}],
           \A d \in Client \ {c} : clients'[d] = clients[d],
           EntriesFrom(c), TargetFrom(c)
    PROVE  SpaceTaken' /\ SpaceExclusive'
<1>1. BlocksInOrder /\ SpaceTaken /\ SpaceExclusive /\ clients \in [Client -> ClientState \cup {None}]
  BY Zenon DEF FlatInv, TypeOK
<1>2. \A k \in WholeKeys' : k \in Key
  BY Zenon DEF WholeKeys
<1>3. ASSUME NEW d \in Client, HasTarget(clients[d])
      PROVE  clients[d].target \in Location /\ clients[d].key \in Key /\ Taken(clients[d].target, clients[d].key)
  BY Zenon, <1>1, <1>3, TargetTyped DEF SpaceTaken
<1>4. ASSUME NEW d \in Client, HasTarget(clients'[d])
      PROVE  clients'[d].target \in Location /\ clients'[d].key \in Key
  BY Zenon, <1>4, TargetTyped
<1>5. \A d \in Client : /\ Is(d, "finalize") => HasTarget(clients[d]) /\ ~IsWriting(clients[d])
                        /\ IsWriting(clients[d]) => HasTarget(clients[d])
                        /\ IsWriting(clients'[d]) => HasTarget(clients'[d])
  BY Zenon DEF Is, HasTarget, IsWriting
<1>6. \A k \in WholeKeys : Taken(map[k], k)
  BY Zenon, <1>1 DEF SpaceTaken
<1>7. ASSUME NEW k \in WholeKeys'
      PROVE  Taken(map'[k], k)
  BY Zenon, <1>3, <1>5, <1>6 DEF EntriesFrom
<1>8. ASSUME NEW k \in WholeKeys'
      PROVE  Taken(map[k], k)'
  <2>1. TakenNext(map'[k], k)
    BY Zenon, <1>1, <1>2, <1>7, TakenLater
  <2> QED  BY Zenon, <2>1 DEF Taken, Fits, TakenNext, FitsNext
<1>9. ASSUME NEW d \in Client, HasTarget(clients'[d])
      PROVE  Taken(clients[d].target, clients[d].key)'
  <2> DEFINE location == clients'[d].target
             key == clients'[d].key
  <2>1. key \in Key
    BY Zenon, <1>4, <1>9
  <2>2. CASE d = c /\ Fresh(location, key)
    BY Zenon, <2>2 DEF Fresh, Taken, Fits, TakenNext, FitsNext
  <2>3. CASE ~(d = c /\ Fresh(location, key))
    <3>1. HasTarget(clients[d]) /\ location = clients[d].target /\ key = clients[d].key
      BY Zenon, <2>3, <1>9 DEF TargetFrom
    <3>2. Taken(location, key)
      BY Zenon, <1>3, <3>1
    <3>3. TakenNext(location, key)
      BY Zenon, <1>1, <2>1, <3>2, TakenLater
    <3> QED  BY Zenon, <3>3 DEF Taken, Fits, TakenNext, FitsNext
  <2> QED  BY Zenon, <2>2, <2>3
<1>10. SpaceTaken'
  BY Zenon, <1>8, <1>9 DEF SpaceTaken
<1>11. ASSUME NEW d \in Client, IsWriting(clients'[d]), NEW k \in WholeKeys'
       PROVE  Apart(clients'[d].target, clients'[d].key, map'[k], k)
  <2>1. CASE d = c /\ Fresh(clients'[c].target, clients'[c].key)
    BY Zenon, <2>1, <1>2, <1>7 DEF Fresh
  <2>2. CASE ~(d = c /\ Fresh(clients'[c].target, clients'[c].key))
    <3>1. /\ HasTarget(clients[d]) /\ IsWriting(clients[d])
          /\ clients'[d].target = clients[d].target /\ clients'[d].key = clients[d].key
      BY Zenon, <2>2, <1>5, <1>11 DEF TargetFrom
    <3>2. CASE k \in WholeKeys /\ map'[k] = map[k]
      BY Zenon, <3>1, <3>2, <1>1 DEF SpaceExclusive
    <3>3. CASE Is(c, "finalize") /\ k = clients[c].key /\ map'[k] = clients[c].target
      BY Zenon, <3>1, <3>3, <1>1, <1>5 DEF SpaceExclusive
    <3> QED  BY Zenon, <3>2, <3>3 DEF EntriesFrom
  <2> QED  BY Zenon, <2>1, <2>2
<1>12. ASSUME NEW d \in Client, IsWriting(clients'[d]), NEW e \in Client \ {d}, HasTarget(clients'[e])
       PROVE  Apart(clients'[d].target, clients'[d].key, clients'[e].target, clients'[e].key)
  <2>1. HasTarget(clients'[d])
    BY Zenon, <1>5, <1>12
  <2>2. CASE d = c /\ Fresh(clients'[c].target, clients'[c].key)
    <3>1. clients'[e] = clients[e]
      BY Zenon, <2>2
    <3>2. clients[e].key \in Key /\ Taken(clients[e].target, clients[e].key)
      BY Zenon, <1>3, <1>12, <3>1
    <3> QED  BY Zenon, <2>2, <3>1, <3>2 DEF Fresh
  <2>3. CASE e = c /\ Fresh(clients'[c].target, clients'[c].key)
    <3>1. clients'[d] = clients[d]
      BY Zenon, <2>3
    <3>2. /\ clients[d].key \in Key /\ clients[d].target \in Location
          /\ Taken(clients[d].target, clients[d].key)
      BY Zenon, <1>3, <2>1, <3>1
    <3>3. Apart(clients'[e].target, clients'[e].key, clients[d].target, clients[d].key)
      BY Zenon, <2>3, <3>2 DEF Fresh
    <3> QED  BY Zenon, <3>1, <3>3 DEF Apart
  <2>4. CASE ~(d = c /\ Fresh(clients'[c].target, clients'[c].key)) /\ ~(e = c /\ Fresh(clients'[c].target, clients'[c].key))
    <3>1. /\ IsWriting(clients[d])
          /\ clients'[d].target = clients[d].target /\ clients'[d].key = clients[d].key
      BY Zenon, <2>1, <2>4, <1>12 DEF TargetFrom
    <3>2. /\ HasTarget(clients[e])
          /\ clients'[e].target = clients[e].target /\ clients'[e].key = clients[e].key
      BY Zenon, <2>4, <1>12 DEF TargetFrom
    <3> QED  BY Zenon, <3>1, <3>2, <1>1 DEF SpaceExclusive
  <2> QED  BY Zenon, <2>2, <2>3, <2>4
<1>13. SpaceExclusive'
  BY Zenon, <1>11, <1>12 DEF SpaceExclusive, Apart
<1> QED  BY Zenon, <1>10, <1>13

\* A step that does not write any data.
LEMMA DataStep ==
    ASSUME FlatInv, UNCHANGED cells, NEW c \in Client,
           clients' \in [Client -> ClientState \cup {None}],
           \A d \in Client \ {c} : clients'[d] = clients[d],
           EntriesFrom(c),
           clients'[c] # None => clients'[c].at # "finalize",
           clients'[c] # None /\ clients'[c].at = "write" =>
               clients'[c].data \in Contents[clients'[c].key]
    PROVE  EntriesComplete' /\ CopiesComplete' /\ UploadsComplete'
<1>1. EntriesComplete /\ CopiesComplete /\ UploadsComplete
  BY Zenon DEF FlatInv
<1>2. EntriesComplete'
  BY Zenon, <1>1 DEF EntriesFrom, EntriesComplete, CopiesComplete, DataAt
<1>3. CopiesComplete'
  BY Zenon, <1>1 DEF CopiesComplete, Is, DataAt
<1>4. UploadsComplete'
  BY Zenon, <1>1 DEF UploadsComplete, Is
<1> QED  BY Zenon, <1>2, <1>3, <1>4

\* The data at a location after a step.
DataNext(location, key) ==
    [i \in 1 .. SizeBytes(key) |-> cells'[location.block][location.offset + i - 1]]

\* What is written can be read back.
LEMMA Written ==
    ASSUME DOMAIN cells = 0 .. MaxBlocks - 1,
           NEW target, NEW key \in Key, Fits(target, key),
           NEW data \in Contents[key], WriteCells(target, data)
    PROVE  DataNext(target, key) = data
<1>1. /\ target.block \in 0 .. MaxBlocks - 1 /\ target.offset \in 0 .. BlockSize
      /\ target.offset + SizeBytes(key) <= BlockSize
  BY Zenon DEF Fits, Location
<1>2. /\ SizeBytes(key) \in Nat /\ DOMAIN data = 1 .. SizeBytes(key)
      /\ data = [i \in 1 .. SizeBytes(key) |-> data[i]]
  BY Zenon, Sizes
<1>3. BlockSize \in Nat
  BY Zenon, FlatAssumption
<1>4. \A o \in 0 .. BlockSize - 1 :
          o - target.offset + 1 \in DOMAIN data =>
              cells'[target.block][o] = data[o - target.offset + 1]
  BY Zenon, <1>1 DEF WriteCells
<1>5. ASSUME NEW i \in 1 .. SizeBytes(key)
      PROVE  cells'[target.block][target.offset + i - 1] = data[i]
  <2> DEFINE o == target.offset + i - 1
  <2>1. o \in 0 .. BlockSize - 1 /\ o - target.offset + 1 = i
    BY SMTT(30), <1>1, <1>2, <1>3
  <2> HIDE DEF o
  <2>2. cells'[target.block][o] = data[i]
    BY Zenon, <1>2, <1>4, <2>1
  <2> QED  BY Zenon, <2>2 DEF o
<1> QED  BY Zenon, <1>2, <1>5 DEF DataNext

\* Data elsewhere is not affected by what is written.
LEMMA NotOverwritten ==
    ASSUME DOMAIN cells = 0 .. MaxBlocks - 1,
           NEW target, NEW key \in Key, Fits(target, key),
           NEW data \in Contents[key], WriteCells(target, data),
           NEW other, NEW otherKey \in Key, Fits(other, otherKey),
           Apart(target, key, other, otherKey)
    PROVE  DataNext(other, otherKey) = DataAt(other, otherKey)
<1>1. /\ target.block \in 0 .. MaxBlocks - 1 /\ target.offset \in 0 .. BlockSize
      /\ target.offset + SizeBytes(key) <= BlockSize
      /\ other.block \in 0 .. MaxBlocks - 1 /\ other.offset \in 0 .. BlockSize
      /\ other.offset + SizeBytes(otherKey) <= BlockSize
  BY Zenon DEF Fits, Location
<1>2. SizeBytes(key) \in Nat /\ DOMAIN data = 1 .. SizeBytes(key) /\ SizeBytes(otherKey) \in Nat
  BY Zenon, Sizes
<1>3. BlockSize \in Nat
  BY Zenon, FlatAssumption
<1>4. /\ other.block # target.block => cells'[other.block] = cells[other.block]
      /\ \A o \in 0 .. BlockSize - 1 :
            o - target.offset + 1 \notin DOMAIN data =>
                cells'[target.block][o] = cells[target.block][o]
  BY Zenon, <1>1 DEF WriteCells
<1>5. ASSUME NEW i \in 1 .. SizeBytes(otherKey)
      PROVE  cells'[other.block][other.offset + i - 1] = cells[other.block][other.offset + i - 1]
  <2> DEFINE o == other.offset + i - 1
  <2>1. o \in 0 .. BlockSize - 1
    BY SMTT(30), <1>1, <1>2, <1>3
  <2>2. other.block = target.block => o - target.offset + 1 \notin DOMAIN data
    BY SMTT(30), <1>1, <1>2, <1>3 DEF Apart
  <2> HIDE DEF o
  <2>3. cells'[other.block][o] = cells[other.block][o]
    BY <1>4, <2>1, <2>2
  <2> QED  BY Zenon, <2>3 DEF o
<1> QED  BY Zenon, <1>5 DEF DataNext, DataAt

\* A step by which a client writes to the space that it has allocated.
LEMMA WriteStep ==
    ASSUME FlatInv, UNCHANGED map, NEW c \in Client, IsWriting(clients[c]),
           NEW data \in Contents[clients[c].key], WriteCells(clients[c].target, data),
           clients' \in [Client -> ClientState \cup {None}],
           \A d \in Client \ {c} : clients'[d] = clients[d],
           clients'[c].at = "finalize",
           clients'[c].key = clients[c].key, clients'[c].target = clients[c].target
    PROVE  /\ EntriesComplete' /\ CopiesComplete' /\ UploadsComplete'
           /\ DOMAIN cells' = 0 .. MaxBlocks - 1
<1>1. /\ EntriesComplete /\ CopiesComplete /\ UploadsComplete /\ SpaceTaken /\ SpaceExclusive
      /\ DOMAIN cells = 0 .. MaxBlocks - 1 /\ clients \in [Client -> ClientState \cup {None}]
  BY Zenon DEF FlatInv, TypeOK
<1> DEFINE target == clients[c].target
           key == clients[c].key
<1>2. HasTarget(clients[c])
  BY Zenon DEF HasTarget, IsWriting
<1>3. key \in Key /\ Fits(target, key)
  BY Zenon, <1>1, <1>2, TargetTyped DEF SpaceTaken, Taken
<1>4. ASSUME NEW k \in WholeKeys  PROVE  DataNext(map[k], k) \in Contents[k]
  <2>1. k \in Key /\ Fits(map[k], k) /\ Apart(target, key, map[k], k)
    BY Zenon, <1>1 DEF SpaceTaken, SpaceExclusive, Taken, WholeKeys
  <2>2. DataNext(map[k], k) = DataAt(map[k], k)
    BY SMTT(30), <1>1, <1>3, <2>1, NotOverwritten
  <2> QED  BY Zenon, <1>1, <2>2 DEF EntriesComplete
<1>5. EntriesComplete'
  BY Zenon, <1>4 DEF EntriesComplete, WholeKeys, DataAt, DataNext
<1>6. DataNext(target, key) = data
  BY Zenon, <1>1, <1>3, Written
<1>7. ASSUME NEW d \in Client \ {c}, Is(d, "finalize")
      PROVE  DataNext(clients[d].target, clients[d].key) \in Contents[clients[d].key]
  <2>1. HasTarget(clients[d])
    BY Zenon, <1>7 DEF Is, HasTarget
  <2>2. /\ clients[d].key \in Key /\ Fits(clients[d].target, clients[d].key)
        /\ Apart(target, key, clients[d].target, clients[d].key)
    BY ZenonT(30), <1>1, <2>1, TargetTyped DEF SpaceTaken, SpaceExclusive, Taken
  <2>3. DataNext(clients[d].target, clients[d].key) = DataAt(clients[d].target, clients[d].key)
    BY SMTT(30), <1>1, <1>3, <2>2, NotOverwritten
  <2> QED  BY Zenon, <1>1, <1>7, <2>3 DEF CopiesComplete
<1>8. CopiesComplete'
  <2> SUFFICES ASSUME NEW d \in Client, Is(d, "finalize")'
               PROVE  DataNext(clients'[d].target, clients'[d].key) \in Contents[clients'[d].key]
    BY Zenon DEF CopiesComplete, DataAt, DataNext
  <2>1. CASE d = c
    BY Zenon, <2>1, <1>6
  <2>2. CASE d # c
    BY Zenon, <2>2, <1>7 DEF Is
  <2> QED  BY Zenon, <2>1, <2>2
<1>9. UploadsComplete'
  BY Zenon, <1>1 DEF UploadsComplete, Is
<1>10. DOMAIN cells' = 0 .. MaxBlocks - 1
  BY Zenon, <1>1 DEF WriteCells
<1> QED  BY Zenon, <1>5, <1>8, <1>9, <1>10

\* Keys that are found after a step, in a block that is recent enough.
PresentNext(start) ==
    {k \in Key : /\ map'[k] # None
                 /\ toBeReleased' <= map'[k].block /\ map'[k].block < Blobs!NextBlock'
                 /\ map'[k].block >= start}

\* What FindMissing() relies on holds of the state that a client is in next.
FoundSoFar(c) ==
    IsFinding(clients'[c]) =>
        /\ clients'[c].start <= oldEnd'
        /\ clients'[c].keys \ Remaining(clients'[c]) \subseteq seen[c] \cup PresentNext(clients'[c].start)
        /\ HasTarget(clients'[c]) => clients'[c].start <= clients'[c].target.block

\* Where the blocks started that were not old when FindMissing() was called.
LEMMA FindingTyped ==
    ASSUME NEW s \in ClientState \cup {None}, IsFinding(s)
    PROVE  s.start \in Nat
  BY Zenon DEF IsFinding, ClientState, ReadState, PutState, RetryState, CopyState, WaitState,
     RefreshState,
         ReturnedState, LockState, SliceState

\* What FindMissing() has seen only grows.
LEMMA SeenNext ==
    ASSUME RecordSeen, NEW c \in Client
    PROVE  /\ DOMAIN seen' = Client
           /\ IsFinding(clients'[c]) => seen[c] \cup PresentNext(clients'[c].start) \subseteq seen'[c]
<1>1. ASSUME NEW k \in Key, k \in PresentNext(clients'[c].start)
      PROVE  k \in PresentSince(clients[c].start)'
  BY Zenon, <1>1 DEF PresentNext, PresentSince, IsMissing, Lookup, Blobs!Resolvable
<1>2. PresentNext(clients'[c].start) \subseteq PresentSince(clients[c].start)'
  BY Zenon, <1>1 DEF PresentNext
<1>3. DOMAIN seen' = Client
  BY Zenon DEF RecordSeen
<1>4. IsFinding(clients'[c]) => seen'[c] = seen[c] \cup PresentSince(clients[c].start)'
  BY Zenon DEF RecordSeen, IsFinding
<1> QED  BY Zenon, <1>2, <1>3, <1>4

\* A step by which a call of FindMissing() makes progress.
LEMMA FindingStep ==
    ASSUME FlatInv, BlocksAdvance, RecordSeen, NEW c \in Client,
           clients' \in [Client -> ClientState \cup {None}],
           \A d \in Client \ {c} : clients'[d] = clients[d],
           FoundSoFar(c)
    PROVE  FindingsSeen' /\ DOMAIN seen' = Client
<1>1. FindingsSeen /\ oldEnd \in Nat /\ oldEnd' \in Nat /\ oldEnd <= oldEnd'
  BY Zenon DEF FlatInv, BlocksInOrder, BlocksAdvance
<1>2. ASSUME NEW d \in Client, IsFinding(clients'[d])
      PROVE  /\ clients'[d].start <= oldEnd'
             /\ clients'[d].keys \ Remaining(clients'[d]) \subseteq seen'[d]
             /\ HasTarget(clients'[d]) => clients'[d].start <= clients'[d].target.block
  <2>1. seen[d] \cup PresentNext(clients'[d].start) \subseteq seen'[d]
    BY Zenon, <1>2, SeenNext
  <2>2. CASE d = c
    BY Zenon, <1>2, <2>1, <2>2 DEF FoundSoFar
  <2>3. CASE d # c
    <3>1. clients'[d] = clients[d]
      BY Zenon, <2>3
    <3>2. clients'[d].start \in Nat
      BY Zenon, <1>2, FindingTyped
    <3>3. /\ clients[d].start <= oldEnd
          /\ clients[d].keys \ Remaining(clients[d]) \subseteq seen[d]
          /\ HasTarget(clients[d]) => clients[d].start <= clients[d].target.block
      BY Zenon, <1>1, <1>2, <3>1 DEF FindingsSeen
    <3> QED  BY <1>1, <2>1, <3>1, <3>2, <3>3
  <2> QED  BY Zenon, <2>2, <2>3
<1>3. FindingsSeen'
  BY Zenon, <1>2 DEF FindingsSeen, Remaining
<1> QED  BY Zenon, <1>3, SeenNext

\* The lock is held by a client that is running an operation.
LockStep(c) ==
    /\ refreshLock' \in {refreshLock, None, c}
    /\ refreshLock' = c => clients'[c] # None

\* A step of a single client, as far as types are concerned.
LEMMA TypeStep ==
    ASSUME FlatInv, BlocksAdvance, NEW c \in Client,
           clients' \in [Client -> ClientState \cup {None}],
           \A d \in Client \ {c} : clients'[d] = clients[d],
           map' \in [Key -> Location \cup {None}],
           LockStep(c)
    PROVE  BlocksInOrder' /\ TypeOK'
<1>1. BlocksInOrder' /\ TypeOK
  BY Zenon DEF FlatInv, BlocksAdvance
<1>2. /\ 0 <= released' /\ released' <= toBeReleased' /\ toBeReleased' <= Blobs!NextBlock'
      /\ released' <= oldEnd' /\ oldEnd' <= Blobs!NextBlock'
  BY <1>1 DEF BlocksInOrder
<1>4. \A i \in DOMAIN used' : used'[i] \in 0 .. BlockSize
  <2> DEFINE Space == 0 .. BlockSize
  <2> HIDE DEF Space
  <2>2. \A i \in DOMAIN used' : used'[i] \in Space
    <3>1. used' \in Seq(Space)
      BY Zenon, <1>1 DEF BlocksInOrder, Space
    <3> QED  BY <3>1
  <2> QED  BY Zenon, <2>2 DEF Space
<1>3. refreshLock' \in Client \cup {None} /\ (refreshLock' # None => clients'[refreshLock'] # None)
  BY Zenon, <1>1 DEF LockStep, TypeOK
<1> QED  BY Zenon, <1>1, <1>2, <1>3, <1>4 DEF TypeOK

\* Parents of slices that a client reads next.
ParentFrom(c) ==
    IsSlicing(clients'[c]) => FitsNext(clients'[c].source, clients'[c].key)

EntriesFitNext == \A k \in Key : map'[k] # None => FitsNext(map'[k], k)

\* A step by which a client obtains a parent that is to be sliced.
LEMMA ParentStep ==
    ASSUME FlatInv, BlocksAdvance, NEW c \in Client,
           \A d \in Client \ {c} : clients'[d] = clients[d],
           ParentFrom(c), EntriesFitNext
    PROVE  ParentsFit' /\ EntriesFit'
<1>1. BlocksInOrder /\ ParentsFit
  BY Zenon DEF FlatInv
<1>2. ASSUME NEW d \in Client, IsSlicing(clients'[d])
      PROVE  FitsNext(clients'[d].source, clients'[d].key)
  <2>1. CASE d = c
    BY Zenon, <1>2, <2>1 DEF ParentFrom
  <2>2. CASE d # c
    <3>1. clients'[d] = clients[d] /\ Fits(clients[d].source, clients[d].key)
      BY Zenon, <1>1, <1>2, <2>2 DEF ParentsFit
    <3>2. FitsNext(clients[d].source, clients[d].key)
      BY Zenon, <1>1, <3>1, FitsLater
    <3> QED  BY Zenon, <3>1, <3>2
  <2> QED  BY Zenon, <2>1, <2>2
<1>3. ParentsFit'
  BY Zenon, <1>2 DEF ParentsFit, Fits, FitsNext
<1>4. EntriesFit'
  BY Zenon DEF EntriesFitNext, EntriesFit, Fits, FitsNext
<1> QED  BY Zenon, <1>3, <1>4

\* The map is left alone.
LEMMA EntriesStay ==
    ASSUME FlatInv, BlocksAdvance, UNCHANGED map, NEW c \in Client
    PROVE  /\ map' \in [Key -> Location \cup {None}]
           /\ EntriesFitNext /\ EntriesFrom(c)
<1>1. BlocksInOrder /\ EntriesFit /\ TypeOK
  BY Zenon DEF FlatInv
<1>2. EntriesFitNext
  BY Zenon, <1>1, FitsLater DEF EntriesFit, EntriesFitNext
<1> QED  BY Zenon, <1>1, <1>2 DEF EntriesFrom, WholeKeys, TypeOK

\* A step of a client that does not write any data.
LEMMA ClientStep ==
    ASSUME FlatInv, BlocksAdvance, RecordSeen, NEW c \in Client,
           NEW after \in ClientState \cup {None},
           clients' = [clients EXCEPT ![c] = after],
           UNCHANGED cells, completed' \subseteq Data,
           map' \in [Key -> Location \cup {None}], EntriesFitNext, EntriesFrom(c),
           TargetFrom(c), FoundSoFar(c), LockStep(c), ParentFrom(c),
           after # None => after.at # "finalize",
           after # None /\ after.at = "write" => after.data \in Contents[after.key]
    PROVE  FlatInv'
<1>1. clients \in [Client -> ClientState \cup {None}] /\ DOMAIN cells = 0 .. MaxBlocks - 1
  BY Zenon DEF FlatInv, TypeOK
<1>2. /\ clients' \in [Client -> ClientState \cup {None}] /\ clients'[c] = after
      /\ \A d \in Client \ {c} : clients'[d] = clients[d]
  BY Zenon, <1>1
<1>3. SpaceTaken' /\ SpaceExclusive'
  BY ZenonT(30), <1>2, SpaceStep
<1>4. EntriesComplete' /\ CopiesComplete' /\ UploadsComplete'
  BY Zenon, <1>2, DataStep
<1>5. FindingsSeen' /\ DOMAIN seen' = Client
  BY Zenon, <1>2, FindingStep
<1>6. BlocksInOrder' /\ TypeOK'
  BY Zenon, <1>2, TypeStep
<1>7. ParentsFit' /\ EntriesFit'
  BY Zenon, <1>2, ParentStep
<1>8. DOMAIN cells' = 0 .. MaxBlocks - 1
  BY Zenon, <1>1
<1> QED  BY Zenon, <1>3, <1>4, <1>5, <1>6, <1>7, <1>8 DEF FlatInv

----------------------------------------------------------------------------
(* The steps that operations have in common.                               *)

\* None differs from everything else.
LEMMA NoStates ==
    /\ None \notin ClientState /\ None \notin Location /\ None \notin Client
    /\ ~HasTarget(None) /\ ~IsFinding(None) /\ ~IsSlicing(None)
  BY Zenon, FlatAssumption DEF HasTarget, IsFinding, IsSlicing

\* An operation returns, possibly having stored a blob.
LEMMA Returning ==
    ASSUME FlatInv, BlocksAdvance, RecordSeen, NEW c \in Client, Return(c),
           UNCHANGED cells, completed' \subseteq Data,
           map' \in [Key -> Location \cup {None}], EntriesFitNext, EntriesFrom(c)
    PROVE  FlatInv'
<1>1. clients' = [clients EXCEPT ![c] = None]
  BY Zenon DEF Return, Continue
<1>2. clients'[c] = None
  BY Zenon, <1>1 DEF FlatInv, TypeOK
<1>3. LockStep(c)
  BY Zenon, NoStates DEF LockStep, Return, Unlock
<1>4. TargetFrom(c) /\ FoundSoFar(c) /\ ParentFrom(c)
  BY Zenon, <1>2, NoStates DEF TargetFrom, FoundSoFar, ParentFrom
<1> QED  BY Zenon, <1>1, <1>3, <1>4, ClientStep

\* An operation goes on without allocating space, slicing or searching.
LEMMA Proceeding ==
    ASSUME FlatInv, UNCHANGED blobMapVars, RecordSeen, NEW c \in Client,
           NEW after \in ReadState \cup RetryState \cup LockState,
           clients' = [clients EXCEPT ![c] = after],
           UNCHANGED <<cells, completed, map, refreshLock>>
    PROVE  FlatInv'
<1>1. BlocksAdvance
  BY Zenon, BlocksStay DEF FlatInv
<1>2. /\ after \in ClientState /\ after.at \notin {"write", "copy", "finalize", "slice", "sliced"}
      /\ after.op # "find"
  BY Zenon DEF ClientState, ReadState, RetryState, LockState
<1>3. clients'[c] = after /\ completed' \subseteq Data
  BY Zenon DEF FlatInv, TypeOK
<1>4. TargetFrom(c) /\ FoundSoFar(c) /\ ParentFrom(c)
  BY Zenon, <1>2, <1>3 DEF TargetFrom, FoundSoFar, ParentFrom, HasTarget, IsFinding, IsSlicing
<1>5. LockStep(c)
  BY Zenon, <1>2, <1>3, NoStates DEF LockStep
<1>6. map' \in [Key -> Location \cup {None}] /\ EntriesFitNext /\ EntriesFrom(c)
  BY Zenon, <1>1, EntriesStay
<1> QED  BY ZenonT(30), <1>1, <1>2, <1>3, <1>4, <1>5, <1>6, ClientStep

\* What a lookup finds.
LEMMA Found ==
    ASSUME FlatInv, NEW key \in Key, Lookup(map, key) # None
    PROVE  /\ Lookup(map, key) = map[key] /\ map[key] # None /\ map[key] \in Location
           /\ Blobs!Resolvable(map[key].block) /\ Fits(map[key], key)
  BY Zenon DEF FlatInv, TypeOK, Lookup, EntriesFit

\* A state with space for a copy to be filled in.
ToCopy(c, key, state) ==
    \A location \in Location : \A after :
        after = [state EXCEPT !.target = location] =>
            /\ after \in CopyState \cup RefreshState
            /\ after.at = "copy" /\ after.key = key /\ after.target = location
            /\ after.op = "find" =>
                  /\ after.start <= oldEnd
                  /\ after.keys \ Remaining(after) \subseteq seen[c] \cup PresentNext(after.start)

\* Space is allocated for a copy of an old blob.
LEMMA CopyStarts ==
    ASSUME FlatInv, RecordSeen, NEW c \in Client, NEW key \in Key, NEW state,
           AllocateCopy(c, key, state), ToCopy(c, key, state),
           UNCHANGED <<cells, completed>>,
           map' \in [Key -> Location \cup {None}],
           BlocksAdvance => EntriesFitNext /\ EntriesFrom(c)
    PROVE  FlatInv'
<1>1. completed' \subseteq Data /\ BlocksInOrder /\ clients \in [Client -> ClientState \cup {None}]
  BY Zenon DEF FlatInv, TypeOK
<1>2. CASE AllocationFails(c)
  <2>1. BlocksAdvance
    BY Zenon, <1>1, <1>2, BlocksStay DEF AllocationFails
  <2> QED  BY Zenon, <1>1, <1>2, <2>1, Returning DEF AllocationFails
<1>3. ASSUME NEW block \in oldEnd .. Blobs!NextBlock - 1, Allocate(key, block),
             Continue(c, [state EXCEPT !.target = Allocated(block)]),
             refreshLock' = IF clients[c].op = "get" THEN refreshLock ELSE c
      PROVE  FlatInv'
  <2> DEFINE location == Allocated(block)
             after == [state EXCEPT !.target = location]
  <2>1. /\ BlocksAdvance /\ oldEnd' = oldEnd
        /\ location \in Location /\ oldEnd <= location.block
        /\ TakenNext(location, key)
        /\ \A other, otherKey : otherKey \in Key /\ Taken(other, otherKey) =>
              Apart(location, key, other, otherKey)
    BY Zenon, <1>1, <1>3, Allocation
  <2>2. /\ after \in CopyState \cup RefreshState
        /\ after.at = "copy" /\ after.key = key /\ after.target = location
        /\ after.op = "find" =>
              /\ after.start <= oldEnd
              /\ after.keys \ Remaining(after) \subseteq seen[c] \cup PresentNext(after.start)
    BY <2>1, Zenon DEF ToCopy
  <2>3. clients' = [clients EXCEPT ![c] = after]
    BY Zenon, <1>3 DEF Continue
  <2> HIDE DEF after, location
  <2>4. clients'[c] = after /\ after \in ClientState /\ after # None
    BY Zenon, <1>1, <2>2, <2>3, NoStates DEF ClientState
  <2>5. TargetFrom(c)
    BY Zenon, <2>1, <2>2, <2>4 DEF TargetFrom, Fresh
  <2>6. oldEnd \in Nat /\ location.block \in Nat
    BY SMTT(30), <1>1, <2>1 DEF BlocksInOrder, Location
  <2>7. after.op = "find" => after.start \in Nat
    BY Zenon, <2>4, FindingTyped DEF IsFinding
  <2>8. FoundSoFar(c)
    <3>1. after.op = "find" => after.start <= oldEnd' /\ after.start <= location.block
      BY <2>1, <2>2, <2>6, <2>7
    <3> QED  BY ZenonT(30), <2>2, <2>4, <3>1 DEF FoundSoFar, IsFinding
  <2>9. LockStep(c) /\ ParentFrom(c)
    BY Zenon, <1>3, <2>2, <2>4 DEF LockStep, ParentFrom, IsSlicing
  <2> QED  BY ZenonT(30), <1>1, <2>1, <2>2, <2>3, <2>4, <2>5, <2>8, <2>9, ClientStep
<1> QED  BY Zenon, <1>2, <1>3 DEF AllocateCopy

\* What Map!Stored() leaves behind.
LEMMA Stores ==
    ASSUME FlatInv, NEW c \in Client, Is(c, "finalize"),
           NEW m, m = Map!Stored(map, clients[c].key, clients[c].target)
    PROVE  /\ m \in [Key -> Location \cup {None}]
           /\ \A k \in Key : m[k] # None => Fits(m[k], k)
           /\ \A k \in Key : m[k] = map[k] \/ (k = clients[c].key /\ m[k] = clients[c].target)
           /\ m[clients[c].key] # None
           /\ clients[c].target.block <= m[clients[c].key].block
<1> DEFINE key == clients[c].key
           target == clients[c].target
<1>1. /\ EntriesFit /\ SpaceTaken /\ map \in [Key -> Location \cup {None}]
      /\ clients \in [Client -> ClientState \cup {None}]
  BY Zenon DEF FlatInv, TypeOK
<1>2. HasTarget(clients[c])
  BY Zenon DEF Is, HasTarget
<1>3. target \in Location /\ key \in Key /\ Fits(target, key) /\ target.block \in Nat
  BY <1>1, <1>2, TargetTyped DEF SpaceTaken, Taken, Location
<1>4. m = [map EXCEPT ![key] = IF map[key] = None \/ Map!IsOlder(map[key], target)
                               THEN target ELSE map[key]]
  BY Zenon DEF Map!Stored
<1> HIDE DEF key, target
<1>5. /\ \A k \in Key \ {key} : m[k] = map[k]
      /\ \/ m[key] = target
         \/ m[key] = map[key] /\ map[key] # None /\ ~Map!IsOlder(map[key], target)
  BY Zenon, <1>1, <1>3, <1>4
<1>6. m \in [Key -> Location \cup {None}]
  BY Zenon, <1>1, <1>3, <1>4
<1>7. \A k \in Key : m[k] # None => Fits(m[k], k)
  BY Zenon, <1>1, <1>3, <1>5 DEF EntriesFit
<1>8. m[key] # None /\ target.block <= m[key].block
  <2>1. CASE m[key] = target
    BY SMTT(30), <1>3, <2>1, NoStates
  <2>2. CASE m[key] = map[key] /\ map[key] # None /\ ~Map!IsOlder(map[key], target)
    <3>1. map[key].block \in Nat
      BY SMTT(30), <1>1, <1>3, <2>2 DEF Location
    <3> QED  BY SMTT(30), <1>3, <2>2, <3>1 DEF Map!IsOlder
  <2> QED  BY Zenon, <1>5, <2>1, <2>2
<1> QED  BY Zenon, <1>5, <1>6, <1>7, <1>8 DEF key, target

\* A blob whose data has been written is stored in the map.
LEMMA Finalizing ==
    ASSUME FlatInv, BlocksAdvance, NEW c \in Client, Is(c, "finalize"),
           map' = Map!Stored(map, clients[c].key, clients[c].target)
    PROVE  map' \in [Key -> Location \cup {None}] /\ EntriesFitNext /\ EntriesFrom(c)
<1>1. /\ map' \in [Key -> Location \cup {None}]
      /\ \A k \in Key : map'[k] # None => Fits(map'[k], k)
      /\ \A k \in Key : map'[k] = map[k] \/ (k = clients[c].key /\ map'[k] = clients[c].target)
  BY SMTT(30), Stores
<1>2. EntriesFitNext
  BY Zenon, <1>1, FitsLater DEF EntriesFitNext, FlatInv
<1>3. EntriesFrom(c)
  BY Zenon, <1>1 DEF EntriesFrom, WholeKeys
<1> QED  BY Zenon, <1>1, <1>2, <1>3

----------------------------------------------------------------------------
(* The operations.                                                         *)

\* Where an operation reads from.
LEMMA SourceTyped ==
    ASSUME NEW s \in ClientState, s.at \in {"read", "copy", "slice", "sliced"}
    PROVE  s.source \in Location /\ s.source.block \in Nat /\ s.key \in Key
<1>1. s \in ReadState \cup CopyState \cup RefreshState \cup SliceState
  BY Zenon, StateAt
<1> QED  BY <1>1 DEF ReadState, CopyState, RefreshState, SliceState, Location

\* A client that has come to a given point.
LEMMA Typed ==
    ASSUME FlatInv, NEW c \in Client, NEW at, Is(c, at)
    PROVE  clients[c] \in ClientState /\ clients[c].at = at
  BY Zenon DEF FlatInv, TypeOK, Is

\* An operation fails or ends without storing anything.
LEMMA Ending ==
    ASSUME FlatInv, BlocksAdvance, RecordSeen, NEW c \in Client, Return(c),
           UNCHANGED <<map, cells, completed>>
    PROVE  FlatInv'
<1>1. map' \in [Key -> Location \cup {None}] /\ EntriesFitNext /\ EntriesFrom(c)
  BY Zenon, EntriesStay
<1>2. completed' \subseteq Data
  BY Zenon DEF FlatInv
<1> QED  BY Zenon, <1>1, <1>2, Returning

\* Operations that end without storing anything.
LEMMA Fails ==
    ASSUME FlatInv, RecordSeen, NEW c \in Client,
           \/ Read(c)
           \/ CopyFails(c)
           \/ WriteFails(c)
           \/ FindMissingReturns(c)
    PROVE  FlatInv'
<1>1. BlocksInOrder
  BY Zenon DEF FlatInv
<1>2. ASSUME Is(c, "read") \/ Is(c, "copy"),
             \/ UNCHANGED blobMapVars
             \/ Blobs!DataIntegrityError(clients[c].source.block)
      PROVE  BlocksAdvance
  <2>1. clients[c].source.block \in Nat
    BY Zenon, <1>2, Typed, SourceTyped
  <2> QED  BY Zenon, <1>1, <1>2, <2>1, BlocksStay, CorruptionFound
<1>3. CASE Read(c)
  <2>1. BlocksAdvance
    BY Zenon, <1>2, <1>3 DEF Read
  <2> QED  BY Zenon, <1>3, <2>1, Ending DEF Read, history
<1>4. CASE CopyFails(c)
  <2>1. BlocksAdvance
    BY Zenon, <1>2, <1>4 DEF CopyFails
  <2> QED  BY Zenon, <1>4, <2>1, Ending DEF CopyFails, history
<1>5. CASE WriteFails(c)
  BY Zenon, <1>1, <1>5, BlocksStay, Ending DEF WriteFails, history
<1>6. CASE FindMissingReturns(c)
  BY Zenon, <1>1, <1>6, BlocksStay, Ending DEF FindMissingReturns, history
<1> QED  BY Zenon, <1>3, <1>4, <1>5, <1>6

\* Data has been written to the space that was allocated for it.
LEMMA Writes ==
    ASSUME FlatInv, RecordSeen, NEW c \in Client, IsWriting(clients[c]),
           NEW data \in Contents[clients[c].key], WriteCells(clients[c].target, data),
           clients' = [clients EXCEPT ![c] = [clients[c] EXCEPT !.at = "finalize"]],
           UNCHANGED <<blobMapVars, map, refreshLock, completed>>
    PROVE  FlatInv'
<1> DEFINE after == [clients[c] EXCEPT !.at = "finalize"]
<1>1. /\ clients \in [Client -> ClientState \cup {None}] /\ completed' \subseteq Data
      /\ BlocksInOrder /\ FindingsSeen
  BY Zenon DEF FlatInv, TypeOK
<1>2. clients[c] \in PutState \cup CopyState \cup RefreshState
  BY Zenon, <1>1, StateAt DEF IsWriting
<1>3. /\ after \in PutState \cup CopyState \cup RefreshState
      /\ after.at = "finalize" /\ after.key = clients[c].key /\ after.target = clients[c].target
      /\ after.op = clients[c].op
  BY Zenon, <1>2 DEF PutState, CopyState, RefreshState
<1>4. /\ clients' \in [Client -> ClientState \cup {None}] /\ clients'[c] = after
      /\ \A d \in Client \ {c} : clients'[d] = clients[d]
      /\ clients'[c] # None
  <2>1. after \in ClientState
    BY Zenon, <1>3 DEF ClientState
  <2> HIDE DEF after
  <2> QED  BY Zenon, <1>1, <2>1, NoStates DEF after
<1>5. BlocksAdvance
  BY Zenon, <1>1, BlocksStay
<1>6. /\ map' \in [Key -> Location \cup {None}] /\ EntriesFitNext /\ EntriesFrom(c)
  BY Zenon, <1>5, EntriesStay
<1>7. TargetFrom(c)
  BY Zenon, <1>3, <1>4 DEF TargetFrom, HasTarget, IsWriting
<1>8. SpaceTaken' /\ SpaceExclusive'
  BY Zenon, <1>4, <1>5, <1>6, <1>7, SpaceStep
<1>9. /\ EntriesComplete' /\ CopiesComplete' /\ UploadsComplete'
      /\ DOMAIN cells' = 0 .. MaxBlocks - 1
  BY Zenon, <1>3, <1>4, WriteStep
<1>10. FoundSoFar(c)
  <2>1. SUFFICES ASSUME after.op = "find"  PROVE  FoundSoFar(c)
    BY Zenon, <1>4 DEF FoundSoFar, IsFinding
  <2>2. clients[c] \in RefreshState /\ IsFinding(clients[c]) /\ HasTarget(clients[c])
    BY Zenon, <1>2, <1>3, <2>1 DEF PutState, CopyState, IsFinding, HasTarget, IsWriting
  <2>3. clients[c].at = "copy"
    BY Zenon, <2>2 DEF IsWriting, RefreshState
  <2>4. /\ after.start = clients[c].start /\ after.keys = clients[c].keys
        /\ after.missing = clients[c].missing /\ after.todo = clients[c].todo
    BY Zenon, <2>2 DEF RefreshState
  <2>5. Remaining(after) = Remaining(clients[c])
    BY Zenon, <1>3, <2>3, <2>4 DEF Remaining
  <2>6. /\ clients[c].start <= oldEnd /\ clients[c].keys \ Remaining(clients[c]) \subseteq seen[c]
        /\ clients[c].start <= clients[c].target.block
    BY Zenon, <1>1, <2>2 DEF FindingsSeen
  <2>7. oldEnd' = oldEnd
    BY Zenon DEF blobMapVars
  <2> HIDE DEF after
  <2> QED  BY Zenon, <1>3, <1>4, <2>4, <2>5, <2>6, <2>7 DEF FoundSoFar
<1>11. FindingsSeen' /\ DOMAIN seen' = Client
  BY Zenon, <1>4, <1>5, <1>10, FindingStep
<1>12. LockStep(c) /\ ParentFrom(c)
  BY Zenon, <1>3, <1>4 DEF LockStep, ParentFrom, IsSlicing
<1>13. BlocksInOrder' /\ TypeOK'
  BY Zenon, <1>4, <1>5, <1>6, <1>12, TypeStep
<1>14. ParentsFit' /\ EntriesFit'
  BY Zenon, <1>4, <1>5, <1>6, <1>12, ParentStep
<1> QED  BY Zenon, <1>1, <1>8, <1>9, <1>11, <1>13, <1>14 DEF FlatInv

\* Data is written without holding the lock.
LEMMA CopyAndWrite ==
    ASSUME FlatInv, RecordSeen, NEW c \in Client, Copy(c) \/ Write(c)
    PROVE  FlatInv'
<1>1. CASE Copy(c)
  BY <1>1, Writes, Zenon DEF Copy, IsIntact, Is, IsWriting, Continue, history
<1>2. CASE Write(c)
  <2>1. clients[c].data \in Contents[clients[c].key]
    BY Zenon, <1>2 DEF Write, FlatInv, UploadsComplete
  <2> QED  BY Zenon, <1>2, <2>1, Writes DEF Write, Is, IsWriting, Continue, history
<1> QED  BY Zenon, <1>1, <1>2

\* Put() allocates space.
LEMMA Puts ==
    ASSUME FlatInv, RecordSeen, NEW c \in Client, NEW key \in Uploads, NEW data \in Contents[key],
           Put(c, key, data)
    PROVE  FlatInv'
<1>1. key \in Key /\ data \in Data
  BY SMTT(30), FlatAssumption DEF Data
<1>2. BlocksInOrder /\ completed \subseteq Data /\ clients \in [Client -> ClientState \cup {None}]
  BY Zenon DEF FlatInv, TypeOK
<1>3. PICK block \in oldEnd .. Blobs!NextBlock - 1 :
         /\ Allocate(key, block)
         /\ Continue(c, [op |-> "put", at |-> "write", key |-> key, data |-> data,
                         target |-> Allocated(block), older |-> completed])
  BY Zenon DEF Put
<1> DEFINE location == Allocated(block)
           after == [op |-> "put", at |-> "write", key |-> key, data |-> data,
                     target |-> location, older |-> completed]
<1>4. /\ BlocksAdvance /\ location \in Location /\ TakenNext(location, key)
      /\ \A other, otherKey : otherKey \in Key /\ Taken(other, otherKey) =>
            Apart(location, key, other, otherKey)
  BY ZenonT(30), <1>1, <1>2, <1>3, Allocation
<1>5. clients' = [clients EXCEPT ![c] = after]
  BY Zenon, <1>3 DEF Continue
<1> HIDE DEF location
<1>6. after \in PutState
  BY Zenon, <1>1, <1>2, <1>4 DEF PutState
<1>7. /\ after \in ClientState /\ after.at = "write" /\ after.op = "put"
      /\ after.key = key /\ after.data = data /\ after.target = location
  BY Zenon, <1>6 DEF ClientState
<1> HIDE DEF after
<1>8. clients'[c] = after
  BY Zenon, <1>2, <1>5
<1>9. TargetFrom(c) /\ FoundSoFar(c) /\ ParentFrom(c)
  BY ZenonT(30), <1>4, <1>7, <1>8 DEF TargetFrom, Fresh, FoundSoFar, ParentFrom, IsFinding, IsSlicing
<1>10. LockStep(c)
  BY Zenon, <1>7, <1>8, NoStates DEF LockStep, Put
<1>11. /\ map' \in [Key -> Location \cup {None}] /\ EntriesFitNext /\ EntriesFrom(c)
       /\ completed' \subseteq Data /\ UNCHANGED cells
  BY ZenonT(30), <1>2, <1>4, EntriesStay DEF Put, history
<1> QED  BY ZenonT(30), <1>4, <1>5, <1>7, <1>9, <1>10, <1>11, ClientStep

\* Put() and Get() complete.
LEMMA Finalizes ==
    ASSUME FlatInv, RecordSeen, NEW c \in Client, Finalize(c)
    PROVE  FlatInv'
<1>1. BlocksAdvance
  BY ZenonT(30), BlocksStay DEF FlatInv, Finalize
<1>2. completed' \subseteq Data
  <2>1. CASE completed' = completed
    BY Zenon, <2>1 DEF FlatInv
  <2>2. CASE clients[c].op = "put" /\ completed' = completed \cup {clients[c].data}
    <3>1. clients[c] \in ClientState /\ clients[c].at = "finalize"
      BY Zenon, Typed DEF Finalize
    <3>2. clients[c] \in PutState
      BY Zenon, <2>2, <3>1, StateAt DEF CopyState, RefreshState
    <3> QED  BY Zenon, <2>2, <3>2 DEF FlatInv, PutState
  <2> QED  BY Zenon, <2>1, <2>2 DEF Finalize, history
<1>3. CASE UNCHANGED map
  BY ZenonT(30), <1>1, <1>2, <1>3, EntriesStay, Returning DEF Finalize
<1>4. CASE map' = Map!Stored(map, clients[c].key, clients[c].target)
  <2>1. map' \in [Key -> Location \cup {None}] /\ EntriesFitNext /\ EntriesFrom(c)
    BY Zenon, <1>1, <1>4, Finalizing DEF Finalize
  <2> QED  BY Zenon, <1>1, <1>2, <2>1, Returning DEF Finalize
<1> QED  BY ZenonT(30), <1>3, <1>4 DEF Finalize
=============================================================================
