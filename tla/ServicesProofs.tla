--------------------------- MODULE ServicesProofs ---------------------------
(***************************************************************************)
(* Proofs about three components that processes share: the pools of ZSTD   *)
(* coders (ZSTDPool), the groups of goroutines of a program                *)
(* (ProgramGroups) and the consumers of a cloned buffer (ClonedBuffers),   *)
(* for every number of streams, routines, consumers and chunks.            *)
(***************************************************************************)
EXTENDS ZSTDPool, ProgramGroups, ClonedBuffers, FiniteSetTheorems, TLAPS

(* What a condition contributes to the size of a set. *)
One(condition) == IF condition THEN 1 ELSE 0

(* The size of a finite set that changes by at most one element. *)
LEMMA Recount ==
  ASSUME NEW S, NEW T, NEW s, IsFiniteSet(S), \A t : t # s => (t \in S <=> t \in T)
  PROVE  /\ IsFiniteSet(T) /\ Cardinality(S) \in Nat /\ Cardinality(T) \in Nat
         /\ Cardinality(T) = Cardinality(S) + One(s \in T) - One(s \in S)
<1>1. Cardinality(S) \in Nat
  BY Zenon, FS_CardinalityType
<1>2. CASE s \in S /\ s \in T
  <2>1. S = T
    BY <1>2
  <2>2. QED
    BY <1>1, <1>2, <2>1 DEF One
<1>3. CASE s \notin S /\ s \notin T
  <2>1. S = T
    BY <1>3
  <2>2. QED
    BY <1>1, <1>3, <2>1 DEF One
<1>4. CASE s \in S /\ s \notin T
  <2>1. T = S \ {s}
    BY Zenon, <1>4
  <2>2. IsFiniteSet(T) /\ Cardinality(T) = Cardinality(S) - 1 /\ Cardinality(T) \in Nat
    BY Zenon, <1>4, <2>1, FS_RemoveElement, FS_CardinalityType
  <2>3. QED
    BY <1>1, <1>4, <2>2 DEF One
<1>5. CASE s \notin S /\ s \in T
  <2>1. T = S \cup {s}
    BY Zenon, <1>5
  <2>2. IsFiniteSet(T) /\ Cardinality(T) = Cardinality(S) + 1 /\ Cardinality(T) \in Nat
    BY Zenon, <1>5, <2>1, FS_AddElement, FS_CardinalityType
  <2>3. QED
    BY <1>1, <1>5, <2>2 DEF One
<1>6. QED
  BY Zenon, <1>2, <1>3, <1>4, <1>5

(* Assigning to an element of a slice. *)
LEMMA ExceptSeq ==
  ASSUME NEW S, NEW s \in Seq(S), NEW i \in 1 .. Len(s), NEW e \in S
  PROVE  LET t == [s EXCEPT ![i] = e]
         IN  t \in Seq(S) /\ Len(t) = Len(s) /\ \A j \in 1 .. Len(s) : t[j] = IF j = i THEN e ELSE s[j]
OBVIOUS

-----------------------------------------------------------------------------
(* Clones of a buffer. *)
Pending == At({"reader", "chunk", "end", "ended"})

(* Whether no ChunkReader has been opened. *)
Gathering == At({"none", "buffer", "constrained"}) = Consumers

(* Until the last consumer has supplied its constraints, nobody reads, and *)
(* those of the others have been taken into account.                       *)
ConstraintsGathered ==
  /\ consumersRemaining = Cardinality(At({"buffer"}))
  /\ baseReader.at = "none" <=> Gathering
  /\ At({"buffer", "constrained"}) # {} => Gathering
  /\ Gathering => chunksRead = 0
  /\ \A c \in At({"constrained"}) :
       /\ consumer[c].validate => needsValidation
       /\ maximumChunkSizeBytes \in Nat /\ maximumChunkSizeBytes <= consumer[c].maximum
       /\ consumer[c].received = 0

(* ClonesInLockstep, in terms of one consumer, and of sets of them. *)
ConsumerInLockstep(c) ==
  /\ consumer[c].at \in {"reader", "waiting", "end", "ended"} => consumer[c].received = chunksRead
  /\ consumer[c].at = "chunk" => consumer[c].received = chunksRead - 1
  /\ consumer[c].at \in {"end", "ended"} => chunksRead = Chunks
  /\ consumer[c].at \in {"reader", "waiting", "chunk", "end", "ended"} =>
       /\ consumer[c].validate => baseReader.validated
       /\ baseReader.maximum <= consumer[c].maximum
       /\ baseReader.at = "open"

ConsumersAccountedFor ==
  /\ baseReader.at = "closed" <=> At({"closed"}) # {} /\ At({"none", "closed"}) = Consumers
  /\ pendingConsumers = Cardinality(Pending)
  /\ At({"waiting"}) # {} => pendingConsumers > 0
  /\ At({"constrained"}) # {} => consumersRemaining > 0

CloneInv ==
  /\ CloneTypeOK
  /\ \A c \in Consumers : ConsumerInLockstep(c)
  /\ ConsumersAccountedFor
  /\ ConstraintsGathered
  /\ waitingConsumers = At({"waiting"})

-----------------------------------------------------------------------------
(* Sizes of sets of consumers. *)
LEMMA Counting ==
  ASSUME NEW S \in SUBSET Consumers
  PROVE  /\ Cardinality(S) \in Nat
         /\ Cardinality(S) = 0 <=> S = {}
         /\ Cardinality(S) = 1 => \A x, y \in S : x = y
         /\ \A x \in S : Cardinality(S \ {x}) = Cardinality(S) - 1
         /\ \A x : x \notin S => Cardinality(S \cup {x}) = Cardinality(S) + 1
<1>1. IsFiniteSet(Consumers)
  BY ConsumersAssumption, FS_Interval DEF Consumers
<1>2. IsFiniteSet(S)
  BY Zenon, <1>1, FS_Subset
<1>3. Cardinality(S) = 1 => \A x, y \in S : x = y
  BY <1>2, FS_Singleton
<1>4. QED
  BY <1>2, <1>3, FS_CardinalityType, FS_EmptySet, FS_RemoveElement, FS_AddElement, Zenon

(* What a consumer does changes, and nothing else about it. *)
Moved(before, after, at) ==
  /\ after \in ConsumerState /\ after.at = at
  /\ after.validate = before.validate /\ after.maximum = before.maximum /\ after.received = before.received

(* A consumer that goes on keeps what it has received. *)
LEMMA Moving ==
  ASSUME NEW before \in ConsumerState,
         NEW at \in {"none", "buffer", "constrained", "reader", "waiting", "chunk", "end", "ended", "closed"}
  PROVE  Moved(before, [before EXCEPT !.at = at], at)
BY Zenon DEF ConsumerState, Moved

(* A consumer that is handed a chunk. *)
LEMMA Receiving ==
  ASSUME NEW before \in ConsumerState, NEW received \in Nat
  PROVE  LET after == [before EXCEPT !.received = received]
         IN  /\ after \in ConsumerState /\ after.received = received
             /\ after.at = before.at /\ after.validate = before.validate /\ after.maximum = before.maximum
BY Zenon DEF ConsumerState

(* Two consumers are two. *)
LEMMA Pair == Cardinality({1} \cup {2}) = 2
<1>1. IsFiniteSet({1}) /\ Cardinality({1}) = 1 /\ 2 \notin {1}
  BY FS_Singleton
<1>2. QED
  BY <1>1, FS_AddElement

(* Consumers at some point are consumers. *)
LEMMA AtSubset == \A ats : At(ats) \subseteq Consumers
BY Zenon DEF At

(* The smaller of two chunk sizes. *)
LEMMA Minimum ==
  ASSUME NEW a \in Nat, NEW b \in Nat
  PROVE  Min({a, b}) \in Nat /\ Min({a, b}) <= a /\ Min({a, b}) <= b
<1>1. \E x \in {a, b} : \A y \in {a, b} : x =< y
  OBVIOUS
<1>2. QED
  BY Zenon, <1>1 DEF Min

-----------------------------------------------------------------------------
(* There is a single buffer that is yet to be cloned. *)
LEMMA ClonesInitially == CloneInit => CloneInv
<1> SUFFICES ASSUME CloneInit PROVE CloneInv
  BY Zenon
<1>1. \A c \in Consumers : consumer[c].at = "none"
  BY Zenon DEF CloneInit, NewConsumer
<1>2. /\ At({"none", "buffer", "constrained"}) = Consumers
      /\ At({"buffer"}) = {} /\ At({"buffer", "constrained"}) = {} /\ At({"constrained"}) = {}
      /\ Pending = {} /\ At({"waiting"}) = {} /\ At({"closed"}) = {}
  BY Zenon, <1>1 DEF At, Pending
<1>3. CloneTypeOK
  <2>1. chunksRead \in 0 .. Chunks
    BY ChunksAssumption DEF CloneInit
  <2>2. \A c \in Consumers : consumer[c] = NewConsumer("none")
    BY Zenon DEF CloneInit
  <2>3. QED
    BY <2>1, <2>2, Zenon DEF CloneInit, CloneTypeOK, ConsumerState, NewConsumer
<1>4. Cardinality({}) = 0
  BY Zenon, FS_EmptySet
<1>5. \A c \in Consumers : ConsumerInLockstep(c)
  BY Zenon, <1>1 DEF ConsumerInLockstep
<1>6. QED
  BY Zenon, <1>2, <1>3, <1>4, <1>5 DEF CloneInit, CloneInv, ConsumersAccountedFor, ConstraintsGathered,
     Gathering

(* A buffer is cloned for two consumers. *)
LEMMA NewCASClonedBufferPreserves == CloneInv /\ NewCASClonedBuffer => CloneInv'
<1> SUFFICES ASSUME CloneInv, NewCASClonedBuffer PROVE CloneInv'
  BY Zenon
<1> USE DEF CloneInv, NewCASClonedBuffer
<1>1. 1 \in Consumers /\ 2 \in Consumers
  BY ConsumersAssumption DEF Consumers
<1>2. /\ \A c \in Consumers : consumer[c].at = "none"
      /\ \A c \in Consumers : consumer'[c] = NewConsumer(IF c <= 2 THEN "buffer" ELSE "none")
  BY Zenon DEF At
<1>3. /\ At({"buffer"})' = {1} \cup {2}
      /\ At({"none", "buffer", "constrained"})' = Consumers
      /\ At({"buffer", "constrained"})' # {}
  BY <1>1, <1>2, ConsumersAssumption DEF At, NewConsumer, Consumers
<1>4. \A c \in Consumers : consumer'[c].at \in {"none", "buffer"}
  BY Zenon, <1>2 DEF NewConsumer
<1>5. /\ At({"constrained"})' = {} /\ Pending' = Pending
      /\ At({"waiting"})' = {} /\ At({"waiting"}) = {} /\ At({"closed"})' = {}
  BY Zenon, <1>2, <1>4 DEF At, Pending
<1>6. Cardinality(At({"buffer"})') = 2
  BY Zenon, <1>3, Pair
<1>7. CloneTypeOK'
  BY Zenon, <1>2 DEF CloneTypeOK, ConsumerState, NewConsumer
<1>8. At({"none", "buffer", "constrained"}) = Consumers
  BY Zenon, <1>2 DEF At
<1>9. \A c \in Consumers : ConsumerInLockstep(c)'
  BY Zenon, <1>4 DEF ConsumerInLockstep
<1>10. QED
  BY <1>3, <1>5, <1>6, <1>7, <1>8, <1>9, Zenon DEF ConsumersAccountedFor, ConstraintsGathered,
     Gathering

(* A clone is cloned again. *)
LEMMA CloneStreamPreserves ==
  ASSUME NEW c \in Consumers, NEW d \in Consumers, CloneInv, CloneStream(c, d)
  PROVE  CloneInv'
<1> USE DEF CloneInv, CloneStream
<1>1. /\ \A e \in Consumers : e # d => consumer'[e] = consumer[e]
      /\ consumer'[d] = NewConsumer("buffer")
      /\ consumer[d].at = "none" /\ consumer[c].at = "buffer"
  BY Zenon DEF CloneTypeOK
<1>2. CloneTypeOK'
  BY DEF CloneTypeOK, ConsumerState, NewConsumer
<1>3. At({"buffer"})' = At({"buffer"}) \cup {d} /\ d \notin At({"buffer"})
  BY <1>1 DEF At, NewConsumer
<1>4. At({"none", "buffer", "constrained"}) = Consumers /\ At({"none", "buffer", "constrained"})' = Consumers
  BY <1>1 DEF At, NewConsumer, ConstraintsGathered, Gathering
<1>5. \A e \in Consumers : consumer'[e].at \in {"none", "buffer", "constrained"}
  BY Zenon, <1>4 DEF At
<1>6. /\ At({"constrained"})' = At({"constrained"}) /\ Pending' = Pending
      /\ At({"waiting"})' = {} /\ At({"waiting"}) = {} /\ At({"closed"})' = {}
  BY <1>1, <1>4, <1>5 DEF At, Pending, NewConsumer
<1>7. Cardinality(At({"buffer"}))' = Cardinality(At({"buffer"})) + 1
  BY <1>3, Counting, AtSubset
<1>8. \A e \in At({"constrained"}) : e # d
  BY Zenon, <1>1 DEF At
<1>9. ConstraintsGathered'
  BY <1>1, <1>4, <1>6, <1>7, <1>8 DEF ConstraintsGathered, Gathering
<1>10. \A e \in Consumers : ConsumerInLockstep(e)'
  BY Zenon, <1>5 DEF ConsumerInLockstep
<1>11. ConsumersAccountedFor'
  BY <1>4, <1>6, <1>7 DEF ConsumersAccountedFor, ConstraintsGathered, Gathering, CloneTypeOK
<1>12. QED
  BY <1>2, <1>6, <1>9, <1>10, <1>11, Zenon

(* A consumer asks for a chunk reader, and the last one creates the reader they share. *)
LEMMA ToChunkReaderPreserves ==
  ASSUME NEW c \in Consumers, NEW validate \in BOOLEAN, NEW maximum \in ChunkSizes,
         CloneInv, ToChunkReader(c, validate, maximum)
  PROVE  CloneInv'
<1> DEFINE constraints == [at |-> "constrained", validate |-> validate, maximum |-> maximum, received |-> 0]
<1> USE DEF CloneInv
<1>1. /\ consumer[c].at = "buffer"
      /\ consumersRemaining' = consumersRemaining - 1
      /\ needsValidation' = (needsValidation \/ validate)
      /\ chunksRead' = chunksRead /\ waitingConsumers' = waitingConsumers
  BY Zenon DEF ToChunkReader
<1>2. maximum \in Nat
  BY Zenon, ChunksAssumption
<1>3. /\ maximumChunkSizeBytes' \in Nat /\ maximumChunkSizeBytes' <= maximum
      /\ maximumChunkSizeBytes \in Nat => maximumChunkSizeBytes' <= maximumChunkSizeBytes
  BY <1>2, Minimum DEF ToChunkReader, CloneTypeOK
<1>4. c \in At({"buffer"}) /\ c \in At({"buffer", "constrained"})
  BY Zenon, <1>1 DEF At
<1>5. Gathering /\ chunksRead = 0 /\ baseReader.at = "none"
  BY Zenon, <1>4 DEF ConstraintsGathered
<1>6. \A e \in Consumers : consumer[e].at \in {"none", "buffer", "constrained"}
  BY Zenon, <1>5 DEF Gathering, At
<1>7. /\ Cardinality(At({"buffer"}) \ {c}) = consumersRemaining'
      /\ consumersRemaining' \in Nat
  BY <1>1, <1>4, Counting, AtSubset DEF ConstraintsGathered
<1>8. Pending = {} /\ At({"waiting"}) = {} /\ At({"closed"}) = {}
  BY Zenon, <1>6 DEF At, Pending
<1>9. \A e \in Consumers : consumer[e].at = "constrained" =>
        /\ consumer[e].validate => needsValidation
        /\ maximumChunkSizeBytes \in Nat /\ maximumChunkSizeBytes <= consumer[e].maximum
        /\ consumer[e].received = 0
  BY Zenon DEF ConstraintsGathered, At
<1>10. consumer \in [Consumers -> ConsumerState]
  BY Zenon DEF CloneTypeOK
<1>11. CASE consumersRemaining' # 0
  <2>1. consumer' = [consumer EXCEPT ![c] = constraints] /\ UNCHANGED <<baseReader, pendingConsumers>>
    BY Zenon, <1>11 DEF ToChunkReader
  <2>2. consumer'[c] = constraints /\ \A e \in Consumers : e # c => consumer'[e] = consumer[e]
    BY Zenon, <2>1, <1>10
  <2>3. CloneTypeOK'
    BY Zenon, <2>1, <1>1, <1>2, <1>3, <1>7, <1>10 DEF CloneTypeOK, ConsumerState
  <2>4. At({"buffer"})' = At({"buffer"}) \ {c} /\ Gathering'
    BY <2>2, <1>6 DEF At, Gathering
  <2>a. \A e \in Consumers : consumer'[e].at \in {"none", "buffer", "constrained"}
    BY <2>2, <1>2, <1>6
  <2>5. Pending' = {} /\ At({"waiting"})' = {} /\ At({"closed"})' = {}
    BY Zenon, <2>a DEF At, Pending
  <2>6. \A e \in At({"constrained"})' :
          /\ consumer'[e].validate => needsValidation'
          /\ maximumChunkSizeBytes' \in Nat /\ maximumChunkSizeBytes' <= consumer'[e].maximum
          /\ consumer'[e].received = 0
    BY <2>2, <1>1, <1>2, <1>3, <1>9, <1>10 DEF At, ConsumerState
  <2>7. ConstraintsGathered'
    BY Zenon, <2>1, <2>4, <2>6, <1>1, <1>5, <1>7 DEF ConstraintsGathered
  <2>8. \A e \in Consumers : ConsumerInLockstep(e)'
    BY <2>2, <1>6 DEF ConsumerInLockstep
  <2>9. ConsumersAccountedFor'
    BY <2>1, <2>5, <1>5, <1>7, <1>8, <1>11 DEF ConsumersAccountedFor
  <2>10. QED
    BY Zenon, <2>3, <2>5, <2>7, <2>8, <2>9, <1>1, <1>8
<1>12. CASE consumersRemaining' = 0
  <2>1. /\ baseReader' = [at |-> "open", validated |-> needsValidation', maximum |-> maximumChunkSizeBytes']
        /\ pendingConsumers' = 1 + Cardinality(At({"constrained"}))
        /\ consumer' = [d \in Consumers |->
             IF [consumer EXCEPT ![c] = constraints][d].at = "constrained"
             THEN [[consumer EXCEPT ![c] = constraints][d] EXCEPT !.at = "reader"]
             ELSE [consumer EXCEPT ![c] = constraints][d]]
    BY <1>12, Zenon DEF ToChunkReader
  <2>2. At({"buffer"}) = {c}
    BY <1>4, <1>7, <1>12, Counting, AtSubset
  <2>3. Moved(constraints, consumer'[c], "reader")
    <3>1. constraints \in ConsumerState /\ consumer'[c] = [constraints EXCEPT !.at = "reader"]
      BY Zenon, <2>1, <1>2, <1>10 DEF ConsumerState
    <3>2. QED
      BY <3>1, Moving, Zenon
  <2>4. ASSUME NEW e \in Consumers, e # c
        PROVE  IF consumer[e].at = "constrained" THEN Moved(consumer[e], consumer'[e], "reader")
               ELSE consumer'[e] = consumer[e] /\ consumer[e].at = "none"
    <3>1. consumer[e] \in ConsumerState /\ e \notin At({"buffer"})
      BY Zenon, <2>2, <2>4, <1>10
    <3>2. IF consumer[e].at = "constrained" THEN consumer'[e] = [consumer[e] EXCEPT !.at = "reader"]
          ELSE consumer'[e] = consumer[e]
      BY Zenon, <2>1, <2>4, <1>10
    <3>3. QED
      BY <3>1, <3>2, <1>6, Moving, Zenon DEF At
  <2>5. Pending' = At({"constrained"}) \cup {c} /\ c \notin At({"constrained"})
    BY Zenon, <2>3, <2>4, <1>1 DEF At, Pending, Moved
  <2>6. pendingConsumers' = Cardinality(Pending') /\ pendingConsumers' \in Nat
    BY <2>1, <2>5, Counting, AtSubset
  <2>7. CloneTypeOK'
    <3>1. \A e \in Consumers : consumer'[e] \in ConsumerState
      BY Zenon, <2>3, <2>4, <1>10 DEF Moved
    <3>2. consumer' = [e \in Consumers |-> consumer'[e]]
      BY <2>1
    <3>3. needsValidation' \in BOOLEAN
      BY Zenon, <1>1 DEF CloneTypeOK
    <3>4. QED
      BY Zenon, <2>1, <2>6, <3>1, <3>2, <3>3, <1>1, <1>3, <1>7 DEF CloneTypeOK
  <2>8. \A e \in Consumers : consumer'[e].at \in {"none", "reader"}
    BY <2>3, <2>4, Zenon DEF Moved
  <2>9. /\ At({"buffer"})' = {} /\ At({"buffer", "constrained"})' = {} /\ At({"constrained"})' = {}
        /\ At({"waiting"})' = {} /\ At({"closed"})' = {} /\ ~Gathering'
    BY Zenon, <2>3, <2>8 DEF At, Gathering, Moved
  <2>10. ConstraintsGathered'
    BY <2>1, <2>9, <1>12, FS_EmptySet, Zenon DEF ConstraintsGathered
  <2>11. \A e \in Consumers : ConsumerInLockstep(e)'
    BY SMTT(30), <2>1, <2>3, <2>4, <2>8, <1>1, <1>2, <1>3, <1>5, <1>9, <1>10 DEF ConsumerInLockstep,
       ConsumerState, Moved
  <2>12. ConsumersAccountedFor'
    BY Zenon, <2>1, <2>6, <2>9 DEF ConsumersAccountedFor
  <2>13. QED
    BY Zenon, <2>7, <2>9, <2>10, <2>11, <2>12, <1>1, <1>8
<1>13. QED
  BY Zenon, <1>11, <1>12

-----------------------------------------------------------------------------
(* The last of the consumers to ask for a chunk reads it on behalf of all. *)
LEMMA SharePreserves ==
  ASSUME NEW c \in Consumers, NEW continues \in {0, 1}, CloneInv, pendingConsumers = 1,
         consumer[c].at \in {"reader", "ended"}, continues = 1 \/ waitingConsumers # {},
         ReadAndShareWithOthers(c, continues),
         UNCHANGED <<consumersRemaining, needsValidation, maximumChunkSizeBytes, baseReader>>
  PROVE  CloneInv'
<1> USE DEF CloneInv
<1> DEFINE Served == waitingConsumers \cup (IF continues = 1 THEN {c} ELSE {})
<1>1. consumer \in [Consumers -> ConsumerState]
  BY Zenon DEF CloneTypeOK
<1>2. c \in Pending /\ baseReader.at = "open"
  BY ZenonT(30) DEF Pending, At, ConsumerInLockstep
<1>3. Pending = {c}
  <2>1. Pending \subseteq Consumers /\ Cardinality(Pending) = 1
    BY Zenon DEF Pending, At, ConsumersAccountedFor
  <2>2. QED
    BY <2>1, <1>2, Counting
<1>4. ~Gathering /\ At({"buffer", "constrained"}) = {}
  BY Zenon, <1>2 DEF ConstraintsGathered
<1>5. \A e \in Consumers : e # c => consumer[e].at \in {"none", "waiting", "closed"}
  BY Zenon, <1>1, <1>3, <1>4 DEF Pending, At, ConsumerState
<1>6. \A e \in Consumers : e \in waitingConsumers <=> consumer[e].at = "waiting"
  BY Zenon DEF At
<1>7. c \notin waitingConsumers /\ Served \subseteq Consumers /\ Served # {}
  BY Zenon, <1>6 DEF CloneTypeOK
<1>8. Result \in {"chunk", "end"}
  BY Zenon DEF Result
<1>9. /\ \A e \in Served : Moved(consumer[e], consumer'[e], Result)
      /\ continues = 0 => Moved(consumer[c], consumer'[c], "closed")
      /\ \A e \in Consumers : e \notin Served /\ e # c => consumer'[e] = consumer[e]
      /\ consumer' = [e \in Consumers |-> consumer'[e]]
  <2>1. /\ \A e \in Served : consumer'[e] = [consumer[e] EXCEPT !.at = Result]
        /\ continues = 0 => consumer'[c] = [consumer[c] EXCEPT !.at = "closed"]
        /\ \A e \in Consumers : e \notin Served /\ e # c => consumer'[e] = consumer[e]
        /\ consumer' = [e \in Consumers |-> consumer'[e]]
    BY <1>7 DEF ReadAndShareWithOthers, Shared
  <2>2. \A e \in Consumers : consumer[e] \in ConsumerState
    BY Zenon, <1>1
  <2>3. ASSUME NEW e \in Served PROVE Moved(consumer[e], consumer'[e], Result)
    <3>1. consumer[e] \in ConsumerState /\ consumer'[e] = [consumer[e] EXCEPT !.at = Result]
      BY Zenon, <2>1, <2>2, <1>7
    <3>2. QED
      BY <3>1, <1>8, Moving, Zenon
  <2>4. ASSUME continues = 0 PROVE Moved(consumer[c], consumer'[c], "closed")
    <3>1. consumer[c] \in ConsumerState /\ consumer'[c] = [consumer[c] EXCEPT !.at = "closed"]
      BY Zenon, <2>1, <2>2, <2>4
    <3>2. QED
      BY <3>1, Moving, Zenon
  <2>5. QED
    BY Zenon, <2>1, <2>3, <2>4
<1>10. /\ chunksRead' \in 0 .. Chunks
       /\ Result = "chunk" => chunksRead' = chunksRead + 1
       /\ Result = "end" => chunksRead' = chunksRead /\ chunksRead = Chunks
  BY <1>8, ChunksAssumption DEF ReadAndShareWithOthers, Result, CloneTypeOK
<1>11. /\ \A e \in Served : consumer'[e].at = Result
       /\ \A e \in Consumers : e \notin Served => consumer'[e].at \in {"none", "closed"}
  BY <1>5, <1>6, <1>7, <1>9 DEF Moved
<1>12. /\ Pending' = Served /\ At({"waiting"})' = {} /\ At({"none", "closed"})' # Consumers
       /\ At({"buffer"})' = {} /\ At({"buffer", "constrained"})' = {} /\ At({"constrained"})' = {} /\ ~Gathering'
  BY <1>7, <1>8, <1>11 DEF Pending, At, Gathering
<1>13. pendingConsumers' = Cardinality(Served)
  <2>1. waitingConsumers \subseteq Consumers /\ pendingConsumers' = Cardinality(waitingConsumers) + continues
    BY Zenon DEF ReadAndShareWithOthers, CloneTypeOK
  <2>2. Cardinality(waitingConsumers) \in Nat /\ Cardinality(waitingConsumers \cup {c}) = Cardinality(waitingConsumers) + 1
    BY Zenon, <2>1, <1>7, Counting
  <2>3. CASE continues = 0
    <3>1. Served = waitingConsumers
      BY <2>3
    <3>2. QED
      BY <2>1, <2>2, <2>3, <3>1
  <2>4. CASE continues = 1
    <3>1. Served = waitingConsumers \cup {c}
      BY Zenon, <2>4
    <3>2. QED
      BY Zenon, <2>1, <2>2, <2>4, <3>1
  <2>5. QED
    BY Zenon, <2>3, <2>4
<1>14. pendingConsumers' \in Nat \ {0}
  BY <1>7, <1>13, Counting, Zenon
<1>15. CloneTypeOK'
  <2>1. \A e \in Consumers :
          consumer'[e] \in ConsumerState
    BY <1>1, <1>9 DEF Moved
  <2>2. waitingConsumers' = {}
    BY Zenon DEF ReadAndShareWithOthers
  <2>3. QED
    BY Zenon, <2>1, <2>2, <1>9, <1>10, <1>14 DEF CloneTypeOK
<1>16. \A e \in Consumers : ConsumerInLockstep(e)'
  <2>1. ASSUME NEW e \in Served PROVE ConsumerInLockstep(e)'
    <3>1. /\ consumer'[e].at = Result /\ consumer'[e].received = consumer[e].received
          /\ consumer'[e].validate = consumer[e].validate /\ consumer'[e].maximum = consumer[e].maximum
      BY Zenon, <1>9 DEF Moved
    <3>2. consumer[e].at \in {"reader", "waiting", "ended"}
      BY Zenon, <1>6, <1>7
    <3>3. /\ consumer[e].received = chunksRead
          /\ consumer[e].validate => baseReader.validated
          /\ baseReader.maximum <= consumer[e].maximum
      BY Zenon, <3>2, <1>7 DEF ConsumerInLockstep
    <3>4. chunksRead \in Int /\ baseReader' = baseReader
      BY SMTT(30) DEF CloneTypeOK
    <3>5. CASE Result = "chunk"
      BY SMTT(30), <3>1, <3>3, <3>4, <3>5, <1>2, <1>10 DEF ConsumerInLockstep
    <3>6. CASE Result = "end"
      BY Zenon, <3>1, <3>3, <3>4, <3>6, <1>2, <1>10 DEF ConsumerInLockstep
    <3>7. QED
      BY Zenon, <3>5, <3>6, <1>8
  <2>2. ASSUME NEW e \in Consumers, e \notin Served PROVE ConsumerInLockstep(e)'
    BY Zenon, <2>2, <1>11 DEF ConsumerInLockstep
  <2>3. QED
    BY Zenon, <2>1, <2>2
<1>17. ConsumersAccountedFor'
  BY Zenon, <1>2, <1>12, <1>13, <1>14 DEF ConsumersAccountedFor
<1>18. ConstraintsGathered'
  <2>1. At({"buffer"}) = {}
    BY Zenon, <1>4 DEF At
  <2>2. QED
    BY Zenon, <2>1, <1>2, <1>12 DEF ConstraintsGathered
<1>19. QED
  BY Zenon, <1>12, <1>15, <1>16, <1>17, <1>18 DEF ReadAndShareWithOthers

(* A consumer that was pending starts to wait, or leaves. *)
LEMMA LeavePreserves ==
  ASSUME NEW c \in Consumers, NEW at \in {"waiting", "closed"}, CloneInv,
         consumer[c].at \in {"reader", "ended"}, at = "waiting" => consumer[c].at = "reader",
         pendingConsumers # 1 \/ (at = "closed" /\ waitingConsumers = {}),
         UNCHANGED <<consumersRemaining, needsValidation, maximumChunkSizeBytes, chunksRead>>,
         baseReader' = IF pendingConsumers = 1 THEN [baseReader EXCEPT !.at = "closed"] ELSE baseReader,
         pendingConsumers' = pendingConsumers - 1,
         waitingConsumers' = IF at = "waiting" THEN waitingConsumers \cup {c} ELSE waitingConsumers,
         Moved(consumer[c], consumer'[c], at),
         \A e \in Consumers : e # c => consumer'[e] = consumer[e],
         consumer' = [e \in Consumers |-> consumer'[e]]
  PROVE  CloneInv'
<1> USE DEF CloneInv
<1>1. c \in Pending /\ Pending \subseteq Consumers /\ baseReader.at = "open"
  BY Zenon DEF Pending, At, ConsumerInLockstep
<1>2. /\ Pending' = Pending \ {c}
      /\ At({"waiting"})' = IF at = "waiting" THEN At({"waiting"}) \cup {c} ELSE At({"waiting"})
      /\ At({"buffer"})' = At({"buffer"}) /\ At({"constrained"})' = At({"constrained"})
      /\ At({"buffer", "constrained"})' = At({"buffer", "constrained"})
  BY Zenon DEF Pending, At, Moved
<1>3. pendingConsumers' = Cardinality(Pending') /\ pendingConsumers' \in Nat
  BY <1>1, <1>2, Counting DEF ConsumersAccountedFor
<1>4. ~Gathering /\ ~Gathering' /\ At({"buffer", "constrained"}) = {}
  BY Zenon, <1>1 DEF ConstraintsGathered, Gathering, At, Moved
<1>5. At({"buffer"}) = {} /\ At({"constrained"}) = {}
  BY Zenon, <1>4 DEF At
<1>6. CloneTypeOK'
  <2>1. \A e \in Consumers : consumer'[e] \in ConsumerState
    BY Zenon DEF CloneTypeOK, Moved
  <2>2. QED
    BY Zenon, <2>1, <1>3 DEF CloneTypeOK
<1>7. baseReader'.at = (IF pendingConsumers = 1 THEN "closed" ELSE "open")
      /\ baseReader'.validated = baseReader.validated /\ baseReader'.maximum = baseReader.maximum
  <2>1. baseReader \in [at : {"none", "open", "closed"}, validated : BOOLEAN, maximum : Nat]
    BY Zenon DEF CloneTypeOK
  <2>2. CASE pendingConsumers = 1
    <3>1. baseReader' = [baseReader EXCEPT !.at = "closed"]
      BY Zenon, <2>2
    <3>2. QED
      BY Zenon, <2>1, <2>2, <3>1
  <2>3. CASE pendingConsumers # 1
    <3>1. baseReader' = baseReader
      BY Zenon, <2>3
    <3>2. QED
      BY Zenon, <2>3, <3>1, <1>1
  <2>4. QED
    BY Zenon, <2>2, <2>3
<1>8. CASE pendingConsumers = 1
  <2>1. Pending = {c}
    <3>1. Cardinality(Pending) = 1
      BY Zenon, <1>8 DEF ConsumersAccountedFor
    <3>2. QED
      BY <3>1, <1>1, Counting
  <2>2. \A e \in Consumers : consumer'[e].at \in {"none", "closed"}
    BY <1>4, <1>8, <2>1 DEF Pending, At, CloneTypeOK, ConsumerState, Moved
  <2>3. \A e \in Consumers : ConsumerInLockstep(e)'
    BY Zenon, <2>2 DEF ConsumerInLockstep
  <2>4. At({"none", "closed"})' = Consumers /\ At({"closed"})' # {} /\ At({"waiting"})' = {}
    BY Zenon, <2>2, <1>8 DEF At, Moved
  <2>5. ConsumersAccountedFor'
    BY Zenon, <2>4, <1>2, <1>3, <1>5, <1>7, <1>8 DEF ConsumersAccountedFor
  <2>6. QED
    BY Zenon, <2>3, <2>5, <1>2, <1>4, <1>5, <1>6, <1>7, <1>8 DEF ConstraintsGathered
<1>9. CASE pendingConsumers # 1
  <2>1. PICK e \in Pending : e # c
    BY SMTT(30), <1>9, <1>1, <1>2, <1>3, Counting DEF ConsumersAccountedFor
  <2>2. pendingConsumers' > 0 /\ At({"none", "closed"})' # Consumers
    BY <2>1, <1>1, <1>2, <1>3, Counting DEF Pending, At
  <2>3. \A d \in Consumers : ConsumerInLockstep(d)'
    BY <1>7, <1>9 DEF ConsumerInLockstep, Moved
  <2>4. ConsumersAccountedFor'
    BY Zenon, <2>2, <1>2, <1>3, <1>5, <1>7, <1>9 DEF ConsumersAccountedFor
  <2>5. QED
    BY Zenon, <2>3, <2>4, <1>2, <1>4, <1>5, <1>6, <1>7, <1>9 DEF ConstraintsGathered
<1>10. QED
  BY Zenon, <1>8, <1>9

(* A consumer asks for the next chunk. *)
LEMMA ReadPreserves ==
  ASSUME NEW c \in Consumers, CloneInv, Read(c)
  PROVE  CloneInv'
<1> USE DEF CloneInv
<1>1. /\ consumer[c].at = "reader"
      /\ UNCHANGED <<consumersRemaining, needsValidation, maximumChunkSizeBytes, baseReader>>
  BY Zenon DEF Read
<1>2. CASE pendingConsumers = 1
  BY Zenon, <1>1, <1>2, SharePreserves DEF Read
<1>3. CASE pendingConsumers # 1
  <2>1. /\ pendingConsumers' = pendingConsumers - 1 /\ waitingConsumers' = waitingConsumers \cup {c}
        /\ consumer' = [consumer EXCEPT ![c].at = "waiting"] /\ chunksRead' = chunksRead
    BY Zenon, <1>3 DEF Read
  <2>2. consumer \in [Consumers -> ConsumerState] /\ consumer[c] \in ConsumerState
    BY Zenon DEF CloneTypeOK
  <2>3. /\ Moved(consumer[c], consumer'[c], "waiting")
        /\ \A e \in Consumers : e # c => consumer'[e] = consumer[e]
    BY <2>1, <2>2, Moving, Zenon
  <2>4. QED
    BY <1>1, <1>3, <2>1, <2>2, <2>3, LeavePreserves, Zenon
<1>4. QED
  BY Zenon, <1>2, <1>3

(* A consumer is handed the chunk that another one has read. *)
LEMMA ReceivePreserves ==
  ASSUME NEW c \in Consumers, CloneInv, Receive(c)
  PROVE  CloneInv'
<1> USE DEF CloneInv
<1>1. /\ consumer[c].at \in {"chunk", "end"}
      /\ UNCHANGED <<consumersRemaining, needsValidation, maximumChunkSizeBytes, baseReader, chunksRead,
                     pendingConsumers, waitingConsumers>>
  BY Zenon DEF Receive
<1>2. consumer \in [Consumers -> ConsumerState] /\ consumer[c] \in ConsumerState /\ chunksRead \in Int
  BY DEF CloneTypeOK
<1>3. /\ \A e \in Consumers : e # c => consumer'[e] = consumer[e]
      /\ consumer' = [e \in Consumers |-> consumer'[e]]
  BY <1>2, Zenon DEF Receive
<1>4. /\ consumer'[c] \in ConsumerState
      /\ consumer'[c].validate = consumer[c].validate /\ consumer'[c].maximum = consumer[c].maximum
      /\ \/ /\ consumer[c].at = "chunk" /\ consumer'[c].at = "reader"
            /\ consumer'[c].received = consumer[c].received + 1
         \/ /\ consumer[c].at = "end" /\ consumer'[c].at = "ended"
            /\ consumer'[c].received = consumer[c].received
  <2>1. CASE consumer[c].at = "chunk"
    <3>1. consumer' = [consumer EXCEPT ![c] = [[consumer[c] EXCEPT !.at = "reader"] EXCEPT !.received = consumer[c].received + 1]]
      BY <2>1, <1>2, Zenon DEF Receive
    <3>2. consumer'[c] = [[consumer[c] EXCEPT !.at = "reader"] EXCEPT !.received = consumer[c].received + 1]
      BY Zenon, <3>1, <1>2
    <3>3. Moved(consumer[c], [consumer[c] EXCEPT !.at = "reader"], "reader")
      BY <1>2, Moving, Zenon
    <3> DEFINE moved == [consumer[c] EXCEPT !.at = "reader"]
    <3>4. moved \in ConsumerState /\ consumer[c].received + 1 \in Nat
      BY <3>3, <1>2 DEF Moved, ConsumerState
    <3>5. /\ consumer'[c] \in ConsumerState /\ consumer'[c].received = consumer[c].received + 1
          /\ consumer'[c].at = moved.at /\ consumer'[c].validate = moved.validate /\ consumer'[c].maximum = moved.maximum
      <4> HIDE DEF moved
      <4>1. consumer'[c] = [moved EXCEPT !.received = consumer[c].received + 1]
        BY Zenon, <3>2 DEF moved
      <4>2. QED
        BY <3>4, <4>1, Receiving
    <3>6. QED
      BY Zenon, <2>1, <3>3, <3>5 DEF Moved
  <2>2. CASE consumer[c].at = "end"
    <3>1. consumer'[c] = [consumer[c] EXCEPT !.at = "ended"]
      BY Zenon, <2>2, <1>2 DEF Receive
    <3>2. QED
      BY Zenon, <2>2, <3>1, <1>2 DEF ConsumerState
  <2>3. QED
    BY <2>1, <2>2, <1>1, Zenon
<1>5. /\ Pending' = Pending /\ Gathering' = Gathering
      /\ At({"waiting"})' = At({"waiting"}) /\ At({"buffer"})' = At({"buffer"})
      /\ At({"constrained"})' = At({"constrained"}) /\ At({"closed"})' = At({"closed"})
      /\ At({"buffer", "constrained"})' = At({"buffer", "constrained"})
      /\ At({"none", "closed"})' = At({"none", "closed"})
  BY Zenon, <1>3, <1>4 DEF Pending, Gathering, At
<1>6. CloneTypeOK'
  <2>1. \A e \in Consumers : consumer'[e] \in ConsumerState
    BY Zenon, <1>2, <1>3, <1>4
  <2>2. QED
    BY Zenon, <2>1, <1>1, <1>3 DEF CloneTypeOK
<1>7. \A e \in Consumers : ConsumerInLockstep(e)'
  <2>1. ConsumerInLockstep(c)'
    <3>1. CASE consumer[c].at = "chunk"
      <4>1. consumer[c].received = chunksRead - 1 /\ consumer'[c].at = "reader"
        BY <3>1, <1>4, Zenon DEF ConsumerInLockstep
      <4>2. consumer'[c].received = chunksRead'
        BY <3>1, <4>1, <1>1, <1>2, <1>4
      <4>3. QED
        BY Zenon, <3>1, <4>1, <4>2, <1>1, <1>4 DEF ConsumerInLockstep
    <3>2. CASE consumer[c].at = "end"
      BY <3>2, <1>1, <1>4, Zenon DEF ConsumerInLockstep
    <3>3. QED
      BY Zenon, <3>1, <3>2, <1>1
  <2>2. ASSUME NEW e \in Consumers, e # c PROVE ConsumerInLockstep(e)'
    BY Zenon, <2>2, <1>1, <1>3 DEF ConsumerInLockstep
  <2>3. QED
    BY Zenon, <2>1, <2>2
<1>8. ConsumersAccountedFor'
  BY Zenon, <1>1, <1>5 DEF ConsumersAccountedFor
<1>9. c \notin At({"constrained"})
  BY Zenon, <1>1 DEF At
<1>10. ConstraintsGathered'
  BY <1>1, <1>3, <1>5, <1>9, AtSubset DEF ConstraintsGathered
<1>11. QED
  BY Zenon, <1>1, <1>5, <1>6, <1>7, <1>8, <1>10

(* A consumer leaves. *)
LEMMA ClosePreserves ==
  ASSUME NEW c \in Consumers, CloneInv, Close(c)
  PROVE  CloneInv'
<1> USE DEF CloneInv
<1>1. /\ consumer[c].at \in {"reader", "ended"}
      /\ UNCHANGED <<consumersRemaining, needsValidation, maximumChunkSizeBytes>>
  BY Zenon DEF Close
<1>2. CASE pendingConsumers = 1 /\ waitingConsumers # {}
  BY Zenon, <1>1, <1>2, SharePreserves DEF Close
<1>3. CASE ~(pendingConsumers = 1 /\ waitingConsumers # {})
  <2>1. /\ pendingConsumers' = pendingConsumers - 1 /\ waitingConsumers' = waitingConsumers
        /\ consumer' = [consumer EXCEPT ![c].at = "closed"] /\ chunksRead' = chunksRead
        /\ baseReader' = IF pendingConsumers = 1 THEN [baseReader EXCEPT !.at = "closed"] ELSE baseReader
    BY Zenon, <1>3 DEF Close
  <2>2. consumer \in [Consumers -> ConsumerState] /\ consumer[c] \in ConsumerState
    BY Zenon DEF CloneTypeOK
  <2>3. /\ Moved(consumer[c], consumer'[c], "closed")
        /\ \A e \in Consumers : e # c => consumer'[e] = consumer[e]
        /\ consumer' = [e \in Consumers |-> consumer'[e]]
    BY <2>1, <2>2, Moving, Zenon
  <2>4. QED
    BY <1>1, <1>3, <2>1, <2>2, <2>3, LeavePreserves, Zenon
<1>4. QED
  BY Zenon, <1>2, <1>3

-----------------------------------------------------------------------------
(* What the inductive invariant is for. *)
LEMMA LockstepOfAll == CloneInv => ClonesInLockstep
BY Zenon DEF CloneInv, ConsumerInLockstep, ConsumersAccountedFor, ConstraintsGathered, Pending, At,
   ClonesInLockstep

(* However many consumers a cloned buffer has, and however their calls to  *)
(* ToChunkReader(), Read() and Close() interleave, all of them receive all *)
(* chunks in order, subject to everybody's constraints, the base reader is *)
(* closed once by the last to leave, and pendingConsumers never miscounts. *)
THEOREM Lockstep == CloneSpec => []ClonesInLockstep
<1>1. CloneInit => CloneInv
  BY Zenon, ClonesInitially
<1>2. CloneInv /\ [CloneNext]_cloneVars => CloneInv'
  <2> SUFFICES ASSUME CloneInv, [CloneNext]_cloneVars PROVE CloneInv'
    BY Zenon
  <2>1. CASE NewCASClonedBuffer
    BY Zenon, <2>1, NewCASClonedBufferPreserves
  <2>2. CASE \E c, d \in Consumers : CloneStream(c, d)
    BY Zenon, <2>2, CloneStreamPreserves
  <2>3. CASE \E c \in Consumers, validate \in BOOLEAN, maximum \in ChunkSizes : ToChunkReader(c, validate, maximum)
    BY Zenon, <2>3, ToChunkReaderPreserves
  <2>4. CASE \E c \in Consumers : Read(c) \/ Receive(c) \/ Close(c)
    BY Zenon, <2>4, ReadPreserves, ReceivePreserves, ClosePreserves
  <2>5. CASE UNCHANGED cloneVars
    BY ZenonT(30), <2>5 DEF cloneVars, CloneInv, CloneTypeOK, ConsumerInLockstep, ConsumersAccountedFor,
       ConstraintsGathered,
                Gathering, Pending, At
  <2>6. QED
    BY Zenon, <2>1, <2>2, <2>3, <2>4, <2>5 DEF CloneNext
<1>3. QED
  BY <1>1, <1>2, LockstepOfAll, PTL DEF CloneSpec

-----------------------------------------------------------------------------
(* Pools of coders: the states of streams, and the inductive invariant. *)
StreamState ==
  [at : {"idle", "acquire", "get", "open", "closed", "rejected"}, coder : {NoCoder} \cup 1 .. coders, canceled : BOOLEAN]

PoolTypeOK ==
  /\ poolBound \in {0, MaximumCoders} /\ coderSem \in Int /\ coders \in Nat
  /\ coderPool \subseteq 1 .. coders
  /\ stream \in [Streams -> StreamState]
  /\ poolMetrics \in [acquisitions : Int, rejections : Int, releases : Int]

(* A stream has a coder while it is open. *)
CodersOwned == \A s \in Streams : stream[s].coder # NoCoder <=> stream[s].at = "open"

PoolInv == PoolTypeOK /\ CodersOwned /\ CodersExclusive

(* NewBoundedPool() and the unbounded ones start out without coders. *)
LEMMA PoolInitially == PoolInit => PoolInv
<1> SUFFICES ASSUME PoolInit PROVE PoolInv
  BY Zenon
<1>1. \A s \in Streams : stream[s] = Idle("idle")
  BY Zenon DEF PoolInit
<1>2. Open = {} /\ Permitted = {} /\ Rejected = {}
  BY <1>1 DEF Open, Permitted, Rejected, Idle
<1>3. PoolTypeOK
  <2>1. Idle("idle") \in StreamState
    BY Zenon DEF Idle, StreamState
  <2>2. QED
    BY <2>1, PoolAssumption DEF PoolTypeOK, PoolInit
<1>4. Cardinality({}) = 0
  BY Zenon, <1>2, FS_EmptySet
<1>5. CodersExclusive
  <2>1. poolMetrics.acquisitions = 0 /\ poolMetrics.releases = 0 /\ poolMetrics.rejections = 0
    BY Zenon DEF PoolInit
  <2>2. coderSem = poolBound /\ poolBound \in Nat
    BY SMTT(30), PoolAssumption DEF PoolInit
  <2>3. QED
    BY <1>2, <1>4, <2>1, <2>2 DEF CodersExclusive
<1>6. QED
  BY <1>1, <1>3, <1>5 DEF PoolInv, CodersOwned, Idle

(* What happens if one stream goes on: those that are counted change by    *)
(* that stream.                                                            *)
LEMMA StreamMoves ==
  ASSUME PoolInv, NEW s \in Streams, \A t \in Streams : t # s => stream'[t] = stream[t],
         stream'[s].coder # NoCoder <=> stream'[s].at = "open"
  PROVE  /\ CodersOwned'
         /\ Cardinality(Open)' = Cardinality(Open) + One(stream'[s].at = "open") - One(stream[s].at = "open")
         /\ Cardinality(Permitted)' = Cardinality(Permitted)
              + One(stream'[s].at \in {"open", "get"}) - One(stream[s].at \in {"open", "get"})
         /\ Cardinality(Rejected)' = Cardinality(Rejected) + One(stream'[s].at = "rejected") - One(stream[s].at = "rejected")
         /\ Cardinality(Open) \in Nat /\ Cardinality(Permitted) \in Nat /\ Cardinality(Rejected) \in Nat
<1>1. IsFiniteSet(Open) /\ IsFiniteSet(Permitted) /\ IsFiniteSet(Rejected)
  BY Zenon, PoolAssumption, FS_Subset DEF Open, Permitted, Rejected
<1>2. /\ \A t : t # s => (t \in Open <=> t \in Open')
      /\ s \in Open' <=> stream'[s].at = "open"
      /\ s \in Open <=> stream[s].at = "open"
  BY Zenon DEF PoolInv, CodersOwned, Open
<1>3. /\ \A t : t # s => (t \in Permitted <=> t \in Permitted')
      /\ s \in Permitted' <=> stream'[s].at \in {"open", "get"}
      /\ s \in Permitted <=> stream[s].at \in {"open", "get"}
  BY Zenon, <1>2 DEF Permitted
<1>4. /\ \A t : t # s => (t \in Rejected <=> t \in Rejected')
      /\ s \in Rejected' <=> stream'[s].at = "rejected"
      /\ s \in Rejected <=> stream[s].at = "rejected"
  BY Zenon DEF Rejected
<1>5. /\ Cardinality(Open') = Cardinality(Open) + One(s \in Open') - One(s \in Open)
      /\ Cardinality(Permitted') = Cardinality(Permitted) + One(s \in Permitted') - One(s \in Permitted)
      /\ Cardinality(Rejected') = Cardinality(Rejected) + One(s \in Rejected') - One(s \in Rejected)
      /\ Cardinality(Open) \in Nat /\ Cardinality(Permitted) \in Nat /\ Cardinality(Rejected) \in Nat
  BY <1>1, <1>2, <1>3, <1>4, Recount
<1>6. CodersOwned'
  BY Zenon DEF PoolInv, CodersOwned
<1>7. QED
  BY Zenon, <1>2, <1>3, <1>4, <1>5, <1>6 DEF One

(* What the invariant says of the state of one stream. *)
LEMMA StreamOpen ==
  ASSUME PoolInv, NEW s \in Streams
  PROVE  /\ stream[s] \in StreamState /\ stream \in [Streams -> StreamState]
         /\ coderSem \in Int /\ poolBound \in Nat /\ coders \in Nat /\ coderPool \subseteq 1 .. coders
         /\ poolMetrics \in [acquisitions : Int, rejections : Int, releases : Int]
         /\ s \in Open <=> stream[s].at = "open"
         /\ stream[s].at = "open" => stream[s].coder \in 1 .. coders
         /\ stream[s].at # "open" => stream[s].coder = NoCoder
<1>1. stream[s] \in StreamState /\ stream \in [Streams -> StreamState]
  BY Zenon DEF PoolInv, PoolTypeOK
<1>2. QED
  BY <1>1, PoolAssumption DEF PoolInv, PoolTypeOK, CodersOwned, Open, StreamState

(* Those that don't have a coder and are not about to get one go on. *)
LEMMA NewCoderPreserves ==
  ASSUME PoolInv, NEW s \in Streams, NewCoder(s) \/ CancelStream(s)
  PROVE  PoolInv'
<1>1. /\ stream[s].at \in {"idle", "acquire"} /\ stream[s] \in StreamState /\ stream \in [Streams -> StreamState]
      /\ stream[s].coder = NoCoder
  BY Zenon, StreamOpen DEF NewCoder, CancelStream
<1>2. /\ stream'[s].at = "acquire" /\ stream'[s].coder = NoCoder
      /\ stream' \in [Streams -> StreamState]
      /\ \A t \in Streams : t # s => stream'[t] = stream[t]
  <2>1. CASE NewCoder(s)
    BY Zenon, <1>1, <2>1 DEF NewCoder, StreamState
  <2>2. CASE CancelStream(s)
    BY <1>1, <2>2, Zenon DEF CancelStream, StreamState
  <2>3. QED
    BY Zenon, <2>1, <2>2
<1>3. UNCHANGED <<poolBound, coderSem, coderPool, coders, poolMetrics>>
  BY Zenon DEF NewCoder, CancelStream
<1>4. /\ Cardinality(Open)' = Cardinality(Open) /\ Cardinality(Permitted)' = Cardinality(Permitted)
      /\ Cardinality(Rejected)' = Cardinality(Rejected) /\ CodersOwned'
  <2>1. /\ One(stream'[s].at = "open") = 0 /\ One(stream[s].at = "open") = 0
        /\ One(stream'[s].at \in {"open", "get"}) = 0 /\ One(stream[s].at \in {"open", "get"}) = 0
        /\ One(stream'[s].at = "rejected") = 0 /\ One(stream[s].at = "rejected") = 0
    BY Zenon, <1>1, <1>2 DEF One
  <2>2. QED
    BY <1>2, <2>1, StreamMoves
<1>5. \A t \in Open' : t \in Open /\ stream'[t].coder = stream[t].coder
  BY Zenon, <1>2 DEF Open
<1>6. CodersExclusive'
  BY Zenon, <1>3, <1>4, <1>5 DEF PoolInv, CodersExclusive, Bounded
<1>7. PoolTypeOK'
  BY Zenon, <1>2, <1>3 DEF PoolInv, PoolTypeOK, StreamState
<1>8. QED
  BY Zenon, <1>4, <1>6, <1>7 DEF PoolInv

(* A call that has failed gives back the permit that it had, if any. *)
LEMMA RejectionPreserves ==
  ASSUME PoolInv, NEW s \in Streams, stream[s].at \in {"acquire", "get"},
         stream' = [stream EXCEPT ![s] = Idle("rejected")],
         coderSem' = IF Bounded THEN coderSem + One(stream[s].at = "get") ELSE coderSem,
         poolMetrics' = [poolMetrics EXCEPT !.rejections = @ + 1],
         UNCHANGED <<poolBound, coderPool, coders>>
  PROVE  PoolInv'
<1>1. /\ stream[s] \in StreamState /\ stream \in [Streams -> StreamState] /\ coderSem \in Int /\ poolBound \in Nat
      /\ poolMetrics \in [acquisitions : Int, rejections : Int, releases : Int]
  BY Zenon, StreamOpen
<1>2. /\ stream'[s].at = "rejected" /\ stream'[s].coder = NoCoder /\ stream' \in [Streams -> StreamState]
      /\ \A t \in Streams : t # s => stream'[t] = stream[t]
  BY Zenon, <1>1 DEF Idle, StreamState
<1>3. /\ One(stream'[s].at = "open") = 0 /\ One(stream[s].at = "open") = 0
      /\ One(stream'[s].at \in {"open", "get"}) = 0 /\ One(stream[s].at \in {"open", "get"}) = One(stream[s].at = "get")
      /\ One(stream'[s].at = "rejected") = 1 /\ One(stream[s].at = "rejected") = 0 /\ One(stream[s].at = "get") \in Int
  BY <1>2 DEF One
<1>4. /\ Cardinality(Open)' = Cardinality(Open)
      /\ Cardinality(Permitted)' = Cardinality(Permitted) - One(stream[s].at = "get") /\ Cardinality(Permitted) \in Nat
      /\ Cardinality(Rejected)' = Cardinality(Rejected) + 1 /\ CodersOwned'
  BY <1>2, <1>3, StreamMoves
<1>5. /\ poolMetrics' \in [acquisitions : Int, rejections : Int, releases : Int]
      /\ poolMetrics'.rejections = poolMetrics.rejections + 1
      /\ poolMetrics'.acquisitions = poolMetrics.acquisitions /\ poolMetrics'.releases = poolMetrics.releases
  BY <1>1
<1>6. CodersExclusive'
  <2>1. \A t \in Open' : t \in Open /\ stream'[t].coder = stream[t].coder
    BY Zenon, <1>2 DEF Open
  <2>2. Bounded' => coderSem' + Cardinality(Permitted)' = poolBound'
    BY <1>1, <1>3, <1>4 DEF PoolInv, CodersExclusive, Bounded
  <2>3. QED
    BY <1>4, <1>5, <2>1, <2>2 DEF PoolInv, CodersExclusive
<1>7. PoolTypeOK'
  BY <1>1, <1>2, <1>3, <1>5 DEF PoolInv, PoolTypeOK, StreamState
<1>8. QED
  BY Zenon, <1>4, <1>6, <1>7 DEF PoolInv

(* A coder that cannot be reset is dropped, and its permit released. *)
LEMMA ResetFailsPreserves ==
  ASSUME PoolInv, NEW s \in Streams, ResetFails(s)
  PROVE  PoolInv'
BY RejectionPreserves, Zenon DEF ResetFails, One

(* A permit of the semaphore is taken, or the context is canceled. *)
LEMMA AcquirePreserves ==
  ASSUME PoolInv, NEW s \in Streams, Acquire(s)
  PROVE  PoolInv'
<1>1. /\ stream[s].at = "acquire" /\ stream[s] \in StreamState /\ stream \in [Streams -> StreamState]
      /\ stream[s].coder = NoCoder /\ coderSem \in Int /\ poolBound \in Nat
      /\ poolMetrics \in [acquisitions : Int, rejections : Int, releases : Int]
      /\ UNCHANGED <<poolBound, coderPool, coders>>
  BY Zenon, StreamOpen DEF Acquire
<1>2. CASE /\ coderSem' = IF Bounded THEN coderSem - 1 ELSE coderSem
           /\ stream' = [stream EXCEPT ![s].at = "get"] /\ UNCHANGED poolMetrics
  <2>1. /\ stream'[s].at = "get" /\ stream'[s].coder = NoCoder /\ stream' \in [Streams -> StreamState]
        /\ \A t \in Streams : t # s => stream'[t] = stream[t]
    BY Zenon, <1>1, <1>2 DEF StreamState
  <2>2. /\ One(stream'[s].at = "open") = 0 /\ One(stream[s].at = "open") = 0
        /\ One(stream'[s].at \in {"open", "get"}) = 1 /\ One(stream[s].at \in {"open", "get"}) = 0
        /\ One(stream'[s].at = "rejected") = 0 /\ One(stream[s].at = "rejected") = 0
    BY Zenon, <1>1, <2>1 DEF One
  <2>3. /\ Cardinality(Open)' = Cardinality(Open) /\ Cardinality(Permitted)' = Cardinality(Permitted) + 1
        /\ Cardinality(Rejected)' = Cardinality(Rejected) /\ Cardinality(Permitted) \in Nat /\ CodersOwned'
    BY <2>1, <2>2, StreamMoves
  <2>4. \A t \in Open' : t \in Open /\ stream'[t].coder = stream[t].coder
    BY Zenon, <2>1 DEF Open
  <2>5. Bounded' => coderSem' + Cardinality(Permitted)' = poolBound'
    BY <1>1, <1>2, <2>3 DEF PoolInv, CodersExclusive, Bounded
  <2>6. CodersExclusive'
    BY <1>1, <1>2, <2>3, <2>4, <2>5 DEF PoolInv, CodersExclusive
  <2>7. PoolTypeOK'
    BY <1>1, <1>2, <2>1 DEF PoolInv, PoolTypeOK, StreamState
  <2>8. QED
    BY Zenon, <2>3, <2>6, <2>7 DEF PoolInv
<1>3. CASE /\ stream' = [stream EXCEPT ![s] = Idle("rejected")]
           /\ poolMetrics' = [poolMetrics EXCEPT !.rejections = @ + 1] /\ UNCHANGED coderSem
  <2>1. coderSem' = IF Bounded THEN coderSem + One(stream[s].at = "get") ELSE coderSem
    BY <1>1, <1>3 DEF One
  <2>2. QED
    BY <1>1, <1>3, <2>1, RejectionPreserves, Zenon
<1>4. QED
  BY Zenon, <1>2, <1>3 DEF Acquire

(* A coder is taken from the pool, or a new one is created. *)
LEMMA GetCoderPreserves ==
  ASSUME PoolInv, NEW s \in Streams, GetCoder(s)
  PROVE  PoolInv'
<1>1. /\ stream[s].at = "get" /\ stream[s] \in StreamState /\ stream \in [Streams -> StreamState]
      /\ s \notin Open /\ coders \in Nat /\ coderPool \subseteq 1 .. coders
      /\ poolMetrics \in [acquisitions : Int, rejections : Int, releases : Int]
      /\ UNCHANGED <<poolBound, coderSem>>
  BY Zenon, StreamOpen DEF GetCoder
<1>2. PICK coder \in coderPool \cup {coders + 1} :
        /\ coderPool' = coderPool \ {coder}
        /\ coders' = IF coder > coders THEN coder ELSE coders
        /\ stream' = [stream EXCEPT ![s].at = "open", ![s].coder = coder]
  BY Zenon DEF GetCoder
<1>3. coders' \in Nat /\ coder \in 1 .. coders' /\ coders <= coders' /\ coder # NoCoder
  BY <1>1, <1>2, PoolAssumption
<1>4. StreamState \subseteq StreamState'
  BY <1>1, <1>3 DEF StreamState
<1>5. /\ stream'[s].at = "open" /\ stream'[s].coder = coder /\ stream'[s] \in StreamState'
      /\ \A t \in Streams : t # s => stream'[t] = stream[t]
  BY <1>1, <1>2, <1>3, Zenon DEF StreamState
<1>6. stream' \in [Streams -> StreamState']
  BY Zenon, <1>1, <1>2, <1>4, <1>5
<1>7. /\ One(stream'[s].at = "open") = 1 /\ One(stream[s].at = "open") = 0
      /\ One(stream'[s].at \in {"open", "get"}) = 1 /\ One(stream[s].at \in {"open", "get"}) = 1
      /\ One(stream'[s].at = "rejected") = 0 /\ One(stream[s].at = "rejected") = 0
  BY Zenon, <1>1, <1>5 DEF One
<1>8. /\ Cardinality(Open)' = Cardinality(Open) + 1 /\ Cardinality(Permitted)' = Cardinality(Permitted)
      /\ Cardinality(Rejected)' = Cardinality(Rejected) /\ Cardinality(Open) \in Nat /\ CodersOwned'
  BY <1>3, <1>5, <1>7, StreamMoves
<1>9. /\ poolMetrics' \in [acquisitions : Int, rejections : Int, releases : Int]
      /\ poolMetrics'.acquisitions = poolMetrics.acquisitions + 1
      /\ poolMetrics'.rejections = poolMetrics.rejections /\ poolMetrics'.releases = poolMetrics.releases
  BY SMTT(30), <1>1 DEF GetCoder
<1>10. CodersExclusive'
  <2>1. \A t \in Open : stream'[t].coder = stream[t].coder /\ stream[t].coder \in 1 .. coders
    BY Zenon, <1>1, <1>5, StreamOpen DEF Open
  <2>2. \A t \in Open : stream[t].coder # coder
    BY <1>1, <1>2, <2>1 DEF PoolInv, CodersExclusive
  <2>3. \A t \in Open' : t = s \/ t \in Open
    BY Zenon, <1>5 DEF Open
  <2>4. \A t, u \in Open' : t # u => stream'[t].coder # stream'[u].coder
    BY <1>5, <2>1, <2>2, <2>3 DEF PoolInv, CodersExclusive
  <2>5. \A t \in Open' : stream'[t].coder \notin coderPool'
    <3>1. \A t \in Open : stream[t].coder \notin coderPool
      BY Zenon DEF PoolInv, CodersExclusive
    <3>2. stream'[s].coder \notin coderPool'
      BY <1>2, <1>5
    <3>3. \A t \in Open : stream'[t].coder \notin coderPool'
      <4>1. coderPool' \subseteq coderPool
        BY Zenon, <1>2
      <4>2. QED
        BY Zenon, <2>1, <3>1, <4>1
    <3>4. QED
      BY Zenon, <2>3, <3>2, <3>3
  <2>6. poolMetrics'.acquisitions - poolMetrics'.releases = Cardinality(Open)'
    BY <1>1, <1>8, <1>9 DEF PoolInv, CodersExclusive
  <2>7. QED
    BY Zenon, <1>1, <1>8, <1>9, <2>4, <2>5, <2>6 DEF PoolInv, CodersExclusive, Bounded
<1>11. PoolTypeOK'
  BY <1>1, <1>2, <1>3, <1>6, <1>9 DEF PoolInv, PoolTypeOK
<1>12. QED
  BY Zenon, <1>8, <1>10, <1>11 DEF PoolInv

(* The coder goes back to the pool before the permit is released. *)
LEMMA CloseCoderPreserves ==
  ASSUME PoolInv, NEW s \in Streams, CloseCoder(s), stream[s].coder # NoCoder
  PROVE  PoolInv'
<1>1. /\ stream[s].at = "open" /\ stream[s] \in StreamState /\ stream \in [Streams -> StreamState]
      /\ s \in Open /\ coderSem \in Int /\ poolBound \in Nat /\ coders \in Nat
      /\ coderPool \subseteq 1 .. coders /\ stream[s].coder \in 1 .. coders
      /\ poolMetrics \in [acquisitions : Int, rejections : Int, releases : Int]
  BY Zenon, StreamOpen
<1>2. /\ coderPool' = (IF Bounded THEN coderPool \cup {stream[s].coder} ELSE coderPool)
      /\ coderSem' = (IF Bounded THEN coderSem + 1 ELSE coderSem)
      /\ stream' = [stream EXCEPT ![s] = Idle("closed")]
      /\ UNCHANGED <<poolBound, coders>>
  BY Zenon DEF CloseCoder
<1>3. /\ stream'[s].at = "closed" /\ stream'[s].coder = NoCoder /\ stream' \in [Streams -> StreamState]
      /\ \A t \in Streams : t # s => stream'[t] = stream[t]
  BY Zenon, <1>1, <1>2 DEF Idle, StreamState
<1>4. /\ One(stream'[s].at = "open") = 0 /\ One(stream[s].at = "open") = 1
      /\ One(stream'[s].at \in {"open", "get"}) = 0 /\ One(stream[s].at \in {"open", "get"}) = 1
      /\ One(stream'[s].at = "rejected") = 0 /\ One(stream[s].at = "rejected") = 0
  BY Zenon, <1>1, <1>3 DEF One
<1>5. /\ Cardinality(Open)' = Cardinality(Open) - 1 /\ Cardinality(Permitted)' = Cardinality(Permitted) - 1
      /\ Cardinality(Open) \in Nat /\ Cardinality(Permitted) \in Nat
      /\ Cardinality(Rejected)' = Cardinality(Rejected) /\ CodersOwned'
  BY <1>3, <1>4, StreamMoves
<1>6. /\ poolMetrics' \in [acquisitions : Int, rejections : Int, releases : Int]
      /\ poolMetrics'.releases = poolMetrics.releases + 1
      /\ poolMetrics'.rejections = poolMetrics.rejections /\ poolMetrics'.acquisitions = poolMetrics.acquisitions
  BY SMTT(30), <1>1 DEF CloseCoder
<1>7. CodersExclusive'
  <2>1. \A t \in Open' : t \in Open /\ t # s /\ stream'[t].coder = stream[t].coder
    BY Zenon, <1>3 DEF Open
  <2>2. \A t \in Open' : stream'[t].coder \notin coderPool'
    BY SMTT(30), <1>1, <1>2, <2>1 DEF PoolInv, CodersExclusive
  <2>3. Bounded' => coderSem' + Cardinality(Permitted)' = poolBound'
    BY SMTT(30), <1>1, <1>2, <1>5 DEF PoolInv, CodersExclusive, Bounded
  <2>4. poolMetrics'.acquisitions - poolMetrics'.releases = Cardinality(Open)'
    BY SMTT(30), <1>1, <1>5, <1>6 DEF PoolInv, CodersExclusive
  <2>5. QED
    BY Zenon, <1>5, <1>6, <2>1, <2>2, <2>3, <2>4 DEF PoolInv, CodersExclusive
<1>8. PoolTypeOK'
  <2>1. coderSem' \in Int /\ coderPool' \subseteq 1 .. coders'
    <3>1. CASE Bounded
      <4>1. coderPool' = coderPool \cup {stream[s].coder} /\ coderSem' = coderSem + 1 /\ coders' = coders
        BY Zenon, <1>2, <3>1
      <4>2. coderPool \cup {stream[s].coder} \subseteq 1 .. coders
        BY StreamOpen, <1>1, Zenon
      <4>3. coderSem' \in Int
        BY <1>1, <4>1
      <4>4. QED
        BY Zenon, <4>1, <4>2, <4>3
    <3>2. CASE ~Bounded
      BY Zenon, <1>1, <1>2, <3>2
    <3>3. QED
      BY Zenon, <3>1, <3>2
  <2>2. StreamState' = StreamState
    BY Zenon, <1>2 DEF StreamState
  <2>3. QED
    BY Zenon, <1>1, <1>2, <1>3, <1>6, <2>1, <2>2 DEF PoolInv, PoolTypeOK
<1>9. QED
  BY Zenon, <1>5, <1>7, <1>8 DEF PoolInv

(* However many streams share a pool of encoders or decoders, and however  *)
(* their calls, cancellations and failures interleave, coders are used     *)
(* exclusively and permits of the semaphore are neither lost nor gained.   *)
THEOREM CoderExclusivity == PoolSpec => []CodersExclusive
<1>1. PoolInv /\ [PoolNext]_poolVars => PoolInv'
  <2> SUFFICES ASSUME PoolInv, [PoolNext]_poolVars PROVE PoolInv'
    BY Zenon
  <2>1. CASE UNCHANGED poolVars
    BY Zenon, <2>1 DEF poolVars, PoolInv, PoolTypeOK, StreamState, CodersOwned, CodersExclusive, Open,
       Permitted, Rejected, Bounded
  <2>2. ASSUME NEW s \in Streams, CloseCoder(s) PROVE PoolInv'
    BY Zenon, <2>1, <2>2, CloseCoderPreserves DEF CloseCoder
  <2>3. QED
    BY Zenon, <2>1, <2>2, NewCoderPreserves, AcquirePreserves, GetCoderPreserves,
       ResetFailsPreserves DEF PoolNext
<1>2. PoolInv => CodersExclusive
  BY Zenon DEF PoolInv
<1>3. QED
  BY <1>1, <1>2, PoolInitially, PTL DEF PoolSpec

-----------------------------------------------------------------------------
(* Groups of goroutines. *)
Routine ==
  {routine \in [group : Nat \ {0}, at : {"running", "log", "returned", "ended"}, failed : BOOLEAN] :
     routine.at = "log" => routine.failed}

Group == [parent : Nat, siblingsActive : Int, canceled : BOOLEAN]

(* The routines of a group that have not ended. *)
Active(g) == {r \in DOMAIN routines : routines[r].group = g /\ routines[r].at # "ended"}

ProgramTypeOK ==
  /\ mode \in {"main", "pid1", "local"}
  /\ routines \in Seq(Routine) /\ groups \in Seq(Group)
  /\ \A r \in DOMAIN routines : routines[r].group \in DOMAIN groups
  /\ \A g \in DOMAIN groups : groups[g].parent \in {0} \cup DOMAIN groups
  /\ shutdown \in {"none", "error", "signal", "done"}
  /\ mainRoutine \in {"wait", "shutdown", "exit", "gone"}

(* Counters are right, and what is canceled has no siblings left. *)
SiblingsCounted ==
  \A g \in DOMAIN groups :
    /\ groups[g].siblingsActive = Cardinality(Active(g))
    /\ groups[g].canceled => groups[g].siblingsActive = 0

AllEnded == \A r \in DOMAIN routines : routines[r].at = "ended"

(* Errors are logged before a routine ends, and thus before run() returns. *)
ShutdownReason ==
  /\ mainRoutine # "wait" => AllEnded
  /\ shutdown = "done" => mainRoutine \in {"exit", "gone"} /\ FailedRoutines = {}
  /\ shutdown = "none" => mainRoutine \in {"wait", "shutdown"} /\ \A r \in FailedRoutines : routines[r].at = "log"
  /\ mode = "local" => shutdown # "signal" /\ (shutdown = "error" => FailedRoutines # {})
  /\ exitStatus # "none" => mainRoutine = "gone"
  /\ exitStatus = "0" => shutdown = "done"
  /\ exitStatus = "1" => shutdown \in {"error", "signal"}
  /\ exitStatus \in {"none", "0", "1", "signal"}
  /\ exitStatus = "signal" => shutdown = "signal"

ProgramInv == ProgramTypeOK /\ SiblingsCounted /\ ShutdownReason

(* What the inductive invariant is for. *)
LEMMA ProgramInvImplies == ProgramInv => DependenciesOutliveSiblings
<1> SUFFICES ASSUME ProgramInv PROVE DependenciesOutliveSiblings
  BY Zenon
<1>1. ASSUME NEW r \in DOMAIN routines, Canceled(routines[r].group), groups[routines[r].group].parent # 0,
             NEW s \in DOMAIN routines, routines[s].group = groups[routines[r].group].parent
      PROVE  routines[s].at = "ended"
  <2>1. groups[routines[s].group].canceled /\ routines[s].group \in DOMAIN groups
    BY Zenon, <1>1 DEF Canceled, ProgramInv, ProgramTypeOK
  <2>2. Cardinality(Active(routines[s].group)) = 0
    BY Zenon, <2>1 DEF ProgramInv, SiblingsCounted
  <2>3. IsFiniteSet(Active(routines[s].group))
    BY FS_Interval, FS_Subset DEF Active, ProgramInv, ProgramTypeOK
  <2>4. Active(routines[s].group) = {}
    BY Zenon, <2>2, <2>3, FS_EmptySet
  <2>5. QED
    BY Zenon, <1>1, <2>4 DEF Active
<1>2. QED
  BY Zenon, <1>1 DEF ProgramInv, ShutdownReason, AllEnded, DependenciesOutliveSiblings, FailedRoutines

(* run() has launched the one routine of the outermost group. *)
LEMMA ProgramInitially == ProgramInit => ProgramInv
<1> SUFFICES ASSUME ProgramInit PROVE ProgramInv
  BY Zenon
<1>1. /\ groups = <<NewSiblingsGroup(0)>> /\ routines = <<NewRoutine(1)>>
      /\ NewSiblingsGroup(0) \in Group /\ NewRoutine(1) \in Routine
  BY DEF ProgramInit, NewSiblingsGroup, NewRoutine, Group, Routine
<1>2. /\ DOMAIN groups = {1} /\ groups[1] = NewSiblingsGroup(0) /\ groups \in Seq(Group)
      /\ DOMAIN routines = {1} /\ routines[1] = NewRoutine(1) /\ routines \in Seq(Routine)
  BY <1>1
<1>3. ProgramTypeOK
  BY SMTT(30), <1>2 DEF ProgramTypeOK, ProgramInit, NewSiblingsGroup, NewRoutine
<1>4. Active(1) = {1}
  BY SMTT(30), <1>2 DEF Active, NewRoutine
<1>5. SiblingsCounted
  <2>1. Cardinality(Active(1)) = 1
    BY Zenon, <1>4, FS_Singleton
  <2>2. QED
    BY <1>2, <2>1 DEF SiblingsCounted, NewSiblingsGroup
<1>6. ShutdownReason
  BY SMTT(30), <1>2 DEF ShutdownReason, ProgramInit, AllEnded, FailedRoutines, NewRoutine
<1>7. QED
  BY Zenon, <1>3, <1>5, <1>6 DEF ProgramInv

(* The routines of a group are counted anew if one routine goes on, or is  *)
(* added.                                                                  *)
LEMMA RoutineMoves ==
  ASSUME ProgramInv, NEW r,
         \A t : t # r => (t \in DOMAIN routines <=> t \in DOMAIN routines'),
         \A t \in DOMAIN routines : t # r => routines'[t] = routines[t],
         NEW g
  PROVE  /\ Cardinality(Active(g)') = Cardinality(Active(g)) + One(r \in Active(g)') - One(r \in Active(g))
         /\ Cardinality(Active(g)) \in Nat
         /\ r \in Active(g) => Cardinality(Active(g)) # 0
<1>1. IsFiniteSet(Active(g))
  BY SMTT(30), FS_Interval, FS_Subset DEF Active, ProgramInv, ProgramTypeOK
<1>2. \A t : t # r => (t \in Active(g) <=> t \in Active(g)')
  BY Zenon DEF Active
<1>3. Cardinality(Active(g)) = 0 <=> Active(g) = {}
  BY Zenon, <1>1, FS_EmptySet
<1>4. QED
  BY Zenon, <1>1, <1>2, <1>3, Recount

(* What the invariant says of a routine that has not ended. *)
LEMMA RunningRoutines ==
  ASSUME ProgramInv, NEW r \in DOMAIN routines, routines[r].at # "ended"
  PROVE  /\ routines[r] \in Routine /\ routines[r].group \in DOMAIN groups /\ r \in Active(routines[r].group)
         /\ groups[routines[r].group] \in Group
         /\ ~groups[routines[r].group].canceled
         /\ mainRoutine = "wait" /\ shutdown # "done" /\ exitStatus = "none"
<1>1. routines[r] \in Routine /\ routines[r].group \in DOMAIN groups /\ r \in Active(routines[r].group)
      /\ groups[routines[r].group] \in Group
  BY DEF ProgramInv, ProgramTypeOK, Active
<1>2. Cardinality(Active(routines[r].group)) # 0
  <2>1. IsFiniteSet(Active(routines[r].group))
    <3>1. routines \in Seq(Routine)
      BY Zenon DEF ProgramInv, ProgramTypeOK
    <3>2. IsFiniteSet(DOMAIN routines)
      BY <3>1, FS_Interval
    <3>3. QED
      BY Zenon, <3>2, FS_Subset DEF Active
  <2>2. QED
    BY Zenon, <1>1, <2>1, FS_EmptySet
<1>3. mainRoutine = "wait" /\ shutdown # "done" /\ exitStatus = "none"
  BY Zenon DEF ProgramInv, ShutdownReason, AllEnded
<1>4. QED
  BY Zenon, <1>1, <1>2, <1>3 DEF ProgramInv, SiblingsCounted

(* Appending a routine. *)
LEMMA RoutineAdded ==
  ASSUME ProgramInv, NEW g \in Nat \ {0}, routines' = Append(routines, NewRoutine(g))
  PROVE  LET n == Len(routines) + 1
         IN  /\ routines' \in Seq(Routine) /\ DOMAIN routines' = DOMAIN routines \cup {n} /\ n \notin DOMAIN routines
             /\ routines'[n] = NewRoutine(g) /\ \A t \in DOMAIN routines : routines'[t] = routines[t]
             /\ FailedRoutines' = FailedRoutines
             /\ \A h : /\ Cardinality(Active(h)') = Cardinality(Active(h)) + One(h = g)
                        /\ Cardinality(Active(h)) \in Nat
<1> DEFINE n == Len(routines) + 1
<1>1. routines \in Seq(Routine) /\ NewRoutine(g) \in Routine
  BY Zenon DEF ProgramInv, ProgramTypeOK, NewRoutine, Routine
<1>2. /\ routines' \in Seq(Routine) /\ DOMAIN routines' = DOMAIN routines \cup {n} /\ n \notin DOMAIN routines
      /\ routines'[n] = NewRoutine(g) /\ \A t \in DOMAIN routines : routines'[t] = routines[t]
  BY SMTT(30), <1>1
<1>3. FailedRoutines' = FailedRoutines
  BY <1>2 DEF FailedRoutines, NewRoutine
<1> HIDE DEF n
<1>4. ASSUME NEW h
      PROVE  Cardinality(Active(h)') = Cardinality(Active(h)) + One(h = g) /\ Cardinality(Active(h)) \in Nat
  <2>1. /\ Cardinality(Active(h)') = Cardinality(Active(h)) + One(n \in Active(h)') - One(n \in Active(h))
        /\ Cardinality(Active(h)) \in Nat
    BY ZenonT(30), <1>2, RoutineMoves
  <2>2. (n \in Active(h)' <=> h = g) /\ n \notin Active(h)
    BY <1>2 DEF Active, NewRoutine
  <2>3. QED
    BY <2>1, <2>2 DEF One
<1>5. QED
  BY Zenon, <1>2, <1>3, <1>4 DEF n

GroupAfter(group, active, canceled) == [group EXCEPT !.siblingsActive = active, !.canceled = canceled]

(* The fields of a group whose counter is updated. *)
LEMMA GroupChanges ==
  ASSUME NEW group \in Group, NEW active \in Int, NEW canceled \in BOOLEAN
  PROVE  LET after == GroupAfter(group, active, canceled)
         IN  /\ after \in Group /\ after.parent = group.parent
             /\ after.siblingsActive = active /\ after.canceled = canceled
BY Zenon DEF Group, GroupAfter

(* The decrement when a routine ends, and the cancelation at zero. *)
LEMMA GroupShrinks ==
  ASSUME NEW group \in Group
  PROVE  LET after == GroupAfter(group, group.siblingsActive - 1, group.siblingsActive = 1)
         IN  /\ after \in Group /\ after.parent = group.parent
             /\ after.siblingsActive = group.siblingsActive - 1
             /\ after.canceled <=> group.siblingsActive = 1
<1> DEFINE active == group.siblingsActive - 1
           canceled == group.siblingsActive = 1
<1>1. active \in Int /\ canceled \in BOOLEAN
  BY DEF Group
<1>2. canceled <=> group.siblingsActive = 1
  BY Zenon
<1> HIDE DEF active, canceled
<1> DEFINE after == GroupAfter(group, active, canceled)
<1>3. /\ after \in Group /\ after.parent = group.parent
      /\ after.siblingsActive = active /\ after.canceled = canceled
  BY Zenon, <1>1, GroupChanges
<1> HIDE DEF after
<1>4. /\ after \in Group /\ after.parent = group.parent
      /\ after.siblingsActive = group.siblingsActive - 1
      /\ after.canceled <=> group.siblingsActive = 1
  BY Zenon, <1>2, <1>3 DEF active
<1>5. QED
  BY Zenon, <1>4 DEF after, active, canceled

(* The increment when a routine is launched. *)
LEMMA GroupGrows ==
  ASSUME NEW group \in Group
  PROVE  LET after == [group EXCEPT !.siblingsActive = group.siblingsActive + 1]
         IN  /\ after \in Group /\ after.parent = group.parent /\ after.canceled = group.canceled
             /\ after.siblingsActive = group.siblingsActive + 1
BY DEF Group

(* A routine launches another one in its own group. *)
LEMMA GoSiblingPreserves ==
  ASSUME ProgramInv, NEW r, GoSibling(r)
  PROVE  ProgramInv'
<1> DEFINE g == routines[r].group
<1>1. r \in DOMAIN routines /\ routines[r].at # "ended"
  BY Zenon DEF GoSibling, Running
<1>2. /\ g \in DOMAIN groups /\ groups[g] \in Group /\ ~groups[g].canceled /\ g \in Nat \ {0}
      /\ mainRoutine = "wait" /\ shutdown # "done" /\ exitStatus = "none" /\ groups \in Seq(Group)
  BY Zenon, <1>1, RunningRoutines DEF Routine, ProgramInv, ProgramTypeOK
<1>3. /\ groups' = [groups EXCEPT ![g].siblingsActive = @ + 1] /\ routines' = Append(routines, NewRoutine(g))
      /\ UNCHANGED <<mode, parentProcess, contextCanceled, shutdown, signalled, mainRoutine, exitStatus>>
  BY Zenon DEF GoSibling
<1> HIDE DEF g
<1>4. /\ groups' \in Seq(Group) /\ DOMAIN groups' = DOMAIN groups
      /\ \A h \in DOMAIN groups : /\ groups'[h].parent = groups[h].parent /\ groups'[h].canceled = groups[h].canceled
                                  /\ groups'[h].siblingsActive = IF h = g THEN groups[h].siblingsActive + 1 ELSE groups[h].siblingsActive
  <2>1. /\ DOMAIN groups' = DOMAIN groups /\ groups'[g] = [groups[g] EXCEPT !.siblingsActive = groups[g].siblingsActive + 1]
        /\ \A h \in DOMAIN groups : h # g => groups'[h] = groups[h]
    BY Zenon, <1>2, <1>3
  <2>2. /\ groups'[g] \in Group /\ groups'[g].parent = groups[g].parent /\ groups'[g].canceled = groups[g].canceled
        /\ groups'[g].siblingsActive = groups[g].siblingsActive + 1
    BY Zenon, <1>2, <2>1, GroupGrows
  <2>3. groups' \in Seq(Group)
    <3>1. groups' = [groups EXCEPT ![g] = groups'[g]] /\ g \in 1 .. Len(groups)
      BY <1>2, <1>3, <2>1
    <3>2. QED
      BY <1>2, <2>2, <3>1, ExceptSeq
  <2>4. QED
    BY <2>1, <2>2, <2>3, Zenon
<1>5. ProgramTypeOK'
  <2>1. \A t \in DOMAIN routines' : routines'[t].group \in DOMAIN groups'
    BY SMTT(30), <1>2, <1>3, <1>4, RoutineAdded DEF ProgramInv, ProgramTypeOK, NewRoutine
  <2>2. \A h \in DOMAIN groups' : groups'[h].parent \in {0} \cup DOMAIN groups'
    BY Zenon, <1>4 DEF ProgramInv, ProgramTypeOK
  <2>3. QED
    BY Zenon, <1>2, <1>3, <1>4, <2>1, <2>2, RoutineAdded DEF ProgramInv, ProgramTypeOK
<1>6. SiblingsCounted'
  <2> SUFFICES ASSUME NEW h \in DOMAIN groups
               PROVE  /\ groups'[h].siblingsActive = Cardinality(Active(h)')
                      /\ groups'[h].canceled => groups'[h].siblingsActive = 0
    BY Zenon, <1>4 DEF SiblingsCounted
  <2>1. Cardinality(Active(h)') = Cardinality(Active(h)) + One(h = g) /\ Cardinality(Active(h)) \in Nat
    BY Zenon, <1>2, <1>3, RoutineAdded
  <2>2. /\ groups[h].siblingsActive = Cardinality(Active(h))
        /\ groups[h].canceled => groups[h].siblingsActive = 0
    BY Zenon DEF ProgramInv, SiblingsCounted
  <2>3. CASE h = g
    BY Zenon, <1>2, <1>4, <2>1, <2>2, <2>3 DEF One
  <2>4. CASE h # g
    BY <1>4, <2>1, <2>2, <2>4 DEF One
  <2>5. QED
    BY Zenon, <2>3, <2>4
<1>7. ShutdownReason'
  <2>1. FailedRoutines' = FailedRoutines /\ \A t \in DOMAIN routines : routines'[t] = routines[t]
    BY Zenon, <1>2, <1>3, RoutineAdded
  <2>2. QED
    BY Zenon, <1>2, <1>3, <2>1 DEF ProgramInv, ShutdownReason, FailedRoutines
<1>8. QED
  BY Zenon, <1>5, <1>6, <1>7 DEF ProgramInv

(* A routine launches a dependency, for which there is a group of its own. *)
LEMMA GoDependencyPreserves ==
  ASSUME ProgramInv, NEW r, GoDependency(r)
  PROVE  ProgramInv'
<1> DEFINE g == Len(groups) + 1
<1>1. r \in DOMAIN routines /\ routines[r].at # "ended"
  BY Zenon DEF GoDependency, Running
<1>2. /\ routines[r].group \in DOMAIN groups /\ routines[r].group \in Nat
      /\ mainRoutine = "wait" /\ shutdown # "done" /\ exitStatus = "none" /\ groups \in Seq(Group)
  BY Zenon, <1>1, RunningRoutines DEF Routine, ProgramInv, ProgramTypeOK
<1>3. /\ groups' = Append(groups, NewSiblingsGroup(routines[r].group)) /\ routines' = Append(routines, NewRoutine(g))
      /\ UNCHANGED <<mode, parentProcess, contextCanceled, shutdown, signalled, mainRoutine, exitStatus>>
  BY Zenon DEF GoDependency
<1>4. NewSiblingsGroup(routines[r].group) \in Group
  BY <1>2 DEF NewSiblingsGroup, Group
<1>5. /\ groups' \in Seq(Group) /\ DOMAIN groups' = DOMAIN groups \cup {g} /\ g \notin DOMAIN groups /\ g \in Nat \ {0}
      /\ groups'[g] = NewSiblingsGroup(routines[r].group) /\ \A h \in DOMAIN groups : groups'[h] = groups[h]
  BY SMTT(30), <1>2, <1>3, <1>4
<1> HIDE DEF g
<1>6. ProgramTypeOK'
  <2>1. \A t \in DOMAIN routines' : routines'[t].group \in DOMAIN groups'
    BY SMTT(30), <1>3, <1>5, RoutineAdded DEF ProgramInv, ProgramTypeOK, NewRoutine
  <2>2. \A h \in DOMAIN groups' : groups'[h].parent \in {0} \cup DOMAIN groups'
    BY <1>2, <1>5 DEF ProgramInv, ProgramTypeOK, NewSiblingsGroup
  <2>3. QED
    BY ZenonT(30), <1>2, <1>3, <1>5, <2>1, <2>2, RoutineAdded DEF ProgramInv, ProgramTypeOK
<1>7. SiblingsCounted'
  <2> SUFFICES ASSUME NEW h \in DOMAIN groups'
               PROVE  /\ groups'[h].siblingsActive = Cardinality(Active(h)')
                      /\ groups'[h].canceled => groups'[h].siblingsActive = 0
    BY Zenon DEF SiblingsCounted
  <2>1. Cardinality(Active(h)') = Cardinality(Active(h)) + One(h = g) /\ Cardinality(Active(h)) \in Nat
    BY Zenon, <1>3, <1>5, RoutineAdded
  <2>2. CASE h = g
    <3>1. Active(g) = {}
      BY Zenon, <1>5 DEF Active, ProgramInv, ProgramTypeOK
    <3>2. Cardinality(Active(h)') = 1
      BY SMTT(30), <2>1, <2>2, <3>1, FS_EmptySet DEF One
    <3>3. QED
      BY SMTT(30), <1>5, <2>2, <3>2 DEF NewSiblingsGroup
  <2>3. CASE h # g
    BY SMTT(30), <1>5, <2>1, <2>3 DEF ProgramInv, SiblingsCounted, One
  <2>4. QED
    BY Zenon, <2>2, <2>3
<1>8. ShutdownReason'
  <2>1. FailedRoutines' = FailedRoutines /\ \A t \in DOMAIN routines : routines'[t] = routines[t]
    BY Zenon, <1>3, <1>5, RoutineAdded
  <2>2. QED
    BY Zenon, <1>2, <1>3, <2>1 DEF ProgramInv, ShutdownReason, FailedRoutines
<1>9. QED
  BY Zenon, <1>6, <1>7, <1>8 DEF ProgramInv

(* A routine goes on. *)
LEMMA RoutineGoesOn ==
  ASSUME ProgramInv, NEW r \in DOMAIN routines, routines[r].at # "ended",
         NEW after \in Routine, after.group = routines[r].group, routines' = [routines EXCEPT ![r] = after]
  PROVE  /\ routines' \in Seq(Routine) /\ DOMAIN routines' = DOMAIN routines /\ routines'[r] = after
         /\ \A t \in DOMAIN routines : t # r => routines'[t] = routines[t]
         /\ \A g : /\ Cardinality(Active(g)') = Cardinality(Active(g)) - One(after.at = "ended" /\ g = after.group)
                    /\ Cardinality(Active(g)) \in Nat
<1>1. routines \in Seq(Routine) /\ r \in 1 .. Len(routines)
  BY DEF ProgramInv, ProgramTypeOK
<1>2. /\ routines' \in Seq(Routine) /\ DOMAIN routines' = DOMAIN routines /\ routines'[r] = after
      /\ \A t \in DOMAIN routines : t # r => routines'[t] = routines[t]
  BY Zenon, <1>1, ExceptSeq
<1>3. ASSUME NEW g
      PROVE  /\ Cardinality(Active(g)') = Cardinality(Active(g)) - One(after.at = "ended" /\ g = after.group)
             /\ Cardinality(Active(g)) \in Nat
  <2>1. /\ Cardinality(Active(g)') = Cardinality(Active(g)) + One(r \in Active(g)') - One(r \in Active(g))
        /\ Cardinality(Active(g)) \in Nat
    BY Zenon, <1>2, RoutineMoves
  <2>2. /\ r \in Active(g)' <=> after.at # "ended" /\ g = after.group
        /\ r \in Active(g) <=> g = after.group
    BY Zenon, <1>2 DEF Active
  <2>3. QED
    BY SMTT(30), <2>1, <2>2 DEF One
<1>4. QED
  BY Zenon, <1>2, <1>3

(* The fields of a routine that goes on. *)
LEMMA RoutineChanges ==
  ASSUME NEW routine \in Routine
  PROVE  /\ \A at \in {"returned", "ended"} :
              LET after == [routine EXCEPT !.at = at]
              IN  after \in Routine /\ after.group = routine.group /\ after.at = at /\ after.failed = routine.failed
         /\ LET after == [routine EXCEPT !.at = "log", !.failed = TRUE]
             IN  after \in Routine /\ after.group = routine.group /\ after.at = "log" /\ after.failed = TRUE
BY Zenon DEF Routine

(* A routine that does not end leaves the groups alone. *)
LEMMA RoutineAdvances ==
  ASSUME ProgramInv, NEW r \in DOMAIN routines, routines[r].at # "ended",
         NEW after \in Routine, after.group = routines[r].group, after.at # "ended",
         routines' = [routines EXCEPT ![r] = after],
         UNCHANGED <<mode, groups, mainRoutine>>, shutdown' \in {"none", "error", "signal", "done"}
  PROVE  ProgramTypeOK' /\ SiblingsCounted'
<1>1. /\ routines' \in Seq(Routine) /\ DOMAIN routines' = DOMAIN routines /\ routines'[r] = after
      /\ \A t \in DOMAIN routines : t # r => routines'[t] = routines[t]
      /\ \A g : /\ Cardinality(Active(g)') = Cardinality(Active(g)) - One(after.at = "ended" /\ g = after.group)
                 /\ Cardinality(Active(g)) \in Nat
  BY Zenon, RoutineGoesOn
<1>2. ProgramTypeOK'
  <2>1. \A t \in DOMAIN routines' : routines'[t].group \in DOMAIN groups'
    BY Zenon, <1>1 DEF ProgramInv, ProgramTypeOK
  <2>2. QED
    BY Zenon, <1>1, <2>1 DEF ProgramInv, ProgramTypeOK
<1>3. \A g : Cardinality(Active(g)') = Cardinality(Active(g))
  BY <1>1 DEF One
<1>4. SiblingsCounted'
  BY Zenon, <1>3 DEF ProgramInv, SiblingsCounted
<1>5. QED
  BY Zenon, <1>2, <1>4

(* A routine returns without an error. *)
LEMMA RoutineReturnsPreserves ==
  ASSUME ProgramInv, NEW r, RoutineReturns(r)
  PROVE  ProgramInv'
<1> DEFINE after == [routines[r] EXCEPT !.at = "returned"]
<1>1. r \in DOMAIN routines /\ routines[r].at = "running"
  BY Zenon DEF RoutineReturns, Running
<1>2. /\ routines[r] \in Routine /\ mainRoutine = "wait" /\ shutdown # "done" /\ exitStatus = "none"
  BY Zenon, <1>1, RunningRoutines
<1>3. /\ after \in Routine /\ after.group = routines[r].group /\ after.at = "returned"
      /\ after.failed = routines[r].failed
  BY <1>2, RoutineChanges, Zenon
<1>4. routines' = [routines EXCEPT ![r] = after] /\ UNCHANGED <<mode, groups, mainRoutine, shutdown, exitStatus>>
  BY Zenon DEF RoutineReturns
<1> HIDE DEF after
<1>5. shutdown' \in {"none", "error", "signal", "done"}
  BY Zenon, <1>4 DEF ProgramInv, ProgramTypeOK
<1>6. ProgramTypeOK' /\ SiblingsCounted'
  BY ZenonT(30), <1>1, <1>3, <1>4, <1>5, RoutineAdvances
<1>7. /\ DOMAIN routines' = DOMAIN routines /\ routines'[r] = after
      /\ \A t \in DOMAIN routines : t # r => routines'[t] = routines[t]
  BY Zenon, <1>1, <1>3, <1>4, RoutineGoesOn
<1>8. ShutdownReason'
  <2>1. FailedRoutines' = FailedRoutines
    BY Zenon, <1>1, <1>3, <1>7 DEF FailedRoutines
  <2>2. shutdown = "none" => \A t \in FailedRoutines : routines'[t].at = "log"
    BY Zenon, <1>1, <1>7 DEF ProgramInv, ShutdownReason, FailedRoutines
  <2>3. QED
    BY Zenon, <1>2, <1>4, <2>1, <2>2 DEF ProgramInv, ShutdownReason
<1>9. QED
  BY Zenon, <1>6, <1>8 DEF ProgramInv

(* A routine returns an error. *)
LEMMA RoutineFailsPreserves ==
  ASSUME ProgramInv, NEW r, RoutineFails(r)
  PROVE  ProgramInv'
<1> DEFINE after == [routines[r] EXCEPT !.at = "log", !.failed = TRUE]
<1>1. r \in DOMAIN routines /\ routines[r].at = "running"
  BY Zenon DEF RoutineFails, Running
<1>2. /\ routines[r] \in Routine /\ mainRoutine = "wait" /\ shutdown # "done" /\ exitStatus = "none"
  BY Zenon, <1>1, RunningRoutines
<1>3. after \in Routine /\ after.group = routines[r].group /\ after.at = "log" /\ after.failed
  BY <1>2, RoutineChanges, Zenon
<1>4. routines' = [routines EXCEPT ![r] = after] /\ UNCHANGED <<mode, groups, mainRoutine, shutdown, exitStatus>>
  BY Zenon DEF RoutineFails
<1> HIDE DEF after
<1>5. shutdown' \in {"none", "error", "signal", "done"}
  BY Zenon, <1>4 DEF ProgramInv, ProgramTypeOK
<1>6. ProgramTypeOK' /\ SiblingsCounted'
  BY Zenon, <1>1, <1>3, <1>4, <1>5, RoutineAdvances
<1>7. /\ DOMAIN routines' = DOMAIN routines /\ routines'[r] = after
      /\ \A t \in DOMAIN routines : t # r => routines'[t] = routines[t]
  BY Zenon, <1>1, <1>3, <1>4, RoutineGoesOn
<1>8. ShutdownReason'
  <2>1. FailedRoutines' = FailedRoutines \cup {r}
    BY Zenon, <1>1, <1>3, <1>7 DEF FailedRoutines
  <2>2. shutdown = "none" => \A t \in FailedRoutines' : routines'[t].at = "log"
    BY Zenon, <1>3, <1>7, <2>1 DEF ProgramInv, ShutdownReason, FailedRoutines
  <2>3. QED
    BY Zenon, <1>2, <1>4, <2>1, <2>2 DEF ProgramInv, ShutdownReason
<1>9. QED
  BY Zenon, <1>6, <1>8 DEF ProgramInv

(* The error of a routine is logged, which may start the shutdown. *)
LEMMA LogErrorPreserves ==
  ASSUME ProgramInv, NEW r, LogError(r)
  PROVE  ProgramInv'
<1> DEFINE after == [routines[r] EXCEPT !.at = "returned"]
<1>1. r \in DOMAIN routines /\ routines[r].at = "log"
  BY Zenon DEF LogError
<1>2. /\ routines[r] \in Routine /\ mainRoutine = "wait" /\ shutdown # "done" /\ exitStatus = "none"
  BY Zenon, <1>1, RunningRoutines
<1>3. /\ after \in Routine /\ after.group = routines[r].group /\ after.at = "returned"
      /\ after.failed = routines[r].failed
  BY <1>2, RoutineChanges, Zenon
<1>4. routines' = [routines EXCEPT ![r] = after] /\ UNCHANGED <<mode, groups, mainRoutine, exitStatus>>
  BY Zenon DEF LogError
<1> HIDE DEF after
<1>5. /\ shutdown' \in {"error", "signal"}
      /\ mode = "local" => shutdown' = "error"
  BY Zenon, <1>2 DEF LogError, StartShutdown, ProgramInv, ProgramTypeOK, ShutdownReason
<1>6. ProgramTypeOK' /\ SiblingsCounted'
  BY ZenonT(30), <1>1, <1>3, <1>4, <1>5, RoutineAdvances
<1>7. /\ DOMAIN routines' = DOMAIN routines /\ routines'[r] = after
      /\ \A t \in DOMAIN routines : t # r => routines'[t] = routines[t]
  BY Zenon, <1>1, <1>3, <1>4, RoutineGoesOn
<1>8. ShutdownReason'
  <2>1. FailedRoutines' = FailedRoutines /\ r \in FailedRoutines
    BY Zenon, <1>1, <1>2, <1>3, <1>7 DEF FailedRoutines, Routine
  <2>2. QED
    BY Zenon, <1>2, <1>4, <1>5, <2>1 DEF ProgramInv, ShutdownReason
<1>9. QED
  BY Zenon, <1>6, <1>8 DEF ProgramInv

(* A routine leaves its group, and cancels it if it was the last one. *)
LEMMA RoutineEndsPreserves ==
  ASSUME ProgramInv, NEW r, RoutineEnds(r)
  PROVE  ProgramInv'
<1> DEFINE after == [routines[r] EXCEPT !.at = "ended"]
           g == routines[r].group
           left == GroupAfter(groups[g], groups[g].siblingsActive - 1, groups[g].siblingsActive = 1)
<1>1. r \in DOMAIN routines /\ routines[r].at = "returned"
  BY Zenon DEF RoutineEnds
<1>2. /\ routines[r] \in Routine /\ mainRoutine = "wait" /\ shutdown # "done" /\ exitStatus = "none"
      /\ g \in DOMAIN groups /\ groups[g] \in Group /\ groups \in Seq(Group)
  BY Zenon, <1>1, RunningRoutines DEF ProgramInv, ProgramTypeOK
<1>3. /\ after \in Routine /\ after.group = g /\ after.at = "ended" /\ after.failed = routines[r].failed
  BY <1>2, RoutineChanges, Zenon
<1>4. /\ left \in Group /\ left.parent = groups[g].parent /\ left.siblingsActive = groups[g].siblingsActive - 1
      /\ left.canceled <=> groups[g].siblingsActive = 1
  BY <1>2, GroupShrinks, Zenon
<1>5. /\ routines' = [routines EXCEPT ![r] = after] /\ groups' = [groups EXCEPT ![g] = left]
      /\ UNCHANGED <<mode, mainRoutine, shutdown, exitStatus>>
  BY <1>2, Zenon DEF RoutineEnds, GroupAfter
<1> HIDE DEF after, left
<1>6. /\ routines' \in Seq(Routine) /\ DOMAIN routines' = DOMAIN routines /\ routines'[r] = after
      /\ \A t \in DOMAIN routines : t # r => routines'[t] = routines[t]
      /\ \A h : /\ Cardinality(Active(h)') = Cardinality(Active(h)) - One(after.at = "ended" /\ h = after.group)
                 /\ Cardinality(Active(h)) \in Nat
  BY ZenonT(30), <1>1, <1>3, <1>5, RoutineGoesOn
<1> HIDE DEF g
<1>7. /\ groups' \in Seq(Group) /\ DOMAIN groups' = DOMAIN groups /\ groups'[g] = left
      /\ \A h \in DOMAIN groups : h # g => groups'[h] = groups[h]
  BY SMTT(30), <1>2, <1>4, <1>5, ExceptSeq
<1>8. ProgramTypeOK'
  <2>1. \A t \in DOMAIN routines' : routines'[t].group \in DOMAIN groups'
    BY Zenon, <1>1, <1>2, <1>3, <1>6, <1>7 DEF ProgramInv, ProgramTypeOK
  <2>2. \A h \in DOMAIN groups' : groups'[h].parent \in {0} \cup DOMAIN groups'
    BY ZenonT(30), <1>2, <1>4, <1>7 DEF ProgramInv, ProgramTypeOK
  <2>3. QED
    BY Zenon, <1>5, <1>6, <1>7, <2>1, <2>2 DEF ProgramInv, ProgramTypeOK
<1>9. SiblingsCounted'
  <2> SUFFICES ASSUME NEW h \in DOMAIN groups
               PROVE  /\ groups'[h].siblingsActive = Cardinality(Active(h)')
                      /\ groups'[h].canceled => groups'[h].siblingsActive = 0
    BY Zenon, <1>7 DEF SiblingsCounted
  <2>1. /\ groups[h].siblingsActive = Cardinality(Active(h))
        /\ groups[h].canceled => groups[h].siblingsActive = 0
    BY Zenon DEF ProgramInv, SiblingsCounted
  <2>2. CASE h = g
    <3>1. Cardinality(Active(h)') = Cardinality(Active(h)) - 1 /\ Cardinality(Active(h)) \in Nat
      BY Zenon, <1>3, <1>6, <2>2 DEF One
    <3>2. PICK n : n = Cardinality(Active(h))
      BY Zenon
    <3>3. groups[g].siblingsActive = n /\ n \in Nat /\ Cardinality(Active(h)') = n - 1
      BY Zenon, <2>1, <2>2, <3>1, <3>2
    <3>4. /\ groups'[h] = left /\ left.siblingsActive = n - 1 /\ (left.canceled <=> n = 1)
      BY ZenonT(30), <1>4, <1>7, <2>2, <3>3
    <3>5. n = 1 => n - 1 = 0
      BY ONLY <3>3, SMT
    <3>6. QED
      BY ZenonT(30), <3>3, <3>4, <3>5
  <2>3. CASE h # g
    <3>1. Cardinality(Active(h)') = Cardinality(Active(h))
      BY SMTT(30), <1>3, <1>6, <2>3 DEF One
    <3>2. QED
      BY ZenonT(30), <1>7, <2>1, <2>3, <3>1
  <2>4. QED
    BY Zenon, <2>2, <2>3
<1>10. ShutdownReason'
  <2>1. FailedRoutines' = FailedRoutines
    BY Zenon, <1>1, <1>3, <1>6 DEF FailedRoutines
  <2>2. shutdown = "none" => \A t \in FailedRoutines : routines'[t].at = "log"
    BY Zenon, <1>1, <1>6 DEF ProgramInv, ShutdownReason, FailedRoutines
  <2>3. QED
    BY Zenon, <1>2, <1>5, <2>1, <2>2 DEF ProgramInv, ShutdownReason
<1>11. QED
  BY Zenon, <1>8, <1>9, <1>10 DEF ProgramInv

(* What the goroutines other than the routines do leaves these and their   *)
(* groups alone.                                                           *)
LEMMA ElsewherePreserves ==
  ASSUME ProgramInv, UNCHANGED <<mode, routines, groups>>,
         ReceiveSignal \/ ForwardSignals \/ RunReturns \/ FinalShutdown \/ Exit \/ ParentExits \/ UNCHANGED programVars
  PROVE  ProgramInv'
<1>1. SiblingsCounted' /\ FailedRoutines' = FailedRoutines /\ AllEnded' = AllEnded
  BY Zenon DEF ProgramInv, SiblingsCounted, Active, FailedRoutines, AllEnded
<1>2. CASE ReceiveSignal
  BY Zenon, <1>1, <1>2 DEF ReceiveSignal, StartShutdown, ProgramInv, ProgramTypeOK, ShutdownReason
<1>3. CASE ForwardSignals
  BY Zenon, <1>1, <1>3 DEF ForwardSignals, ProgramInv, ProgramTypeOK, ShutdownReason
<1>4. CASE RunReturns
  <2>1. AllEnded
    <3> SUFFICES ASSUME NEW r \in DOMAIN routines, routines[r].at # "ended" PROVE FALSE
      BY Zenon DEF AllEnded
    <3>1. routines[r].group \in DOMAIN groups /\ r \in Active(routines[r].group)
      BY Zenon, RunningRoutines
    <3>2. Cardinality(Active(routines[r].group)) = 0
      BY <1>4, <3>1, ZenonT(30) DEF RunReturns, ProgramInv, SiblingsCounted
    <3>3. IsFiniteSet(Active(routines[r].group))
      <4>1. DOMAIN routines = 1 .. Len(routines) /\ Len(routines) \in Nat
        BY DEF ProgramInv, ProgramTypeOK
      <4>2. IsFiniteSet(DOMAIN routines)
        BY <4>1, FS_Interval, SMTT(30)
      <4>3. Active(routines[r].group) \subseteq DOMAIN routines
        BY ZenonT(30) DEF Active
      <4>4. QED
        BY ZenonT(30), <4>2, <4>3, FS_Subset
    <3>4. QED
      BY Zenon, <3>1, <3>2, <3>3, FS_EmptySet
  <2>2. QED
    BY Zenon, <1>1, <1>4, <2>1 DEF RunReturns, ProgramInv, ProgramTypeOK, ShutdownReason
<1>5. CASE FinalShutdown
  <2>1. shutdown = "none" => FailedRoutines = {}
    BY Zenon, <1>5 DEF FinalShutdown, ProgramInv, ShutdownReason, AllEnded, FailedRoutines
  <2>2. QED
    BY Zenon, <1>1, <1>5, <2>1 DEF FinalShutdown, StartShutdown, ProgramInv, ProgramTypeOK, ShutdownReason
<1>6. CASE Exit
  BY Zenon, <1>1, <1>6 DEF Exit, ProgramInv, ProgramTypeOK, ShutdownReason
<1>7. CASE ParentExits
  BY Zenon, <1>1, <1>7 DEF ParentExits, ProgramInv, ProgramTypeOK, ShutdownReason
<1>8. CASE UNCHANGED programVars
  BY Zenon, <1>1, <1>8 DEF programVars, ProgramInv, ProgramTypeOK, ShutdownReason
<1>9. QED
  BY Zenon, <1>2, <1>3, <1>4, <1>5, <1>6, <1>7, <1>8

(* Routines are only canceled after all of the routines that depend on     *)
(* them have returned, and the status with which a program exits tells     *)
(* whether one of them failed.                                             *)
THEOREM DependencyOrder == ProgramSpec => []DependenciesOutliveSiblings
<1>1. ProgramInv /\ [ProgramNext]_programVars => ProgramInv'
  <2> SUFFICES ASSUME ProgramInv, [ProgramNext]_programVars PROVE ProgramInv'
    BY Zenon
  <2>1. ASSUME NEW r, GoSibling(r) \/ GoDependency(r) \/ RoutineReturns(r) \/ RoutineFails(r) \/ LogError(r) \/ RoutineEnds(r)
        PROVE  ProgramInv'
    BY Zenon, <2>1, GoSiblingPreserves, GoDependencyPreserves, RoutineReturnsPreserves,
       RoutineFailsPreserves,
       LogErrorPreserves, RoutineEndsPreserves
  <2>2. CASE ReceiveSignal \/ ForwardSignals \/ RunReturns \/ FinalShutdown \/ Exit \/ ParentExits \/ UNCHANGED programVars
    <3>1. UNCHANGED <<mode, routines, groups>>
      BY Zenon, <2>2 DEF ReceiveSignal, ForwardSignals, RunReturns, FinalShutdown, Exit, ParentExits,
         programVars
    <3>2. QED
      BY Zenon, <2>2, <3>1, ElsewherePreserves
  <2>3. QED
    BY Zenon, <2>1, <2>2 DEF ProgramNext
<1>2. QED
  BY <1>1, ProgramInitially, ProgramInvImplies, PTL DEF ProgramSpec
=============================================================================
