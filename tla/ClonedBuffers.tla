---------------------------- MODULE ClonedBuffers ----------------------------
(***************************************************************************)
(* Buffers that are consumed several times at the same time                *)
(* (pkg/blobstore/buffer): casClonedBuffer gathers the constraints of all  *)
(* consumers before it opens the buffer below, and multiplexedChunkReader  *)
(* then gives every chunk to all of them.  Consumers wait for each other,  *)
(* and may leave at any time.                                              *)
(*                                                                         *)
(* What the chunks contain, and what consumers make of them, is part of    *)
(* module Buffers.                                                         *)
(***************************************************************************)
EXTENDS Integers, FiniteSetsExt

CONSTANTS
  MaxConsumers,           \* bound on the number of times the buffer is cloned
  Chunks,                 \* how many chunks precede the end of the stream, which may be an error
  ChunkSizes              \* the maximum chunk sizes that consumers ask for

ASSUME ConsumersAssumption == MaxConsumers \in Nat \ {0, 1}
ASSUME ChunksAssumption == Chunks \in Nat /\ ChunkSizes \subseteq Nat

Consumers == 1 .. MaxConsumers

VARIABLES
  consumersRemaining,     \* consumers that have not supplied constraints
  needsValidation,
  maximumChunkSizeBytes,  \* -1 if no constraint was supplied
  baseReader,             \* the ChunkReader below: whether it is open, and how it was opened
  chunksRead,
  pendingConsumers,       \* consumers that have to call Read() or Close()
  waitingConsumers,       \* consumers that called Read()
  consumer                \* what each consumer is doing

cloneVars == <<consumersRemaining, needsValidation, maximumChunkSizeBytes, baseReader, chunksRead,
               pendingConsumers, waitingConsumers, consumer>>

NewConsumer(at) == [at |-> at, validate |-> FALSE, maximum |-> 0, received |-> 0]

CloneInit ==
  /\ consumersRemaining = 0
  /\ needsValidation = FALSE
  /\ maximumChunkSizeBytes = -1
  /\ baseReader = [at |-> "none", validated |-> FALSE, maximum |-> 0]
  /\ chunksRead = 0
  /\ pendingConsumers = 0
  /\ waitingConsumers = {}
  /\ consumer = [c \in Consumers |-> NewConsumer("none")]

At(ats) == {c \in Consumers : consumer[c].at \in ats}

-----------------------------------------------------------------------------
(* casClonedBuffer. *)

(* The first call to CloneStream(), of the buffer below, creates a buffer  *)
(* that has two consumers.                                                 *)
NewCASClonedBuffer ==
  /\ At({"none"}) = Consumers
  /\ consumersRemaining' = 2
  /\ consumer' = [c \in Consumers |-> NewConsumer(IF c <= 2 THEN "buffer" ELSE "none")]
  /\ UNCHANGED <<needsValidation, maximumChunkSizeBytes, baseReader, chunksRead, pendingConsumers, waitingConsumers>>

CloneStream(c, d) ==
  /\ consumer[c].at = "buffer" /\ consumer[d].at = "none"
  /\ consumersRemaining' = consumersRemaining + 1
  /\ consumer' = [consumer EXCEPT ![d] = NewConsumer("buffer")]
  /\ UNCHANGED <<needsValidation, maximumChunkSizeBytes, baseReader, chunksRead, pendingConsumers, waitingConsumers>>

(* The last consumer opens the buffer, subject to the constraints of all,  *)
(* and hands it out to the others.                                         *)
ToChunkReader(c, validate, maximum) ==
  LET constrained == [consumer EXCEPT ![c] = [at |-> "constrained", validate |-> validate, maximum |-> maximum, received |-> 0]]
  IN  /\ consumer[c].at = "buffer"
      /\ consumersRemaining' = consumersRemaining - 1
      /\ needsValidation' = (needsValidation \/ validate)
      /\ maximumChunkSizeBytes' =
           IF maximumChunkSizeBytes < 0 THEN maximum ELSE Min({maximumChunkSizeBytes, maximum})
      /\ IF consumersRemaining' = 0
         THEN /\ baseReader' = [at |-> "open", validated |-> needsValidation', maximum |-> maximumChunkSizeBytes']
              /\ pendingConsumers' = 1 + Cardinality(At({"constrained"}))
              /\ consumer' = [d \in Consumers |->
                   IF constrained[d].at = "constrained" THEN [constrained[d] EXCEPT !.at = "reader"] ELSE constrained[d]]
         ELSE consumer' = constrained /\ UNCHANGED <<baseReader, pendingConsumers>>
      /\ UNCHANGED <<chunksRead, waitingConsumers>>

-----------------------------------------------------------------------------
(* multiplexedChunkReader. *)

(* What the ChunkReader below returns goes in the channels of those that   *)
(* wait for it.                                                            *)
Result == IF chunksRead < Chunks THEN "chunk" ELSE "end"

Shared(c, currentConsumerContinues) ==
  [d \in Consumers |->
     CASE d \in waitingConsumers \/ (d = c /\ currentConsumerContinues = 1) -> [consumer[d] EXCEPT !.at = Result]
       [] d = c /\ currentConsumerContinues = 0 -> [consumer[d] EXCEPT !.at = "closed"]
       [] OTHER -> consumer[d]]

(* Mutant: one who closes the reader is counted as one who continues. *)
ReadAndShareWithAll(c, currentConsumerContinues) ==
  /\ chunksRead' = IF Result = "chunk" THEN chunksRead + 1 ELSE chunksRead
  /\ consumer' = Shared(c, currentConsumerContinues)
  /\ pendingConsumers' = Cardinality(waitingConsumers) + 1
  /\ waitingConsumers' = {}

(* Those that wait are pending from now on, even before they receive the   *)
(* result.                                                                 *)
ReadAndShareWithOthers(c, currentConsumerContinues) ==
  /\ chunksRead' = IF Result = "chunk" THEN chunksRead + 1 ELSE chunksRead
  /\ consumer' = Shared(c, currentConsumerContinues)
  /\ pendingConsumers' = Cardinality(waitingConsumers) + currentConsumerContinues
  /\ waitingConsumers' = {}

Read(c) ==
  /\ consumer[c].at = "reader"
  /\ IF pendingConsumers = 1
     THEN ReadAndShareWithOthers(c, 1)
     ELSE /\ pendingConsumers' = pendingConsumers - 1
          /\ waitingConsumers' = waitingConsumers \cup {c}
          /\ consumer' = [consumer EXCEPT ![c].at = "waiting"]
          /\ UNCHANGED chunksRead
  /\ UNCHANGED <<consumersRemaining, needsValidation, maximumChunkSizeBytes, baseReader>>

(* Read() returns. *)
Receive(c) ==
  /\ consumer[c].at \in {"chunk", "end"}
  /\ consumer' = IF consumer[c].at = "chunk"
                 THEN [consumer EXCEPT ![c].at = "reader", ![c].received = @ + 1]
                 ELSE [consumer EXCEPT ![c].at = "ended"]
  /\ UNCHANGED <<consumersRemaining, needsValidation, maximumChunkSizeBytes, baseReader, chunksRead, pendingConsumers, waitingConsumers>>

(* The last one to leave closes the ChunkReader below.  If all others wait *)
(* for this consumer, it reads on their behalf.                            *)
Close(c) ==
  /\ consumer[c].at \in {"reader", "ended"}
  /\ IF pendingConsumers = 1 /\ waitingConsumers # {}
     THEN ReadAndShareWithOthers(c, 0) /\ UNCHANGED baseReader
     ELSE /\ pendingConsumers' = pendingConsumers - 1
          /\ consumer' = [consumer EXCEPT ![c].at = "closed"]
          /\ baseReader' = IF pendingConsumers = 1 THEN [baseReader EXCEPT !.at = "closed"] ELSE baseReader
          /\ UNCHANGED <<chunksRead, waitingConsumers>>
  /\ UNCHANGED <<consumersRemaining, needsValidation, maximumChunkSizeBytes>>

CloneNext ==
  \/ NewCASClonedBuffer
  \/ \E c, d \in Consumers : CloneStream(c, d)
  \/ \E c \in Consumers, validate \in BOOLEAN, maximum \in ChunkSizes : ToChunkReader(c, validate, maximum)
  \/ \E c \in Consumers : Read(c) \/ Receive(c) \/ Close(c)

CloneSpec == CloneInit /\ [][CloneNext]_cloneVars

(* Those that have a buffer consume or discard it, and those that have a   *)
(* reader read or close it, as is required of users of buffers.            *)
CloneFairness ==
  \A c \in Consumers :
    /\ WF_cloneVars(\E validate \in BOOLEAN, maximum \in ChunkSizes : ToChunkReader(c, validate, maximum))
    /\ WF_cloneVars(Read(c) \/ Close(c)) /\ WF_cloneVars(Receive(c))

-----------------------------------------------------------------------------
ConsumerState ==
  [at : {"none", "buffer", "constrained", "reader", "waiting", "chunk", "end", "ended", "closed"},
   validate : BOOLEAN, maximum : Nat, received : Nat]

CloneTypeOK ==
  /\ consumersRemaining \in Nat /\ pendingConsumers \in Nat
  /\ needsValidation \in BOOLEAN
  /\ maximumChunkSizeBytes \in Nat \cup {-1}
  /\ baseReader \in [at : {"none", "open", "closed"}, validated : BOOLEAN, maximum : Nat]
  /\ chunksRead \in 0 .. Chunks
  /\ waitingConsumers \subseteq Consumers
  /\ consumer \in [Consumers -> ConsumerState]

(* All consumers that did not leave have received the same chunks, none of *)
(* which was skipped or repeated, up to the one that they are waiting for  *)
(* or about to receive; those that see the end have received all of them.  *)
(* The constraints of each of them are respected, whoever supplied theirs  *)
(* last: data that must be validated is, for everyone.  The ChunkReader    *)
(* below is closed once everybody has left.  It is known how many still    *)
(* have to make up their mind, even as some leave while others wait, and   *)
(* there is one whenever somebody waits.                                   *)
ClonesInLockstep ==
  /\ \A c \in At({"reader", "waiting", "end", "ended"}) : consumer[c].received = chunksRead
  /\ \A c \in At({"chunk"}) : consumer[c].received = chunksRead - 1
  /\ \A c \in At({"end", "ended"}) : chunksRead = Chunks
  /\ \A c \in At({"reader", "waiting", "chunk", "end", "ended"}) :
       /\ consumer[c].validate => baseReader.validated
       /\ baseReader.maximum <= consumer[c].maximum
       /\ baseReader.at = "open"
  /\ baseReader.at = "closed" <=> At({"closed"}) # {} /\ At({"none", "closed"}) = Consumers
  /\ pendingConsumers = Cardinality(At({"reader", "chunk", "end", "ended"}))
  /\ At({"waiting"}) # {} => pendingConsumers > 0
  /\ At({"constrained"}) # {} => consumersRemaining > 0

(* Nobody waits for ever, neither for the other consumers to supply their  *)
(* constraints, nor for a chunk, also if the others leave: all consumers   *)
(* get to the end of the stream, or to where they close it.                *)
ClonesServed == At({"buffer"}) # {} ~> At({"none", "closed"}) = Consumers
=============================================================================
