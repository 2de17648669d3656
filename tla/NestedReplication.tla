------------------------- MODULE NestedReplication -------------------------
(***************************************************************************)
(* NestedBlobReplicator: goroutines that copy a hierarchy of objects of    *)
(* the Content Addressable Storage, discovering it as they go              *)
(* (pkg/blobstore/replication/nested_blob_replicator.go).                  *)
(*                                                                         *)
(* A step of a goroutine lasts from one acquisition of the lock, or one    *)
(* call to the underlying replicator, to the next.  A goroutine that waits *)
(* holds the current wakeup channel, so that closing it wakes up all.      *)
(***************************************************************************)
EXTENDS Integers, Sequences, FiniteSets, Functions

CONSTANTS
  Workers,        \* goroutines that call Replicate()
  Objects,        \* the type, nested objects and files of each object
  Roots,          \* the objects that may be enqueued first
  MaxFailures     \* bound on failing operations

VARIABLES
  blobsSeen,
  blobsToReplicate,
  blobsReplicating,
  worker,         \* what each goroutine is doing
  replicated,     \* what was replicated, how often
  failures

nestedVars == <<blobsSeen, blobsToReplicate, blobsReplicating, worker, replicated, failures>>

(* The objects that are enqueued, in order, when an object is expanded:    *)
(* the input root of an Action, and the directories of a Directory.  A     *)
(* Tree contains all of its directories.                                   *)
Nested(o) == IF Objects[o].type = "Tree" THEN <<>> ELSE Objects[o].nested

(* What is replicated once these have been enqueued: the Command of an     *)
(* Action, or the files of the directories.                                *)
FilesOf(o) == Objects[o].files

AllFiles == UNION {FilesOf(o) : o \in DOMAIN Objects}

ASSUME NestedAssumption ==
  /\ IsFiniteSet(Workers)
  /\ Roots \subseteq DOMAIN Objects
  /\ \A o \in DOMAIN Objects : Nested(o) \in Seq(DOMAIN Objects)

At(state) == [at |-> state]

NestedInit ==
  /\ \E root \in Roots : blobsSeen = {root} /\ blobsToReplicate = <<root>>
  /\ blobsReplicating = 0
  /\ worker = [w \in Workers |-> At("start")]
  /\ replicated = [o \in DOMAIN Objects \cup AllFiles |-> 0]
  /\ failures = 0

-----------------------------------------------------------------------------
(* What a goroutine that holds the lock does next: dequeue an object,      *)
(* return if no work can appear any more, or wait for work to appear.      *)
Dequeued(replicating) ==
  CASE blobsToReplicate # <<>> -> [at |-> "replicate", object |-> Head(blobsToReplicate)]
    [] blobsToReplicate = <<>> /\ replicating = 0 -> At("ok")
    [] OTHER -> At("waiting")

Remaining == IF blobsToReplicate = <<>> THEN <<>> ELSE Tail(blobsToReplicate)

Woken(workers) == [w \in Workers |-> IF workers[w].at = "waiting" THEN At("start") ELSE workers[w]]

Taking(replicating) == replicating + (IF blobsToReplicate = <<>> THEN 0 ELSE 1)

Loop(w) ==
  /\ worker[w].at = "start"
  /\ worker' = [worker EXCEPT ![w] = Dequeued(blobsReplicating)]
  /\ blobsToReplicate' = Remaining
  /\ blobsReplicating' = Taking(blobsReplicating)
  /\ UNCHANGED <<blobsSeen, replicated, failures>>

Failing == failures < MaxFailures /\ failures' = failures + 1

(* ReplicateSingle(), and reading the object. *)
ReplicateSingle(w) ==
  LET o == worker[w].object
  IN  /\ worker[w].at = "replicate"
      /\ \/ /\ Failing
            /\ worker' = [worker EXCEPT ![w] = [at |-> "complete", err |-> TRUE]]
            /\ UNCHANGED replicated
         \/ /\ replicated' = [replicated EXCEPT ![o] = @ + 1]
            /\ worker' = [worker EXCEPT ![w] = [at |-> "expand", object |-> o, nested |-> Nested(o)]]
            /\ UNCHANGED failures
      /\ UNCHANGED <<blobsSeen, blobsToReplicate, blobsReplicating>>

(* enqueue() of a nested object, which may have an invalid digest. *)
Enqueue(w) ==
  LET o   == Head(worker[w].nested)
      me  == [worker[w] EXCEPT !.nested = Tail(@)]
      new == o \notin blobsSeen
  IN  /\ worker[w].at = "expand" /\ worker[w].nested # <<>>
      /\ \/ /\ blobsSeen' = blobsSeen \cup {o}
            /\ blobsToReplicate' = IF new THEN Append(blobsToReplicate, o) ELSE blobsToReplicate
            /\ worker' = IF new THEN [Woken(worker) EXCEPT ![w] = me] ELSE [worker EXCEPT ![w] = me]
            /\ UNCHANGED failures
         \/ /\ Failing
            /\ worker' = [worker EXCEPT ![w] = [at |-> "complete", err |-> TRUE]]
            /\ UNCHANGED <<blobsSeen, blobsToReplicate>>
      /\ UNCHANGED <<blobsReplicating, replicated>>

ReplicateFiles(w) ==
  LET o == worker[w].object
  IN  /\ worker[w].at = "expand" /\ worker[w].nested = <<>>
      /\ \/ /\ Failing
            /\ worker' = [worker EXCEPT ![w] = [at |-> "complete", err |-> TRUE]]
            /\ UNCHANGED replicated
         \/ /\ replicated' = [f \in DOMAIN replicated |-> replicated[f] + (IF f \in FilesOf(o) THEN 1 ELSE 0)]
            /\ worker' = [worker EXCEPT ![w] = [at |-> "complete", err |-> FALSE]]
            /\ UNCHANGED failures
      /\ UNCHANGED <<blobsSeen, blobsToReplicate, blobsReplicating>>

(* Mutant: the others are not woken up if the last object failed. *)
CompleteQuietly(w) ==
  LET left   == blobsReplicating - 1
      err    == worker[w].err
      others == IF blobsToReplicate = <<>> /\ left = 0 /\ ~err THEN Woken(worker) ELSE worker
  IN  /\ worker[w].at = "complete"
      /\ worker' = [others EXCEPT ![w] = IF err THEN At("error") ELSE Dequeued(left)]
      /\ blobsToReplicate' = IF err THEN blobsToReplicate ELSE Remaining
      /\ blobsReplicating' = IF err THEN left ELSE Taking(left)
      /\ UNCHANGED <<blobsSeen, replicated, failures>>

(* Without releasing the lock, the goroutine goes on to the next object,   *)
(* unless this one failed.                                                 *)
Complete(w) ==
  LET left   == blobsReplicating - 1
      err    == worker[w].err
      others == IF blobsToReplicate = <<>> /\ left = 0 THEN Woken(worker) ELSE worker
  IN  /\ worker[w].at = "complete"
      /\ worker' = [others EXCEPT ![w] = IF err THEN At("error") ELSE Dequeued(left)]
      /\ blobsToReplicate' = IF err THEN blobsToReplicate ELSE Remaining
      /\ blobsReplicating' = IF err THEN left ELSE Taking(left)
      /\ UNCHANGED <<blobsSeen, replicated, failures>>

(* The context of a goroutine that waits is cancelled. *)
CancelWait(w) ==
  /\ worker[w].at = "waiting"
  /\ Failing
  /\ worker' = [worker EXCEPT ![w] = At("error")]
  /\ UNCHANGED <<blobsSeen, blobsToReplicate, blobsReplicating, replicated>>

NestedNext ==
  \E w \in Workers : \/ Loop(w) \/ ReplicateSingle(w) \/ Enqueue(w) \/ ReplicateFiles(w) \/ Complete(w)
                     \/ CancelWait(w)

NestedSpec == NestedInit /\ [][NestedNext]_nestedVars

-----------------------------------------------------------------------------
States == {worker[w].at : w \in Workers}

(* If all goroutines return without an error, all objects that can be      *)
(* reached from the first one were replicated, with their files.  Objects  *)
(* that aren't files as well are replicated once.  A goroutine that        *)
(* returns without an error has nothing left to help with, then or later.  *)
(* Failing goroutines don't strand the others: some goroutine always runs  *)
(* while another one waits.                                                *)
NestedObjectsReplicated ==
  /\ \A o \in DOMAIN Objects \ AllFiles : replicated[o] <= 1
  /\ "ok" \in States => blobsToReplicate = <<>> /\ blobsReplicating = 0
  /\ "waiting" \in States => States \cap {"start", "replicate", "expand", "complete"} # {}
  /\ States = {"ok"} =>
       \A o \in blobsSeen : replicated[o] > 0 /\ Range(Nested(o)) \subseteq blobsSeen /\ \A f \in FilesOf(o) : replicated[f] > 0
=============================================================================
