--------------------------- MODULE BackendsProofs ---------------------------
(***************************************************************************)
(* Proofs about NestedReplication, for every hierarchy of objects and any  *)
(* number of goroutines.                                                   *)
(***************************************************************************)
EXTENDS NestedReplication, FiniteSetTheorems, TLAPS

WorkerState ==
  [at : {"start", "waiting", "ok", "error"}]
    \cup [at : {"replicate"}, object : DOMAIN Objects]
    \cup [at : {"expand"}, object : DOMAIN Objects, nested : Seq(DOMAIN Objects)]
    \cup [at : {"complete"}, err : BOOLEAN]

Active == {w \in Workers : worker[w].at \in {"replicate", "expand", "complete"}}

Holds(w, o) == worker[w].at \in {"replicate", "expand"} /\ worker[w].object = o

Failed == \E w \in Workers : worker[w].at = "error" \/ (worker[w].at = "complete" /\ worker[w].err)

Done(o) == replicated[o] > 0 /\ Range(Nested(o)) \subseteq blobsSeen /\ \A f \in FilesOf(o) : replicated[f] > 0

NestedTypeOK ==
  /\ worker \in [Workers -> WorkerState]
  /\ blobsSeen \subseteq DOMAIN Objects
  /\ blobsToReplicate \in Seq(blobsSeen)
  /\ blobsReplicating \in Nat
  /\ replicated \in [DOMAIN Objects \cup AllFiles -> Nat]

(* Goroutines only wait if another one may still enqueue an object, and    *)
(* only return if none may.                                                *)
WorkCounted ==
  /\ blobsReplicating = Cardinality(Active)
  /\ \A w \in Workers : worker[w].at = "waiting" => blobsToReplicate = <<>> /\ blobsReplicating > 0
  /\ \A w \in Workers : worker[w].at = "ok" => blobsToReplicate = <<>> /\ blobsReplicating = 0

(* An object is in the queue once, or held by one goroutine. *)
WorkExclusive ==
  /\ IsInjective(blobsToReplicate)
  /\ \A w \in Workers, o \in DOMAIN Objects : Holds(w, o) => o \in blobsSeen \ Range(blobsToReplicate)
  /\ \A v, w \in Workers, o \in DOMAIN Objects : Holds(v, o) /\ Holds(w, o) => v = w

(* Objects are not replicated before a goroutine that holds them does so. *)
ReplicatedOnce ==
  \A o \in DOMAIN Objects \ AllFiles :
    /\ replicated[o] <= 1
    /\ o \notin blobsSeen \/ o \in Range(blobsToReplicate) => replicated[o] = 0
    /\ \A w \in Workers : Holds(w, o) /\ worker[w].at = "replicate" => replicated[o] = 0

(* What was seen is yet to be replicated, being expanded, or done. *)
NothingForgotten ==
  /\ \A w \in Workers : worker[w].at = "expand" =>
       /\ replicated[worker[w].object] > 0
       /\ Range(Nested(worker[w].object)) \subseteq blobsSeen \cup Range(worker[w].nested)
  /\ \A o \in blobsSeen : o \in Range(blobsToReplicate) \/ (\E w \in Workers : Holds(w, o)) \/ Done(o) \/ Failed

NestedInv == NestedTypeOK /\ WorkCounted /\ WorkExclusive /\ ReplicatedOnce /\ NothingForgotten

-----------------------------------------------------------------------------
(* Sequences. *)

(* The first element of a sequence, and the others. *)
LEMMA Splitting ==
  ASSUME NEW S, NEW q \in Seq(S), q # <<>>
  PROVE  /\ Head(q) \in S /\ Tail(q) \in Seq(S) /\ Head(q) = q[1] /\ Len(q) \in Nat \ {0}
         /\ Len(Tail(q)) = Len(q) - 1 /\ \A j \in 1 .. Len(q) - 1 : Tail(q)[j] = q[j + 1]
         /\ Range(q) = Range(Tail(q)) \cup {Head(q)}
<1> DEFINE t == Tail(q)
<1>1. /\ Len(q) \in Nat \ {0} /\ Head(q) = q[1] /\ q[1] \in S
      /\ t \in Seq(S) /\ Len(t) = Len(q) - 1 /\ \A j \in 1 .. Len(q) - 1 : t[j] = q[j + 1]
  OBVIOUS
<1> HIDE DEF t
<1>2. ASSUME NEW x \in Range(t) PROVE x \in Range(q)
  <2>1. PICK j \in 1 .. Len(q) - 1 : x = q[j + 1]
    BY <1>1 DEF Range
  <2>2. j + 1 \in 1 .. Len(q)
    BY <1>1
  <2>3. QED
    BY <2>1, <2>2 DEF Range
<1>3. ASSUME NEW x \in Range(q) PROVE x \in Range(t) \cup {q[1]}
  <2>1. PICK j \in 1 .. Len(q) : x = q[j]
    BY DEF Range
  <2>2. CASE j = 1
    BY Zenon, <2>1, <2>2
  <2>3. CASE j # 1
    <3>1. j - 1 \in 1 .. Len(q) - 1 /\ t[j - 1] = x
      BY <1>1, <2>1, <2>3
    <3>2. QED
      BY <1>1, <3>1 DEF Range
  <2>4. QED
    BY Zenon, <2>2, <2>3
<1>4. q[1] \in Range(q)
  BY <1>1 DEF Range
<1>5. QED
  BY Zenon, <1>1, <1>2, <1>3, <1>4 DEF t

(* The queue without the object that is dequeued. *)
LEMMA Dequeuing ==
  ASSUME NEW S, NEW q \in Seq(S), q # <<>>, IsInjective(q)
  PROVE  /\ Head(q) \in S /\ Tail(q) \in Seq(S) /\ IsInjective(Tail(q))
         /\ Range(q) = Range(Tail(q)) \cup {Head(q)} /\ Head(q) \notin Range(Tail(q))
<1> DEFINE t == Tail(q)
<1>1. /\ Len(q) \in Nat \ {0} /\ Head(q) = q[1] /\ Len(t) = Len(q) - 1 /\ \A j \in 1 .. Len(q) - 1 : t[j] = q[j + 1]
      /\ Head(q) \in S /\ t \in Seq(S) /\ Range(q) = Range(t) \cup {Head(q)}
  BY Zenon, Splitting
<1> HIDE DEF t
<1>2. \A a, b \in 1 .. Len(q) : q[a] = q[b] => a = b
  BY DEF IsInjective
<1>3. IsInjective(t)
  <2> SUFFICES ASSUME NEW a \in 1 .. Len(q) - 1, NEW b \in 1 .. Len(q) - 1, t[a] = t[b] PROVE a = b
    BY <1>1 DEF IsInjective
  <2>1. q[a + 1] = q[b + 1] /\ a + 1 \in 1 .. Len(q) /\ b + 1 \in 1 .. Len(q)
    BY <1>1
  <2>2. a + 1 = b + 1
    BY Zenon, <1>2, <2>1
  <2>3. QED
    BY <2>2
<1>4. ASSUME NEW x \in Range(t) PROVE x # q[1]
  <2>1. PICK j \in 1 .. Len(q) - 1 : x = q[j + 1]
    BY <1>1 DEF Range
  <2>2. j + 1 \in 1 .. Len(q) /\ j + 1 # 1 /\ 1 \in 1 .. Len(q)
    BY <1>1
  <2>3. QED
    BY Zenon, <1>2, <2>1, <2>2
<1>5. QED
  BY Zenon, <1>1, <1>3, <1>4 DEF t

(* The queue with an object that is enqueued. *)
LEMMA Enqueuing ==
  ASSUME NEW S, NEW q \in Seq(S), IsInjective(q), NEW o, o \notin S
  PROVE  /\ Append(q, o) \in Seq(S \cup {o}) /\ IsInjective(Append(q, o))
         /\ Range(Append(q, o)) = Range(q) \cup {o}
<1> DEFINE t == Append(q, o)
<1>1. /\ Len(q) \in Nat /\ t \in Seq(S \cup {o}) /\ Len(t) = Len(q) + 1 /\ t[Len(q) + 1] = o
      /\ \A j \in 1 .. Len(q) : t[j] = q[j] /\ q[j] # o
  OBVIOUS
<1> HIDE DEF t
<1>2. IsInjective(t)
  BY <1>1 DEF IsInjective
<1>3. Range(t) = Range(q) \cup {o}
  BY <1>1 DEF Range
<1>4. QED
  BY Zenon, <1>1, <1>2, <1>3 DEF t

-----------------------------------------------------------------------------
(* Steps of a goroutine, upon which others that waited may be woken up. *)

OthersWoken(w) ==
  /\ worker' \in [Workers -> WorkerState]
  /\ \A v \in Workers \ {w} : worker'[v] = worker[v] \/ (worker[v].at = "waiting" /\ worker'[v].at = "start")

(* The goroutine ends up with a state, and some of the others may be woken *)
(* up.                                                                     *)
LEMMA StepsWake ==
  ASSUME NestedTypeOK, NEW w \in Workers, NEW after \in WorkerState,
         \/ worker' = [worker EXCEPT ![w] = after]
         \/ worker' = [Woken(worker) EXCEPT ![w] = after]
  PROVE  OthersWoken(w) /\ worker'[w] = after
<1>1. At("start") \in WorkerState /\ At("start").at = "start"
  BY Zenon DEF At, WorkerState
<1>2. /\ Woken(worker) \in [Workers -> WorkerState]
      /\ \A v \in Workers : Woken(worker)[v] = worker[v] \/ (worker[v].at = "waiting" /\ Woken(worker)[v].at = "start")
  BY Zenon, <1>1 DEF Woken, NestedTypeOK
<1>3. CASE worker' = [worker EXCEPT ![w] = after]
  BY Zenon, <1>3 DEF OthersWoken, NestedTypeOK
<1>4. CASE worker' = [Woken(worker) EXCEPT ![w] = after]
  BY Zenon, <1>2, <1>4 DEF OthersWoken
<1>5. QED
  BY Zenon, <1>3, <1>4

(* What being woken up leaves alone. *)
LEMMA OthersKeep ==
  ASSUME NestedTypeOK, NEW w \in Workers, OthersWoken(w), NEW v \in Workers \ {w}
  PROVE  /\ v \in Active' <=> v \in Active
         /\ \A o \in DOMAIN Objects : Holds(v, o)' <=> Holds(v, o)
         /\ worker'[v].at \in {"replicate", "expand", "complete", "error", "ok"} => worker'[v] = worker[v]
         /\ worker[v].at \in {"replicate", "expand", "complete", "error", "ok"} => worker'[v] = worker[v]
         /\ worker'[v].at = "waiting" => worker[v].at = "waiting"
<1>1. worker'[v] = worker[v] \/ (worker[v].at = "waiting" /\ worker'[v].at = "start")
  BY Zenon DEF OthersWoken
<1>2. QED
  BY Zenon, <1>1 DEF Active, Holds

(* Only the goroutine itself may start or cease to be active. *)
LEMMA Recounted ==
  ASSUME NestedTypeOK, NEW w \in Workers, OthersWoken(w)
  PROVE  /\ IsFiniteSet(Active) /\ IsFiniteSet(Active') /\ Active' \ {w} = Active \ {w}
         /\ Cardinality(Active \ {w}) \in Nat
         /\ Cardinality(Active) = Cardinality(Active \ {w}) + (IF w \in Active THEN 1 ELSE 0)
         /\ Cardinality(Active') = Cardinality(Active \ {w}) + (IF w \in Active' THEN 1 ELSE 0)
<1>1. IsFiniteSet(Active) /\ IsFiniteSet(Active')
  <2>1. Active \subseteq Workers /\ Active' \subseteq Workers
    BY Zenon DEF Active
  <2>2. QED
    BY Zenon, <2>1, NestedAssumption, FS_Subset
<1>2. Active' \ {w} = Active \ {w}
  <2>1. Active \subseteq Workers /\ Active' \subseteq Workers
    BY Zenon DEF Active
  <2>2. QED
    BY Zenon, <2>1, OthersKeep
<1>3. IsFiniteSet(Active \ {w}) /\ Cardinality(Active \ {w}) \in Nat
  BY Zenon, <1>1, FS_Subset, FS_CardinalityType
<1>4. ASSUME NEW A, IsFiniteSet(A), A \ {w} = Active \ {w}
      PROVE  Cardinality(A) = Cardinality(Active \ {w}) + (IF w \in A THEN 1 ELSE 0)
  <2>1. CASE w \in A
    <3>1. (A \ {w}) \cup {w} = A /\ w \notin A \ {w}
      BY Zenon, <2>1
    <3>2. Cardinality((A \ {w}) \cup {w}) = Cardinality(A \ {w}) + 1
      BY <1>3, <1>4, <3>1, FS_AddElement, Zenon
    <3>3. QED
      BY Zenon, <1>4, <2>1, <3>1, <3>2
  <2>2. CASE w \notin A
    <3>1. A \ {w} = A
      BY Zenon, <2>2
    <3>2. Cardinality(A) = Cardinality(Active \ {w})
      BY <1>4, <3>1, Zenon
    <3>3. QED
      BY <1>3, <2>2, <3>2
  <2>3. QED
    BY Zenon, <2>1, <2>2
<1>5. QED
  BY Zenon, <1>1, <1>2, <1>3, <1>4

-----------------------------------------------------------------------------
(* The actions. *)

(* Whichever state the goroutine was in, it now dequeues an object,        *)
(* returns, or waits, while "left" others are active.                      *)
LEMMA DequeuedPreserves ==
  ASSUME NestedInv, NEW w \in Workers, NEW left \in Nat, left = Cardinality(Active \ {w}),
         worker[w].at = "start" \/ (worker[w].at = "complete" /\ ~worker[w].err),
         OthersWoken(w), worker'[w] = Dequeued(left),
         blobsToReplicate = <<>> /\ left = 0 => \A v \in Workers \ {w} : worker'[v].at # "waiting",
         blobsToReplicate' = Remaining, blobsReplicating' = Taking(left), UNCHANGED <<blobsSeen, replicated>>
  PROVE  NestedInv'
<1> USE DEF NestedInv
<1>1. NestedTypeOK /\ \A o \in DOMAIN Objects : ~Holds(w, o)
  BY Zenon DEF Holds
<1>2. CASE blobsToReplicate # <<>>
  <2> DEFINE o == Head(blobsToReplicate)
  <2>1. /\ worker'[w].at = "replicate" /\ worker'[w].object = o
        /\ blobsToReplicate' = Tail(blobsToReplicate) /\ blobsReplicating' = left + 1
    BY <1>2 DEF Dequeued, Remaining, Taking
  <2>2. /\ o \in blobsSeen /\ o \in DOMAIN Objects /\ blobsToReplicate' \in Seq(blobsSeen) /\ IsInjective(blobsToReplicate')
        /\ Range(blobsToReplicate) = Range(blobsToReplicate') \cup {o} /\ o \notin Range(blobsToReplicate')
    BY <1>2, <2>1, Dequeuing DEF NestedTypeOK, WorkExclusive
  <2> HIDE DEF o
  <2>3. NestedTypeOK'
    BY <2>1, <2>2 DEF NestedTypeOK, OthersWoken
  <2>4. \A x \in DOMAIN Objects : Holds(w, x)' <=> x = o
    BY Zenon, <2>1 DEF Holds
  <2>5. WorkCounted'
    <3>1. w \in Active' /\ blobsReplicating' = Cardinality(Active')
      BY <1>1, <2>1, Recounted, Zenon DEF Active
    <3>2. \A v \in Workers : worker'[v].at \notin {"waiting", "ok"}
      BY Zenon, <1>1, <1>2, <2>1, OthersKeep DEF WorkCounted
    <3>3. QED
      BY Zenon, <3>1, <3>2 DEF WorkCounted
  <2>6. WorkExclusive'
    BY <1>1, <2>2, <2>4, OthersKeep DEF WorkExclusive
  <2>7. ReplicatedOnce'
    <3>1. ASSUME NEW x \in DOMAIN Objects, NEW v \in Workers, Holds(v, x)', worker'[v].at = "replicate"
          PROVE  x \in Range(blobsToReplicate) \/ (Holds(v, x) /\ worker[v].at = "replicate")
      BY SMTT(30), <1>1, <2>2, <2>4, <3>1, OthersKeep
    <3>2. QED
      BY Zenon, <2>2, <3>1 DEF ReplicatedOnce
  <2>8. NothingForgotten'
    <3>1. \A v \in Workers : worker'[v].at = "expand" => worker'[v] = worker[v]
      BY Zenon, <1>1, <2>1, OthersKeep
    <3>2. Failed => Failed'
      BY Zenon, <1>1, OthersKeep DEF Failed
    <3>3. ASSUME NEW x \in blobsSeen, \E v \in Workers : Holds(v, x) PROVE \E v \in Workers : Holds(v, x)'
      BY Zenon, <1>1, <3>3, OthersKeep DEF NestedTypeOK
    <3>4. \A x \in blobsSeen : x \in Range(blobsToReplicate) => x \in Range(blobsToReplicate') \/ Holds(w, x)'
      BY Zenon, <2>2, <2>4 DEF NestedTypeOK
    <3>5. \A x \in blobsSeen : Done(x) => Done(x)'
      BY Zenon DEF Done
    <3>6. QED
      BY Zenon, <3>1, <3>2, <3>3, <3>4, <3>5 DEF NothingForgotten
  <2>9. QED
    BY Zenon, <2>3, <2>5, <2>6, <2>7, <2>8
<1>3. CASE blobsToReplicate = <<>>
  <2>1. /\ worker'[w] = IF left = 0 THEN At("ok") ELSE At("waiting")
        /\ UNCHANGED blobsToReplicate /\ blobsReplicating' = left
    BY <1>3 DEF Dequeued, Remaining, Taking
  <2>2. worker'[w].at = IF left = 0 THEN "ok" ELSE "waiting"
    BY <2>1 DEF At
  <2>3. NestedTypeOK'
    BY Zenon, <2>1 DEF NestedTypeOK, OthersWoken
  <2>4. \A x \in DOMAIN Objects : ~Holds(w, x)'
    BY Zenon, <2>2 DEF Holds
  <2>5. WorkCounted'
    <3>1. w \notin Active' /\ blobsReplicating' = Cardinality(Active')
      BY <1>1, <2>1, <2>2, Recounted, Zenon DEF Active
    <3>2. ASSUME NEW v \in Workers, worker'[v].at = "waiting" PROVE left > 0
      BY <1>3, <2>2, <3>2
    <3>3. ASSUME NEW v \in Workers, worker'[v].at = "ok" PROVE left = 0
      <4>1. CASE v = w
        BY Zenon, <2>2, <3>3, <4>1
      <4>2. CASE v # w
        BY <1>1, <3>3, <4>2, OthersKeep, Recounted DEF WorkCounted
      <4>3. QED
        BY Zenon, <4>1, <4>2
    <3>4. QED
      BY <1>3, <2>1, <3>1, <3>2, <3>3, Zenon DEF WorkCounted
  <2>6. WorkExclusive'
    BY <1>1, <2>1, <2>4, OthersKeep DEF WorkExclusive
  <2>7. ReplicatedOnce'
    <3>1. ASSUME NEW x \in DOMAIN Objects, NEW v \in Workers, Holds(v, x)', worker'[v].at = "replicate"
          PROVE  Holds(v, x) /\ worker[v].at = "replicate"
      BY Zenon, <1>1, <2>4, <3>1, OthersKeep
    <3>2. QED
      BY Zenon, <2>1, <3>1 DEF ReplicatedOnce
  <2>8. NothingForgotten'
    <3>1. \A v \in Workers : worker'[v].at = "expand" => worker'[v] = worker[v]
      BY Zenon, <1>1, <2>2, OthersKeep
    <3>2. Failed => Failed'
      BY Zenon, <1>1, OthersKeep DEF Failed
    <3>3. ASSUME NEW x \in blobsSeen, \E v \in Workers : Holds(v, x) PROVE \E v \in Workers : Holds(v, x)'
      BY Zenon, <1>1, <3>3, OthersKeep DEF NestedTypeOK
    <3>4. \A x \in blobsSeen : Done(x) => Done(x)'
      BY Zenon DEF Done
    <3>5. QED
      BY Zenon, <2>1, <3>1, <3>2, <3>3, <3>4 DEF NothingForgotten
  <2>9. QED
    BY Zenon, <2>3, <2>5, <2>6, <2>7, <2>8
<1>4. QED
  BY Zenon, <1>2, <1>3

(* A goroutine fails: objects that it held are forgotten. *)
LEMMA FailingPreserves ==
  ASSUME NestedInv, NEW w \in Workers, OthersWoken(w),
         worker'[w].at = "error" \/ (worker'[w].at = "complete" /\ worker'[w].err),
         w \in Active' => w \in Active,
         \A v \in Workers \ {w} : worker'[v].at = "waiting" => blobsToReplicate = <<>> /\ Active' # {},
         blobsReplicating' = Cardinality(Active'), UNCHANGED <<blobsToReplicate, blobsSeen, replicated>>
  PROVE  NestedInv'
<1> USE DEF NestedInv
<1>1. NestedTypeOK /\ \A o \in DOMAIN Objects : ~Holds(w, o)'
  BY Zenon DEF Holds
<1>2. Failed'
  BY Zenon DEF Failed
<1>3. IsFiniteSet(Active') /\ Cardinality(Active') \in Nat /\ (Active' # {} => Cardinality(Active') > 0)
  <2>1. IsFiniteSet(Active')
    BY <1>1, Recounted, Zenon
  <2>2. Cardinality(Active') \in Nat /\ (Cardinality(Active') = 0 <=> Active' = {})
    BY Zenon, <2>1, FS_CardinalityType, FS_EmptySet
  <2>3. QED
    BY <2>1, <2>2
<1>4. NestedTypeOK'
  BY Zenon, <1>3 DEF NestedTypeOK, OthersWoken
<1>5. WorkCounted'
  <2>1. ASSUME NEW v \in Workers, worker'[v].at = "waiting" PROVE blobsToReplicate = <<>> /\ blobsReplicating' > 0
    BY Zenon, <1>3, <2>1
  <2>2. ASSUME NEW v \in Workers, worker'[v].at = "ok" PROVE blobsToReplicate = <<>> /\ blobsReplicating' = 0
    <3>1. v # w /\ worker[v].at = "ok"
      BY Zenon, <1>1, <2>2, OthersKeep
    <3>2. blobsToReplicate = <<>> /\ Cardinality(Active) = 0
      BY Zenon, <3>1 DEF WorkCounted
    <3>3. Active = {}
      BY <1>1, <3>2, Recounted, FS_EmptySet, Zenon
    <3>4. Active' = {}
      BY Zenon, <1>1, <3>3, Recounted
    <3>5. QED
      BY Zenon, <3>2, <3>4, FS_EmptySet
  <2>3. QED
    BY Zenon, <2>1, <2>2 DEF WorkCounted
<1>6. WorkExclusive'
  BY <1>1, OthersKeep DEF WorkExclusive
<1>7. ReplicatedOnce'
  <2>1. ASSUME NEW x \in DOMAIN Objects, NEW v \in Workers, Holds(v, x)', worker'[v].at = "replicate"
        PROVE  Holds(v, x) /\ worker[v].at = "replicate"
    BY Zenon, <1>1, <2>1, OthersKeep
  <2>2. QED
    BY Zenon, <2>1 DEF ReplicatedOnce
<1>8. NothingForgotten'
  <2>1. \A v \in Workers : worker'[v].at = "expand" => worker'[v] = worker[v]
    BY Zenon, <1>1, OthersKeep
  <2>2. QED
    BY Zenon, <1>2, <2>1 DEF NothingForgotten
<1>9. QED
  BY Zenon, <1>4, <1>5, <1>6, <1>7, <1>8

(* A goroutine that remains active: if this leads to objects being         *)
(* enqueued, no goroutine waits any longer.                                *)
LEMMA ActivePreserves ==
  ASSUME NestedInv, NEW w \in Workers, OthersWoken(w), w \in Active, w \in Active', UNCHANGED blobsReplicating,
         UNCHANGED blobsToReplicate \/ \A v \in Workers : worker'[v].at # "waiting"
  PROVE  WorkCounted' /\ blobsReplicating > 0
<1>1. NestedTypeOK /\ WorkCounted
  BY Zenon DEF NestedInv
<1>2. /\ Cardinality(Active \ {w}) \in Nat /\ Cardinality(Active) = Cardinality(Active \ {w}) + 1
      /\ Cardinality(Active') = Cardinality(Active \ {w}) + 1
  BY <1>1, Recounted, Zenon
<1>3. blobsReplicating' = Cardinality(Active') /\ blobsReplicating > 0
  BY <1>1, <1>2 DEF WorkCounted
<1>4. ASSUME NEW v \in Workers PROVE worker'[v].at # "ok"
  <2>1. CASE v = w
    BY Zenon, <2>1 DEF Active
  <2>2. CASE v # w
    BY <1>1, <1>3, <2>2, OthersKeep DEF WorkCounted
  <2>3. QED
    BY Zenon, <2>1, <2>2
<1>5. ASSUME NEW v \in Workers, worker'[v].at = "waiting" PROVE blobsToReplicate' = <<>>
  <2>1. v # w
    BY Zenon, <1>5 DEF Active
  <2>2. worker[v].at = "waiting" /\ UNCHANGED blobsToReplicate
    BY Zenon, <1>1, <1>5, <2>1, OthersKeep
  <2>3. QED
    BY Zenon, <1>1, <2>2 DEF WorkCounted
<1>6. QED
  BY Zenon, <1>3, <1>4, <1>5 DEF WorkCounted

(* A goroutine that is active fails. *)
LEMMA ActiveFails ==
  ASSUME NestedInv, NEW w \in Active, worker' = [worker EXCEPT ![w] = [at |-> "complete", err |-> TRUE]],
         UNCHANGED <<blobsSeen, blobsToReplicate, blobsReplicating, replicated>>
  PROVE  NestedInv'
<1>1. w \in Workers /\ [at |-> "complete", err |-> TRUE] \in WorkerState /\ NestedTypeOK /\ WorkCounted
  BY Zenon DEF Active, WorkerState, NestedInv
<1>2. OthersWoken(w) /\ worker'[w] = [at |-> "complete", err |-> TRUE]
  BY <1>1, StepsWake, Zenon
<1>3. w \in Active'
  BY <1>1, <1>2 DEF Active
<1>4. WorkCounted'
  BY Zenon, <1>1, <1>2, <1>3, ActivePreserves
<1>5. \A v \in Workers \ {w} : worker'[v].at = "waiting" => blobsToReplicate = <<>> /\ Active' # {}
  BY Zenon, <1>3, <1>4 DEF WorkCounted
<1>6. blobsReplicating' = Cardinality(Active')
  BY Zenon, <1>4 DEF WorkCounted
<1>7. QED
  BY <1>1, <1>2, <1>5, <1>6, FailingPreserves

(* ReplicateSingle() adds to what was replicated, once per object. *)
LEMMA ReplicateSinglePreserves ==
  ASSUME NestedInv, NEW w \in Workers, ReplicateSingle(w)
  PROVE  NestedInv'
<1> DEFINE o == worker[w].object
           after == [at |-> "expand", object |-> o, nested |-> Nested(o)]
<1>1. worker[w].at = "replicate" /\ w \in Active /\ NestedTypeOK
  BY Zenon DEF ReplicateSingle, Active, NestedInv
<1>2. o \in DOMAIN Objects
  BY Zenon, <1>1 DEF NestedTypeOK, WorkerState
<1>3. CASE worker' = [worker EXCEPT ![w] = [at |-> "complete", err |-> TRUE]] /\ UNCHANGED replicated
  BY <1>1, <1>3, ActiveFails, Zenon DEF ReplicateSingle
<1>4. CASE replicated' = [replicated EXCEPT ![o] = @ + 1] /\ worker' = [worker EXCEPT ![w] = after]
  <2>1. after \in WorkerState /\ after.at = "expand" /\ after.object = o /\ after.nested = Nested(o)
    BY Zenon, <1>2, NestedAssumption DEF WorkerState
  <2> HIDE DEF after
  <2>2. OthersWoken(w) /\ worker'[w] = after
    BY <1>1, <1>4, <2>1, StepsWake, Zenon
  <2>3. UNCHANGED <<blobsSeen, blobsToReplicate, blobsReplicating>>
    BY Zenon DEF ReplicateSingle
  <2>4. /\ replicated' \in [DOMAIN Objects \cup AllFiles -> Nat] /\ replicated'[o] = replicated[o] + 1
        /\ \A x \in DOMAIN Objects \cup AllFiles : x # o => replicated'[x] = replicated[x]
    BY <1>1, <1>2, <1>4 DEF NestedTypeOK
  <2>5. NestedTypeOK'
    BY Zenon, <1>1, <2>2, <2>3, <2>4 DEF NestedTypeOK, OthersWoken
  <2>6. WorkCounted'
    BY Zenon, <1>1, <2>1, <2>2, <2>3, ActivePreserves DEF Active
  <2>7. \A v \in Workers, x \in DOMAIN Objects : Holds(v, x)' <=> Holds(v, x)
    BY Zenon, <1>1, <2>1, <2>2, OthersKeep DEF Holds
  <2>8. WorkExclusive'
    BY Zenon, <2>3, <2>7 DEF WorkExclusive, NestedInv
  <2>9. ReplicatedOnce'
    <3>1. Holds(w, o) /\ o \in blobsSeen \ Range(blobsToReplicate)
      BY Zenon, <1>1, <1>2 DEF Holds, NestedInv, WorkExclusive
    <3>2. ASSUME NEW v \in Workers, NEW x \in DOMAIN Objects, Holds(v, x)', worker'[v].at = "replicate"
          PROVE  x # o /\ Holds(v, x) /\ worker[v].at = "replicate"
      <4>1. v # w
        BY Zenon, <2>1, <2>2, <3>2
      <4>2. Holds(v, x) /\ worker[v].at = "replicate"
        BY Zenon, <1>1, <2>2, <3>2, <4>1, OthersKeep
      <4>3. QED
        BY Zenon, <3>1, <4>1, <4>2 DEF NestedInv, WorkExclusive
    <3>3. o \notin AllFiles => replicated[o] = 0
      BY Zenon, <1>1, <1>2, <3>1 DEF NestedInv, ReplicatedOnce
    <3>4. QED
      BY <2>3, <2>4, <3>1, <3>2, <3>3 DEF NestedInv, ReplicatedOnce
  <2>10. NothingForgotten'
    <3>1. \A x \in DOMAIN Objects \cup AllFiles : replicated[x] > 0 => replicated'[x] > 0
      BY <1>1, <1>2, <2>4 DEF NestedTypeOK
    <3>2. replicated'[o] > 0
      BY <1>1, <1>2, <2>4 DEF NestedTypeOK
    <3>3. ASSUME NEW v \in Workers, worker'[v].at = "expand"
          PROVE  /\ replicated'[worker'[v].object] > 0
                 /\ Range(Nested(worker'[v].object)) \subseteq blobsSeen \cup Range(worker'[v].nested)
      <4>1. CASE v = w
        BY Zenon, <2>1, <2>2, <3>2, <4>1
      <4>2. CASE v # w
        <5>1. worker'[v] = worker[v] /\ worker[v].at = "expand"
          BY Zenon, <1>1, <2>2, <3>3, <4>2, OthersKeep
        <5>2. worker[v].object \in DOMAIN Objects
          BY <1>1, <5>1, Zenon DEF NestedTypeOK, WorkerState
        <5>3. QED
          BY Zenon, <3>1, <5>1, <5>2 DEF NestedInv, NothingForgotten
      <4>3. QED
        BY Zenon, <4>1, <4>2
    <3>4. Failed => Failed'
      BY Zenon, <1>1, <2>2, OthersKeep DEF Failed
    <3>5. \A x \in blobsSeen : Done(x) => Done(x)'
      BY Zenon, <1>1, <2>3, <3>1 DEF Done, NestedTypeOK, AllFiles
    <3>6. QED
      BY Zenon, <1>1, <2>3, <2>7, <3>3, <3>4, <3>5 DEF NestedInv, NothingForgotten, NestedTypeOK
  <2>11. QED
    BY Zenon, <2>5, <2>6, <2>8, <2>9, <2>10 DEF NestedInv
<1>5. QED
  BY Zenon, <1>3, <1>4 DEF ReplicateSingle

(* enqueue() adds an object to the queue unless it was seen before. *)
LEMMA EnqueuePreserves ==
  ASSUME NestedInv, NEW w \in Workers, Enqueue(w)
  PROVE  NestedInv'
<1> DEFINE o == Head(worker[w].nested)
           me == [worker[w] EXCEPT !.nested = Tail(@)]
           new == o \notin blobsSeen
<1>1. worker[w].at = "expand" /\ worker[w].nested # <<>> /\ w \in Active /\ NestedTypeOK
  BY Zenon DEF Enqueue, Active, NestedInv
<1>2. worker[w] \in [at : {"expand"}, object : DOMAIN Objects, nested : Seq(DOMAIN Objects)]
  BY <1>1, Zenon DEF NestedTypeOK, WorkerState
<1>3. /\ o \in DOMAIN Objects /\ Tail(worker[w].nested) \in Seq(DOMAIN Objects)
      /\ Range(worker[w].nested) = Range(Tail(worker[w].nested)) \cup {o}
  BY <1>1, <1>2, Splitting, Zenon
<1>4. CASE worker' = [worker EXCEPT ![w] = [at |-> "complete", err |-> TRUE]] /\ UNCHANGED <<blobsSeen, blobsToReplicate>>
  BY <1>1, <1>4, ActiveFails, Zenon DEF Enqueue
<1>5. CASE /\ blobsSeen' = blobsSeen \cup {o}
           /\ blobsToReplicate' = IF new THEN Append(blobsToReplicate, o) ELSE blobsToReplicate
           /\ worker' = IF new THEN [Woken(worker) EXCEPT ![w] = me] ELSE [worker EXCEPT ![w] = me]
  <2>1. me \in WorkerState /\ me.at = "expand" /\ me.object = worker[w].object /\ me.nested = Tail(worker[w].nested)
    BY <1>2, <1>3, Zenon DEF WorkerState
  <2> HIDE DEF me, o
  <2>2. OthersWoken(w) /\ worker'[w] = me
    BY <1>1, <1>5, <2>1, StepsWake, Zenon
  <2>3. UNCHANGED <<blobsReplicating, replicated>>
    BY Zenon DEF Enqueue
  <2>4. /\ blobsToReplicate' \in Seq(blobsSeen') /\ IsInjective(blobsToReplicate')
        /\ Range(blobsToReplicate') = Range(blobsToReplicate) \cup (IF new THEN {o} ELSE {})
    <3>1. blobsToReplicate \in Seq(blobsSeen) /\ IsInjective(blobsToReplicate)
      BY Zenon DEF NestedInv, NestedTypeOK, WorkExclusive
    <3>2. CASE new
      BY <1>5, <3>1, <3>2, Enqueuing
    <3>3. CASE ~new
      BY Zenon, <1>5, <3>1, <3>3
    <3>4. QED
      BY Zenon, <3>2, <3>3
  <2>5. NestedTypeOK'
    BY Zenon, <1>1, <1>3, <1>5, <2>2, <2>3, <2>4 DEF NestedTypeOK, OthersWoken
  <2>6. WorkCounted'
    <3>1. new => \A v \in Workers : worker'[v].at # "waiting"
      <4> SUFFICES ASSUME new, NEW v \in Workers PROVE worker'[v].at # "waiting"
        BY Zenon
      <4>1. CASE v = w
        BY Zenon, <2>1, <2>2, <4>1
      <4>2. CASE v # w
        <5>1. worker'[v] = Woken(worker)[v]
          BY Zenon, <1>5, <4>2 DEF Woken
        <5>2. QED
          BY <5>1 DEF Woken, At
      <4>3. QED
        BY Zenon, <4>1, <4>2
    <3>2. w \in Active'
      BY Zenon, <2>1, <2>2 DEF Active
    <3>3. QED
      BY Zenon, <1>1, <1>5, <2>2, <2>3, <3>1, <3>2, ActivePreserves
  <2>7. \A v \in Workers, x \in DOMAIN Objects : Holds(v, x)' <=> Holds(v, x)
    BY Zenon, <1>1, <2>1, <2>2, OthersKeep DEF Holds
  <2>8. WorkExclusive'
    BY Zenon, <1>5, <2>4, <2>7 DEF NestedInv, WorkExclusive
  <2>9. ReplicatedOnce'
    <3>1. ASSUME NEW v \in Workers, NEW x \in DOMAIN Objects, Holds(v, x)', worker'[v].at = "replicate"
          PROVE  Holds(v, x) /\ worker[v].at = "replicate"
      BY Zenon, <1>1, <2>1, <2>2, <2>7, <3>1, OthersKeep
    <3>2. QED
      BY Zenon, <1>5, <2>3, <2>4, <3>1 DEF NestedInv, ReplicatedOnce
  <2>10. NothingForgotten'
    <3>1. ASSUME NEW v \in Workers, worker'[v].at = "expand"
          PROVE  /\ replicated[worker'[v].object] > 0
                 /\ Range(Nested(worker'[v].object)) \subseteq blobsSeen' \cup Range(worker'[v].nested)
      <4>1. CASE v = w
        BY Zenon, <1>1, <1>3, <1>5, <2>1, <2>2, <4>1 DEF NestedInv, NothingForgotten
      <4>2. CASE v # w
        <5>1. worker'[v] = worker[v] /\ worker[v].at = "expand"
          BY Zenon, <1>1, <2>2, <3>1, <4>2, OthersKeep
        <5>2. QED
          BY Zenon, <1>5, <5>1 DEF NestedInv, NothingForgotten
      <4>3. QED
        BY Zenon, <4>1, <4>2
    <3>2. Failed => Failed'
      BY Zenon, <1>1, <2>2, OthersKeep DEF Failed
    <3>3. \A x \in blobsSeen : Done(x) => Done(x)'
      BY Zenon, <1>5, <2>3 DEF Done
    <3>4. QED
      BY SMTT(30), <1>1, <1>5, <2>3, <2>4, <2>7, <3>1, <3>2, <3>3 DEF NestedInv, NothingForgotten, NestedTypeOK
  <2>11. QED
    BY Zenon, <2>5, <2>6, <2>8, <2>9, <2>10 DEF NestedInv
<1>6. QED
  BY Zenon, <1>4, <1>5 DEF Enqueue

(* Once the files of an object have been replicated it is done. *)
LEMMA ReplicateFilesPreserves ==
  ASSUME NestedInv, NEW w \in Workers, ReplicateFiles(w)
  PROVE  NestedInv'
<1> DEFINE after == [at |-> "complete", err |-> FALSE]
<1>1. worker[w].at = "expand" /\ worker[w].nested = <<>> /\ w \in Active /\ NestedTypeOK
  BY Zenon DEF ReplicateFiles, Active, NestedInv
<1>2. PICK o \in DOMAIN Objects : o = worker[w].object /\ FilesOf(o) \subseteq AllFiles
  <2>1. worker[w].object \in DOMAIN Objects
    BY <1>1, Zenon DEF NestedTypeOK, WorkerState
  <2>2. QED
    BY Zenon, <2>1 DEF AllFiles
<1>3. CASE worker' = [worker EXCEPT ![w] = [at |-> "complete", err |-> TRUE]] /\ UNCHANGED replicated
  BY <1>1, <1>3, ActiveFails, Zenon DEF ReplicateFiles
<1>4. CASE /\ replicated' = [f \in DOMAIN replicated |-> replicated[f] + (IF f \in FilesOf(o) THEN 1 ELSE 0)]
           /\ worker' = [worker EXCEPT ![w] = after]
  <2>1. after \in WorkerState /\ after.at = "complete" /\ ~after.err
    BY Zenon DEF WorkerState
  <2> HIDE DEF after
  <2>2. OthersWoken(w) /\ worker'[w] = after
    BY <1>1, <1>4, <2>1, StepsWake, Zenon
  <2>3. UNCHANGED <<blobsSeen, blobsToReplicate, blobsReplicating>>
    BY Zenon DEF ReplicateFiles
  <2>4. /\ replicated' \in [DOMAIN Objects \cup AllFiles -> Nat]
        /\ \A x \in DOMAIN Objects \cup AllFiles :
             replicated'[x] = IF x \in FilesOf(o) THEN replicated[x] + 1 ELSE replicated[x]
    BY <1>1, <1>4 DEF NestedTypeOK
  <2>5. NestedTypeOK'
    BY Zenon, <1>1, <2>2, <2>3, <2>4 DEF NestedTypeOK, OthersWoken
  <2>6. WorkCounted'
    BY Zenon, <1>1, <2>1, <2>2, <2>3, ActivePreserves DEF Active
  <2>7. \A v \in Workers, x \in DOMAIN Objects : Holds(v, x)' <=> Holds(v, x) /\ v # w
    BY Zenon, <1>1, <2>1, <2>2, OthersKeep DEF Holds
  <2>8. WorkExclusive'
    BY Zenon, <2>3, <2>7 DEF WorkExclusive, NestedInv
  <2>9. ReplicatedOnce'
    <3>1. ASSUME NEW v \in Workers, NEW x \in DOMAIN Objects, Holds(v, x)', worker'[v].at = "replicate"
          PROVE  Holds(v, x) /\ worker[v].at = "replicate"
      BY Zenon, <1>1, <2>1, <2>2, <2>7, <3>1, OthersKeep
    <3>2. \A x \in DOMAIN Objects \ AllFiles : replicated'[x] = replicated[x]
      BY Zenon, <1>2, <2>4
    <3>3. QED
      BY Zenon, <2>3, <3>1, <3>2 DEF NestedInv, ReplicatedOnce
  <2>10. NothingForgotten'
    <3>1. \A x \in DOMAIN Objects \cup AllFiles : replicated[x] > 0 => replicated'[x] > 0
      BY SMTT(30), <1>1, <2>4 DEF NestedTypeOK
    <3>2. ASSUME NEW v \in Workers, worker'[v].at = "expand"
          PROVE  /\ replicated'[worker'[v].object] > 0
                 /\ Range(Nested(worker'[v].object)) \subseteq blobsSeen \cup Range(worker'[v].nested)
      <4>1. v # w
        BY Zenon, <2>1, <2>2, <3>2
      <4>2. worker'[v] = worker[v] /\ worker[v].at = "expand"
        BY Zenon, <1>1, <2>2, <3>2, <4>1, OthersKeep
      <4>3. worker[v].object \in DOMAIN Objects
        BY <1>1, <4>2, Zenon DEF NestedTypeOK, WorkerState
      <4>4. QED
        BY Zenon, <3>1, <4>2, <4>3 DEF NestedInv, NothingForgotten
    <3>3. Failed => Failed'
      BY Zenon, <1>1, <2>2, OthersKeep DEF Failed
    <3>4. \A x \in blobsSeen : Done(x) => Done(x)'
      BY Zenon, <1>1, <2>3, <3>1 DEF Done, NestedTypeOK, AllFiles
    <3>5. Done(o)'
      <4>1. replicated[o] > 0 /\ Range(Nested(o)) \subseteq blobsSeen
        BY <1>1, <1>2 DEF NestedInv, NothingForgotten, Range
      <4>2. \A f \in FilesOf(o) : replicated'[f] > 0
        BY <1>1, <1>2, <2>4 DEF NestedTypeOK
      <4>3. QED
        BY Zenon, <1>2, <2>3, <3>1, <4>1, <4>2 DEF Done
    <3>6. Holds(w, o) /\ \A x \in DOMAIN Objects : Holds(w, x) => x = o
      BY Zenon, <1>1, <1>2 DEF Holds
    <3>7. ASSUME NEW x \in blobsSeen, NEW v \in Workers, Holds(v, x) PROVE Holds(v, x)' \/ Done(x)'
      BY Zenon, <1>1, <2>7, <3>5, <3>6, <3>7 DEF NestedTypeOK
    <3>8. QED
      BY Zenon, <2>3, <3>2, <3>3, <3>4, <3>7 DEF NestedInv, NothingForgotten
  <2>11. QED
    BY Zenon, <2>5, <2>6, <2>8, <2>9, <2>10 DEF NestedInv
<1>5. QED
  BY Zenon, <1>2, <1>3, <1>4 DEF ReplicateFiles

(* A goroutine that completed an object goes on to the next one, unless it *)
(* failed.                                                                 *)
LEMMA CompletePreserves ==
  ASSUME NestedInv, NEW w \in Workers, Complete(w)
  PROVE  NestedInv'
<1> DEFINE left == blobsReplicating - 1
           err == worker[w].err
           others == IF blobsToReplicate = <<>> /\ left = 0 THEN Woken(worker) ELSE worker
           after == IF err THEN At("error") ELSE Dequeued(left)
<1>1. worker[w].at = "complete" /\ w \in Active /\ NestedTypeOK /\ err \in BOOLEAN
  <2>1. worker[w].at = "complete" /\ NestedTypeOK
    BY Zenon DEF Complete, NestedInv
  <2>2. worker[w] \in [at : {"complete"}, err : BOOLEAN]
    BY <2>1, Zenon DEF NestedTypeOK, WorkerState
  <2>3. QED
    BY Zenon, <2>1, <2>2 DEF Active
<1>2. /\ worker' = [others EXCEPT ![w] = after]
      /\ blobsToReplicate' = IF err THEN blobsToReplicate ELSE Remaining
      /\ blobsReplicating' = IF err THEN left ELSE Taking(left)
      /\ UNCHANGED <<blobsSeen, replicated>>
  BY Zenon DEF Complete
<1>3. after \in WorkerState
  <2>1. At("error") \in WorkerState /\ At("ok") \in WorkerState /\ At("waiting") \in WorkerState
    BY Zenon DEF At, WorkerState
  <2>2. ASSUME blobsToReplicate # <<>> PROVE [at |-> "replicate", object |-> Head(blobsToReplicate)] \in WorkerState
    <3>1. Head(blobsToReplicate) \in DOMAIN Objects
      BY Zenon, <1>1, <2>2, Splitting DEF NestedTypeOK
    <3>2. QED
      BY <3>1, Zenon DEF WorkerState
  <2>3. QED
    BY Zenon, <2>1, <2>2 DEF Dequeued
<1>4. OthersWoken(w) /\ worker'[w] = after
  <2> HIDE DEF after
  <2>1. QED
    BY <1>1, <1>2, <1>3, StepsWake, Zenon
<1>5. left \in Nat /\ left = Cardinality(Active \ {w})
  <2>1. /\ Cardinality(Active \ {w}) \in Nat /\ Cardinality(Active) = Cardinality(Active \ {w}) + 1
    BY <1>1, <1>4, Recounted, Zenon
  <2>2. QED
    BY <2>1 DEF NestedInv, WorkCounted
<1>6. ASSUME blobsToReplicate = <<>>, left = 0, NEW v \in Workers \ {w} PROVE worker'[v].at # "waiting"
  <2>1. worker'[v] = Woken(worker)[v]
    BY Zenon, <1>2, <1>6 DEF Woken
  <2>2. QED
    BY <2>1 DEF Woken, At
<1>7. CASE err
  <2>1. worker'[w].at = "error" /\ w \notin Active'
    BY <1>4, <1>7 DEF At, Active
  <2>2. Cardinality(Active') = left
    BY Zenon, <1>1, <1>4, <1>5, <2>1, Recounted
  <2>3. ASSUME NEW v \in Workers \ {w}, worker'[v].at = "waiting" PROVE blobsToReplicate = <<>> /\ Active' # {}
    <3>1. blobsToReplicate = <<>>
      BY Zenon, <1>1, <1>4, <2>3, OthersKeep DEF NestedInv, WorkCounted
    <3>2. left # 0
      BY Zenon, <1>6, <2>3, <3>1
    <3>3. QED
      BY Zenon, <2>2, <3>1, <3>2, FS_EmptySet
  <2>4. blobsReplicating' = Cardinality(Active') /\ UNCHANGED <<blobsToReplicate, blobsSeen, replicated>>
    BY Zenon, <1>2, <1>7, <2>2
  <2>5. QED
    BY <1>4, <2>1, <2>3, <2>4, FailingPreserves, Zenon
<1>8. CASE ~err
  <2> HIDE DEF left, others
  <2>1. /\ worker'[w] = Dequeued(left) /\ blobsToReplicate' = Remaining
        /\ blobsReplicating' = Taking(left) /\ UNCHANGED <<blobsSeen, replicated>>
    BY Zenon, <1>2, <1>4, <1>8
  <2>2. QED
    BY Zenon, <1>1, <1>4, <1>5, <1>6, <1>8, <2>1, DequeuedPreserves
<1>9. QED
  BY Zenon, <1>1, <1>7, <1>8

(* A goroutine that starts, or was woken up, looks for work. *)
LEMMA LoopPreserves ==
  ASSUME NestedInv, NEW w \in Workers, Loop(w)
  PROVE  NestedInv'
<1>1. worker[w].at = "start" /\ w \notin Active /\ NestedTypeOK /\ WorkCounted
  BY Zenon DEF Loop, Active, NestedInv
<1>2. Dequeued(blobsReplicating) \in WorkerState
  <2>1. At("ok") \in WorkerState /\ At("waiting") \in WorkerState
    BY Zenon DEF At, WorkerState
  <2>2. ASSUME blobsToReplicate # <<>> PROVE [at |-> "replicate", object |-> Head(blobsToReplicate)] \in WorkerState
    <3>1. Head(blobsToReplicate) \in DOMAIN Objects
      BY Zenon, <1>1, <2>2, Splitting DEF NestedTypeOK
    <3>2. QED
      BY <3>1, Zenon DEF WorkerState
  <2>3. QED
    BY Zenon, <2>1, <2>2 DEF Dequeued
<1>3. OthersWoken(w) /\ worker'[w] = Dequeued(blobsReplicating)
  BY <1>1, <1>2, StepsWake, Zenon DEF Loop
<1>4. blobsReplicating \in Nat /\ blobsReplicating = Cardinality(Active \ {w})
  <2>1. Active \ {w} = Active
    BY Zenon, <1>1
  <2>2. QED
    BY <1>1, <2>1, Zenon DEF NestedTypeOK, WorkCounted
<1>5. ASSUME blobsReplicating = 0, NEW v \in Workers \ {w} PROVE worker'[v].at # "waiting"
  BY <1>1, <1>3, <1>5, OthersKeep DEF WorkCounted
<1>6. QED
  BY <1>1, <1>3, <1>4, <1>5, DequeuedPreserves, Zenon DEF Loop

(* A goroutine that waits gives up. *)
LEMMA CancelWaitPreserves ==
  ASSUME NestedInv, NEW w \in Workers, CancelWait(w)
  PROVE  NestedInv'
<1>1. worker[w].at = "waiting" /\ w \notin Active /\ NestedTypeOK /\ WorkCounted
  BY Zenon DEF CancelWait, Active, NestedInv
<1>2. At("error") \in WorkerState /\ At("error").at = "error"
  BY Zenon DEF At, WorkerState
<1>3. OthersWoken(w) /\ worker'[w] = At("error")
  BY <1>1, <1>2, StepsWake, Zenon DEF CancelWait
<1>4. w \notin Active' /\ Active' = Active
  <2>1. w \notin Active'
    BY Zenon, <1>2, <1>3 DEF Active
  <2>2. Active' \ {w} = Active \ {w}
    BY <1>1, <1>3, Recounted, Zenon
  <2>3. QED
    BY <1>1, <2>1, <2>2
<1>5. UNCHANGED <<blobsSeen, blobsToReplicate, blobsReplicating, replicated>> /\ blobsReplicating = Cardinality(Active)
  BY Zenon, <1>1 DEF CancelWait, WorkCounted
<1>6. blobsToReplicate = <<>> /\ Active # {}
  BY <1>1, FS_EmptySet DEF WorkCounted
<1>7. QED
  BY <1>2, <1>3, <1>4, <1>5, <1>6, FailingPreserves, Zenon

(* Whatever the hierarchy of objects is, NestedBlobReplicator replicates   *)
(* all of it, each object once, and no goroutine waits for work that will  *)
(* not appear (NestedObjectsReplicated).                                   *)
THEOREM HierarchyReplicated == NestedSpec => []NestedObjectsReplicated
<1>1. NestedInit => NestedInv
  <2> SUFFICES ASSUME NestedInit PROVE NestedInv
    BY Zenon
  <2>1. PICK root \in DOMAIN Objects : blobsSeen = {root} /\ blobsToReplicate = <<root>>
    BY Zenon, NestedAssumption DEF NestedInit
  <2>2. \A w \in Workers : worker[w] = At("start") /\ worker[w].at = "start"
    BY Zenon DEF NestedInit, At
  <2>3. At("start") \in WorkerState /\ \A o \in DOMAIN Objects \cup AllFiles : replicated[o] = 0
    BY Zenon DEF NestedInit, At, WorkerState
  <2>4. Range(blobsToReplicate) = {root} /\ IsInjective(blobsToReplicate) /\ blobsToReplicate \in Seq(blobsSeen)
    BY <2>1 DEF Range, IsInjective
  <2>5. NestedTypeOK
    BY Zenon, <2>1, <2>3, <2>4 DEF NestedTypeOK, NestedInit
  <2>6. WorkCounted
    <3>1. Active = {}
      BY Zenon, <2>2 DEF Active
    <3>2. QED
      BY Zenon, <2>2, <3>1, FS_EmptySet DEF WorkCounted, NestedInit
  <2>7. WorkExclusive /\ ReplicatedOnce /\ NothingForgotten
    BY <2>1, <2>2, <2>3, <2>4 DEF WorkExclusive, ReplicatedOnce, NothingForgotten, Holds
  <2>8. QED
    BY Zenon, <2>5, <2>6, <2>7 DEF NestedInv
<1>2. NestedInv /\ [NestedNext]_nestedVars => NestedInv'
  <2> SUFFICES ASSUME NestedInv, [NestedNext]_nestedVars PROVE NestedInv'
    BY Zenon
  <2>1. CASE NestedNext
    BY Zenon, <2>1, LoopPreserves, ReplicateSinglePreserves, EnqueuePreserves, ReplicateFilesPreserves,
       CompletePreserves, CancelWaitPreserves DEF NestedNext
  <2>2. CASE UNCHANGED nestedVars
    BY Zenon, <2>2 DEF nestedVars, NestedInv, NestedTypeOK, WorkCounted, WorkExclusive, ReplicatedOnce, NothingForgotten,
                Active, Holds, Done, Failed
  <2>3. QED
    BY Zenon, <2>1, <2>2
<1>3. NestedInv => NestedObjectsReplicated
  <2> SUFFICES ASSUME NestedInv PROVE NestedObjectsReplicated
    BY Zenon
  <2>1. \A o \in DOMAIN Objects \ AllFiles : replicated[o] <= 1
    BY Zenon DEF NestedInv, ReplicatedOnce
  <2>2. "ok" \in States => blobsToReplicate = <<>> /\ blobsReplicating = 0
    BY Zenon DEF NestedInv, WorkCounted, States
  <2>3. "waiting" \in States => States \cap {"start", "replicate", "expand", "complete"} # {}
    <3> SUFFICES ASSUME "waiting" \in States PROVE States \cap {"replicate", "expand", "complete"} # {}
      BY Zenon
    <3>1. Cardinality(Active) > 0
      BY Zenon DEF NestedInv, WorkCounted, States
    <3>2. Active # {}
      BY <3>1, FS_EmptySet
    <3>3. QED
      BY Zenon, <3>2 DEF Active, States
  <2>4. ASSUME States = {"ok"}, NEW o \in blobsSeen PROVE Done(o)
    <3>1. \A w \in Workers : worker[w].at = "ok"
      BY Zenon, <2>4 DEF States
    <3>2. o \notin Range(blobsToReplicate)
      BY <2>2, <2>4 DEF Range
    <3>3. ~Failed /\ \A w \in Workers : ~Holds(w, o)
      BY Zenon, <3>1 DEF Failed, Holds
    <3>4. QED
      BY Zenon, <2>4, <3>2, <3>3 DEF NestedInv, NothingForgotten
  <2>5. QED
    BY Zenon, <2>1, <2>2, <2>3, <2>4 DEF NestedObjectsReplicated, Done
<1>4. QED
  BY <1>1, <1>2, <1>3, PTL DEF NestedSpec
=============================================================================
