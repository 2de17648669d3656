------------------------------ MODULE ZSTDPool ------------------------------
(***************************************************************************)
(* The pools of ZSTD encoders and decoders (pkg/zstd): a boundedPool or an *)
(* unboundedPool, decorated by metricsPool.  Encoders and decoders are     *)
(* "coders" that only differ in that resetting a decoder to the next       *)
(* stream may fail.                                                        *)
(***************************************************************************)
EXTENDS Integers, FiniteSets

CONSTANTS
  Streams,           \* concurrent callers
  MaximumCoders,     \* configured maximum
  NoCoder

ASSUME PoolAssumption ==
  IsFiniteSet(Streams) /\ MaximumCoders \in Nat \ {0} /\ NoCoder \notin Nat \ {0}

VARIABLES
  poolBound,         \* MaximumCoders, or 0 for an unboundedPool
  coderSem,          \* permits of the semaphore
  coderPool,         \* coders that can be reused
  coders,            \* how many were created
  stream,            \* what each caller is doing
  poolMetrics        \* counters of metricsPool

poolVars == <<poolBound, coderSem, coderPool, coders, stream, poolMetrics>>

Idle(at) == [at |-> at, coder |-> NoCoder, canceled |-> FALSE]

PoolInit ==
  /\ poolBound \in {0, MaximumCoders}
  /\ coderSem = poolBound
  /\ coderPool = {}
  /\ coders = 0
  /\ stream = [s \in Streams |-> Idle("idle")]
  /\ poolMetrics = [acquisitions |-> 0, rejections |-> 0, releases |-> 0]

Bounded == poolBound > 0

(* NewEncoder() and NewDecoder() start to wait for the semaphore. *)
NewCoder(s) ==
  /\ stream[s].at = "idle"
  /\ stream' = [stream EXCEPT ![s].at = "acquire"]
  /\ UNCHANGED <<poolBound, coderSem, coderPool, coders, poolMetrics>>

CancelStream(s) ==
  /\ stream[s].at = "acquire" /\ ~stream[s].canceled
  /\ stream' = [stream EXCEPT ![s].canceled = TRUE]
  /\ UNCHANGED <<poolBound, coderSem, coderPool, coders, poolMetrics>>

(* AcquireSemaphore() fails if the context is canceled, unless that        *)
(* happened while waiting and a permit became available at the same time.  *)
Acquire(s) ==
  /\ stream[s].at = "acquire"
  /\ \/ /\ Bounded => coderSem > 0
        /\ coderSem' = IF Bounded THEN coderSem - 1 ELSE coderSem
        /\ stream' = [stream EXCEPT ![s].at = "get"]
        /\ UNCHANGED poolMetrics
     \/ /\ Bounded /\ stream[s].canceled
        /\ stream' = [stream EXCEPT ![s] = Idle("rejected")]
        /\ poolMetrics' = [poolMetrics EXCEPT !.rejections = @ + 1]
        /\ UNCHANGED coderSem
  /\ UNCHANGED <<poolBound, coderPool, coders>>

(* A coder is obtained from the pool, or created, and reset. *)
GetCoder(s) ==
  /\ stream[s].at = "get"
  /\ \E coder \in (IF Bounded THEN coderPool ELSE {}) \cup {coders + 1} :
       /\ coderPool' = coderPool \ {coder}
       /\ coders' = IF coder > coders THEN coder ELSE coders
       /\ stream' = [stream EXCEPT ![s].at = "open", ![s].coder = coder]
  /\ poolMetrics' = [poolMetrics EXCEPT !.acquisitions = @ + 1]
  /\ UNCHANGED <<poolBound, coderSem>>

(* Mutant: the permit is not released. *)
ResetFailsLeaking(s) ==
  /\ stream[s].at = "get"
  /\ stream' = [stream EXCEPT ![s] = Idle("rejected")]
  /\ poolMetrics' = [poolMetrics EXCEPT !.rejections = @ + 1]
  /\ UNCHANGED <<poolBound, coderSem, coderPool, coders>>

(* Reset() of a decoder fails, which is dropped. *)
ResetFails(s) ==
  /\ stream[s].at = "get"
  /\ coderSem' = IF Bounded THEN coderSem + 1 ELSE coderSem
  /\ stream' = [stream EXCEPT ![s] = Idle("rejected")]
  /\ poolMetrics' = [poolMetrics EXCEPT !.rejections = @ + 1]
  /\ UNCHANGED <<poolBound, coderPool, coders>>

(* Close(), which may be called repeatedly. *)
CloseCoder(s) ==
  /\ stream[s].at \in {"open", "closed"}
  /\ IF stream[s].coder = NoCoder
     THEN UNCHANGED poolVars
     ELSE /\ coderPool' = IF Bounded THEN coderPool \cup {stream[s].coder} ELSE coderPool
          /\ coderSem' = IF Bounded THEN coderSem + 1 ELSE coderSem
          /\ stream' = [stream EXCEPT ![s] = Idle("closed")]
          /\ poolMetrics' = [poolMetrics EXCEPT !.releases = @ + 1]
          /\ UNCHANGED <<poolBound, coders>>

PoolNext == \E s \in Streams : NewCoder(s) \/ CancelStream(s) \/ Acquire(s) \/ GetCoder(s) \/ ResetFails(s) \/ CloseCoder(s)

PoolSpec == PoolInit /\ [][PoolNext]_poolVars

(* Callers close what they open, and semaphore.Weighted serves those that  *)
(* wait in order.                                                          *)
PoolFairness ==
  \A s \in Streams :
    /\ SF_poolVars(Acquire(s))
    /\ WF_poolVars(GetCoder(s) \/ ResetFails(s))
    /\ WF_poolVars(stream[s].at = "open" /\ CloseCoder(s))

-----------------------------------------------------------------------------
Open == {s \in Streams : stream[s].coder # NoCoder}
Permitted == Open \cup {s \in Streams : stream[s].at = "get"}
Rejected == {s \in Streams : stream[s].at = "rejected"}

(* No more coders are in use than is configured, no coder is used by two   *)
(* streams or while it is in the pool, and no permits get lost, regardless *)
(* of cancellation, of coders that can't be reset, and of repeated calls   *)
(* to Close().  The metrics account for all calls.                         *)
CodersExclusive ==
  /\ \A s, t \in Open : s # t => stream[s].coder # stream[t].coder
  /\ \A s \in Open : stream[s].coder \notin coderPool
  /\ Bounded => coderSem + Cardinality(Permitted) = poolBound
  /\ poolMetrics.acquisitions - poolMetrics.releases = Cardinality(Open)
  /\ poolMetrics.rejections = Cardinality(Rejected)

(* Those who wait for a coder don't do so for ever. *)
CodersObtained == \A s \in Streams : stream[s].at = "acquire" ~> stream[s].at # "acquire"
=============================================================================
