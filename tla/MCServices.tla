----------------------------- MODULE MCServices -----------------------------
(***************************************************************************)
(* Model checking of components that don't interact with each other, and   *)
(* in which something must eventually happen.  Each behaviour is one of    *)
(* one of them; the others stay in an initial state, in which no step that *)
(* is subject to fairness can be taken.                                    *)
(***************************************************************************)
EXTENDS BlobReplicators, ProgramGroups, ZSTDPool, RemoteVerdicts, ClonedBuffers

VARIABLE component

vars == <<component, replicatorVars, programVars, poolVars, authVars, cloneVars>>

Init ==
  /\ component \in {"replicators", "program", "pool", "verdicts", "clones"}
  /\ ReplicatorInit /\ (component = "replicators" \/ stack = "queued")
  /\ ProgramInit /\ (component = "program" \/ mode = "main")
  /\ PoolInit /\ (component = "pool" \/ ~Bounded)
  /\ AuthInit
  /\ CloneInit
  /\ component # "verdicts" => decider = "authorizer" /\ authCacheSize = 0

Next ==
  /\ \/ component = "replicators" /\ ReplicatorNext /\ UNCHANGED <<programVars, poolVars, authVars, cloneVars>>
     \/ component = "program" /\ ProgramNext /\ UNCHANGED <<replicatorVars, poolVars, authVars, cloneVars>>
     \/ component = "pool" /\ PoolNext /\ UNCHANGED <<replicatorVars, programVars, authVars, cloneVars>>
     \/ component = "verdicts" /\ AuthNext /\ UNCHANGED <<replicatorVars, programVars, poolVars, cloneVars>>
     \/ component = "clones" /\ CloneNext /\ UNCHANGED <<replicatorVars, programVars, poolVars, authVars>>
  /\ UNCHANGED component

Fairness == ReplicatorFairness /\ ProgramFairness /\ PoolFairness /\ AuthFairness /\ CloneFairness

Spec == Init /\ [][Next]_vars /\ Fairness

(* Nobody waits for ever: calls to replicators return, programs exit after *)
(* a signal or when their routines have returned, those who wait for a     *)
(* coder obtain one, and calls for a verdict return, also if those that    *)
(* they wait for fail or are canceled, and consumers of a cloned buffer    *)
(* get to see all of it, also if others leave.                             *)
ServicesProgress == CallsReturn /\ ProgramExits /\ CodersObtained /\ VerdictsReturned /\ ClonesServed
=============================================================================
