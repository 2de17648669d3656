--------------------------- MODULE ProgramGroups ---------------------------
(***************************************************************************)
(* RunMain() and RunLocal(): a program whose goroutines are organized in   *)
(* groups of siblings that have dependencies, and that shuts down these    *)
(* groups one after the other (pkg/program).                               *)
(*                                                                         *)
(* A routine may launch others while it runs.  It may return at any time,  *)
(* with or without an error, and eventually does once its context is       *)
(* canceled.                                                               *)
(***************************************************************************)
EXTENDS Integers, Sequences, FiniteSets

CONSTANTS
  MaxRoutines,     \* bound on the routines that are launched
  MaxFailing       \* bound on the routines that fail

VARIABLES
  mode,            \* "main", or "pid1" if it is the process to reap all others, or "local"
  parentProcess,   \* the process that relaunched this one: what it does with signals
  routines,        \* sequence of [group, at, failed]
  groups,          \* sequence of siblings groups: [parent, siblingsActive, canceled]
  contextCanceled, \* the context of the first group
  shutdown,        \* what startShutdown() or Log() was first called for
  signalled,
  mainRoutine,     \* what the goroutine that calls run() is doing
  exitStatus

programVars == <<mode, parentProcess, routines, groups, contextCanceled, shutdown, signalled, mainRoutine, exitStatus>>

(* newSiblingsGroup(), which contains one routine.  "canceled" is the      *)
(* state of the context of its dependencies.                               *)
NewSiblingsGroup(parent) == [parent |-> parent, siblingsActive |-> 1, canceled |-> FALSE]

NewRoutine(g) == [group |-> g, at |-> "running", failed |-> FALSE]

ProgramInit ==
  /\ mode \in {"main", "pid1", "local"}
  /\ parentProcess = IF mode = "pid1" THEN "ignoring" ELSE "none"
  /\ groups = <<NewSiblingsGroup(0)>>
  /\ routines = <<NewRoutine(1)>>
  /\ contextCanceled = FALSE
  /\ shutdown = "none"
  /\ signalled = FALSE
  /\ mainRoutine = "wait"
  /\ exitStatus = "none"

Canceled(g) == IF groups[g].parent = 0 THEN contextCanceled ELSE groups[groups[g].parent].canceled

Running(r) == r \in DOMAIN routines /\ routines[r].at = "running"

-----------------------------------------------------------------------------
(* siblingsGroup.Go() and dependenciesGroup.Go(), called by a routine of   *)
(* the group.                                                              *)

GoSibling(r) ==
  LET g == routines[r].group
  IN  /\ Running(r) /\ Len(routines) < MaxRoutines
      /\ groups' = [groups EXCEPT ![g].siblingsActive = @ + 1]
      /\ routines' = Append(routines, NewRoutine(g))
      /\ UNCHANGED <<mode, parentProcess, contextCanceled, shutdown, signalled, mainRoutine, exitStatus>>

GoDependency(r) ==
  /\ Running(r) /\ Len(routines) < MaxRoutines
  /\ groups' = Append(groups, NewSiblingsGroup(routines[r].group))
  /\ routines' = Append(routines, NewRoutine(Len(groups) + 1))
  /\ UNCHANGED <<mode, parentProcess, contextCanceled, shutdown, signalled, mainRoutine, exitStatus>>

RoutineReturns(r) ==
  /\ Running(r)
  /\ routines' = [routines EXCEPT ![r].at = "returned"]
  /\ UNCHANGED <<mode, parentProcess, groups, contextCanceled, shutdown, signalled, mainRoutine, exitStatus>>

FailedRoutines == {r \in DOMAIN routines : routines[r].failed}

RoutineFails(r) ==
  /\ Running(r) /\ Cardinality(FailedRoutines) < MaxFailing
  /\ routines' = [routines EXCEPT ![r].at = "log", ![r].failed = TRUE]
  /\ UNCHANGED <<mode, parentProcess, groups, contextCanceled, shutdown, signalled, mainRoutine, exitStatus>>

(* sync.Once: only the first reason counts. *)
StartShutdown(reason) ==
  /\ shutdown' = IF shutdown = "none" THEN reason ELSE shutdown
  /\ contextCanceled' = TRUE

(* The error logger of RunMain() and of RunLocal(). *)
LogError(r) ==
  /\ r \in DOMAIN routines /\ routines[r].at = "log"
  /\ StartShutdown("error")
  /\ routines' = [routines EXCEPT ![r].at = "returned"]
  /\ UNCHANGED <<mode, parentProcess, groups, signalled, mainRoutine, exitStatus>>

(* Mutant: dependencies are canceled together with their siblings. *)
RoutineEndsEarly(r) ==
  LET g == routines[r].group
  IN  /\ r \in DOMAIN routines /\ routines[r].at = "returned"
      /\ groups' = [groups EXCEPT ![g].siblingsActive = @ - 1, ![g].canceled = TRUE]
      /\ routines' = [routines EXCEPT ![r].at = "ended"]
      /\ UNCHANGED <<mode, parentProcess, contextCanceled, shutdown, signalled, mainRoutine, exitStatus>>

(* The end of runRoutine(): the last sibling cancels the dependencies. *)
RoutineEnds(r) ==
  LET g == routines[r].group
  IN  /\ r \in DOMAIN routines /\ routines[r].at = "returned"
      /\ groups' = [groups EXCEPT ![g].siblingsActive = @ - 1, ![g].canceled = groups[g].siblingsActive = 1]
      /\ routines' = [routines EXCEPT ![r].at = "ended"]
      /\ UNCHANGED <<mode, parentProcess, contextCanceled, shutdown, signalled, mainRoutine, exitStatus>>

-----------------------------------------------------------------------------
(* Signals, or cancellation of the context that RunLocal() is called with. *)

ReceiveSignal ==
  /\ ~signalled /\ exitStatus = "none"
  /\ parentProcess # "ignoring"
  /\ signalled' = TRUE
  /\ IF mode = "local" THEN contextCanceled' = TRUE /\ UNCHANGED shutdown ELSE StartShutdown("signal")
  /\ UNCHANGED <<mode, parentProcess, routines, groups, mainRoutine, exitStatus>>

(* relaunchIfPID1() ignores signals until it is ready to forward them. *)
ForwardSignals ==
  /\ parentProcess = "ignoring"
  /\ parentProcess' = "forwarding"
  /\ UNCHANGED <<mode, routines, groups, contextCanceled, shutdown, signalled, mainRoutine, exitStatus>>

-----------------------------------------------------------------------------
(* siblingsGroupsCount.Wait() of run() returns.  It was decremented after  *)
(* the dependencies of a group were canceled.                              *)
RunReturns ==
  /\ mainRoutine = "wait"
  /\ \A g \in DOMAIN groups : groups[g].siblingsActive = 0
  /\ mainRoutine' = "shutdown"
  /\ UNCHANGED <<mode, parentProcess, routines, groups, contextCanceled, shutdown, signalled, exitStatus>>

FinalShutdown ==
  /\ mainRoutine = "shutdown"
  /\ StartShutdown("done")
  /\ mainRoutine' = "exit"
  /\ UNCHANGED <<mode, parentProcess, routines, groups, signalled, exitStatus>>

(* shutdownFunc(), or returning the first error.  Terminating with a       *)
(* signal falls back to exiting with an error.                             *)
Exit ==
  /\ mainRoutine = "exit"
  /\ exitStatus' \in CASE shutdown = "error"  -> {"1"}
                       [] shutdown = "signal" -> {"signal", "1"}
                       [] shutdown = "done"   -> {"0"}
  /\ mainRoutine' = "gone"
  /\ UNCHANGED <<mode, parentProcess, routines, groups, contextCanceled, shutdown, signalled>>

(* The process that relaunched this one propagates its status. *)
ParentExits ==
  /\ parentProcess \in {"ignoring", "forwarding"} /\ exitStatus # "none"
  /\ parentProcess' = "exited"
  /\ UNCHANGED <<mode, routines, groups, contextCanceled, shutdown, signalled, mainRoutine, exitStatus>>

ProgramNext ==
  \/ \E r \in 1 .. MaxRoutines :
       GoSibling(r) \/ GoDependency(r) \/ RoutineReturns(r) \/ RoutineFails(r) \/ LogError(r) \/ RoutineEnds(r)
  \/ ReceiveSignal \/ ForwardSignals \/ RunReturns \/ FinalShutdown \/ Exit \/ ParentExits

ProgramSpec == ProgramInit /\ [][ProgramNext]_programVars

(* Routines whose context is canceled return, and don't launch others for  *)
(* ever: the latter is ruled out by MaxRoutines.                           *)
ProgramFairness ==
  /\ \A r \in 1 .. MaxRoutines :
       /\ WF_programVars(Running(r) /\ Canceled(routines[r].group) /\ RoutineReturns(r))
       /\ WF_programVars(LogError(r)) /\ WF_programVars(RoutineEnds(r))
  /\ WF_programVars(RunReturns) /\ WF_programVars(FinalShutdown) /\ WF_programVars(Exit)

-----------------------------------------------------------------------------
(* A routine is only canceled after all of the routines that depend on it  *)
(* have returned, even if these were launched during shutdown.  The        *)
(* program exits after all routines have, and successfully only if none of *)
(* them failed.  RunLocal() returns an error if and only if one of them    *)
(* did.                                                                    *)
DependenciesOutliveSiblings ==
  /\ \A r \in DOMAIN routines :
       LET parent == groups[routines[r].group].parent
       IN  Canceled(routines[r].group) /\ parent # 0 =>
             \A s \in DOMAIN routines : routines[s].group = parent => routines[s].at = "ended"
  /\ exitStatus # "none" => \A r \in DOMAIN routines : routines[r].at = "ended"
  /\ exitStatus = "0" => FailedRoutines = {}
  /\ exitStatus # "none" /\ mode = "local" => (exitStatus = "1") = (FailedRoutines # {})

(* Once the context is canceled, or the first routine and its siblings     *)
(* have returned, the program exits.                                       *)
ProgramExits == (contextCanceled \/ groups[1].canceled) ~> exitStatus # "none"
=============================================================================
