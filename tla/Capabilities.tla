---------------------------- MODULE Capabilities ----------------------------
(***************************************************************************)
(* What a bb_storage server tells clients about itself, and where it sends *)
(* requests to execute actions (pkg/capabilities, pkg/builder and          *)
(* cmd/bb_storage/main.go).                                                *)
(*                                                                         *)
(* Capabilities are records of a code and of sets: cache capabilities and  *)
(* execution capabilities are the set of the features they list, absent    *)
(* ones are the empty set.  A version is a sequence of numbers, <<>> if    *)
(* absent.                                                                 *)
(***************************************************************************)
EXTENDS Authentication

Failed(code) == [code |-> code, cache |-> {}, execution |-> {}, low |-> <<>>, high |-> <<>>]

Provides(cache, execution, low, high) == [code |-> "OK", cache |-> cache, execution |-> execution, low |-> low, high |-> high]

(* Major, minor and patch versions, and the prerelease. *)
VersionIsLess(a, b) == \E i \in DOMAIN a : a[i] < b[i] /\ \A j \in 1 .. i - 1 : a[j] = b[j]

(* The range of versions narrows down. *)
MergeLowVersion(merged, low) ==
  IF merged = <<>> \/ (low # <<>> /\ VersionIsLess(merged, low)) THEN low ELSE merged

MergeHighVersion(merged, high) ==
  IF merged = <<>> \/ (high # <<>> /\ VersionIsLess(high, merged)) THEN high ELSE merged

MergeCapabilities(results) ==
  FoldLeft(LAMBDA m, r : Provides(m.cache \cup r.cache, m.execution \cup r.execution,
                                  MergeLowVersion(m.low, r.low), MergeHighVersion(m.high, r.high)),
           Provides({}, {}, <<>>, <<>>), results)

(* Errors that say that a subsystem isn't available to the client. *)
NotOffered == {"InvalidArgument", "NotFound", "PermissionDenied"}

(* The providers are called in parallel, so that any of the errors that    *)
(* end the call may be reported.                                           *)
MergedProvider(results) ==
  LET fatal  == {i \in DOMAIN results : results[i].code \notin NotOffered \cup {"OK"}}
      errors == SelectSeq(results, LAMBDA r : r.code \in NotOffered)
      merged == MergeCapabilities(results)
  IN  CASE results = <<>>   -> {Failed("NotFound")}
        [] Len(results) = 1 -> {results[1]}
        [] OTHER ->
             CASE fatal # {} -> {Failed(results[i].code) : i \in fatal}
               [] fatal = {} /\ merged.cache \cup merged.execution # {} -> {merged}
               [] OTHER -> {Failed(errors[1].code)}

AuthorizingProvider(base, verdict) == IF verdict = "OK" THEN base ELSE Failed(verdict)

(* Only if the backend offers updates of the Action Cache, the authorizer  *)
(* is asked.                                                               *)
ActionCacheUpdateEnabledClearingProvider(base, verdict) ==
  CASE base.code # "OK" \/ "updates" \notin base.cache \/ verdict = "OK" -> base
    [] base.code = "OK" /\ "updates" \in base.cache /\ verdict = "PermissionDenied" -> [base EXCEPT !.cache = @ \ {"updates"}]
    [] OTHER -> Failed(verdict)

-----------------------------------------------------------------------------
(* Build queues.  An operation's name is a sequence of pathname components *)
(* and slashes.                                                            *)

DemultiplexingSeparator == <<"/", "operations", "/">>

(* strings.SplitN(): where the separator occurs first, 0 if it doesn't. *)
SeparatorIndex(name) ==
  Min({i \in 1 .. Len(name) - 2 : SubSeq(name, i, i + 2) = DemultiplexingSeparator} \cup {Len(name) + 1}) % (Len(name) + 1)

(* The schedulers of the configuration: a sequence of the prefix to match, *)
(* the prefix to replace it by, and the backend.                           *)
NewDemultiplexingTrie(schedulers) ==
  FoldLeft(LAMBDA t, i : TrieSet(t, GetComponents(schedulers[i].match), i), NewInstanceNameTrie,
           [i \in DOMAIN schedulers |-> i])

GetBackend(schedulers, instanceName) ==
  LET index == GetLongestPrefix(NewDemultiplexingTrie(schedulers), GetComponents(instanceName))
  IN  IF index < 0
      THEN InvalidArgument
      ELSE [ok |-> TRUE, backend |-> schedulers[index].backend, backendName |-> schedulers[index].match,
            instanceName |-> PatchInstanceName(schedulers[index].match, schedulers[index].add, instanceName)]

(* Mutant: the prefix is taken from the request. *)
DemultiplexExecuteRequested(schedulers, value) ==
  LET name    == NewInstanceName(value)
      backend == GetBackend(schedulers, name.name)
  IN  IF ~name.ok \/ ~backend.ok
      THEN InvalidArgument
      ELSE [ok |-> TRUE, backend |-> backend.backend, instanceName |-> backend.instanceName,
            prefix |-> name.name \o Tail(DemultiplexingSeparator)]

(* The call that the backend gets, and what is put in front of the names   *)
(* of the operations that it sends.                                        *)
DemultiplexExecute(schedulers, value) ==
  LET name    == NewInstanceName(value)
      backend == GetBackend(schedulers, name.name)
  IN  IF ~name.ok \/ ~backend.ok
      THEN InvalidArgument
      ELSE [ok |-> TRUE, backend |-> backend.backend, instanceName |-> backend.instanceName,
            prefix |-> backend.backendName \o DemultiplexingSeparator]

DemultiplexWaitExecution(schedulers, operationName) ==
  LET at      == SeparatorIndex(operationName)
      target  == SubSeq(operationName, 1, at - 1)
      backend == GetBackend(schedulers, target)
  IN  IF at = 0 \/ ~NewInstanceName(target).ok \/ ~backend.ok
      THEN InvalidArgument
      ELSE [ok |-> TRUE, backend |-> backend.backend, name |-> SubSeq(operationName, at + 3, Len(operationName)),
            prefix |-> target \o DemultiplexingSeparator]

OperationNamePrepender(prefix, name) == prefix \o name

(* Schedulers only have execution capabilities to offer. *)
ForwardingGetCapabilities(answer) ==
  CASE answer.code # "OK" -> answer
    [] answer.code = "OK" /\ answer.execution = {} -> Failed("InvalidArgument")
    [] OTHER -> [answer EXCEPT !.cache = {}]

DemultiplexGetCapabilities(schedulers, instanceName, answers) ==
  LET backend == GetBackend(schedulers, instanceName)
  IN  IF backend.ok THEN ForwardingGetCapabilities(answers[backend.backend]) ELSE Failed("InvalidArgument")

AuthorizingExecute(verdict, schedulers, instanceName) ==
  IF verdict = "OK" THEN DemultiplexExecute(schedulers, instanceName) ELSE [ok |-> FALSE, code |-> verdict]

-----------------------------------------------------------------------------
(* The server.  Its configuration has backends and authorizers, if any,    *)
(* for the CAS and the Action Cache, and schedulers.                       *)

Authorizers(server) ==
  (IF server.cas # None THEN <<server.cas.get, server.cas.put, server.cas.findMissing>> ELSE <<>>)
    \o (IF server.ac # None THEN <<server.ac.get, server.ac.put>> ELSE <<>>)

CacheProviders(server, metadata, instanceName) ==
  (IF server.cas # None
   THEN <<server.cas.answer, Provides({"compressors"}, {}, <<>>, <<>>)>>
   ELSE <<>>)
    \o (IF server.ac # None
        THEN <<ActionCacheUpdateEnabledClearingProvider(
                 server.ac.answer, AuthorizeSingleInstanceName(server.ac.put, metadata, instanceName))>>
        ELSE <<>>)

CacheCapabilities(server, metadata, instanceName) ==
  LET verdict == AuthorizeSingleInstanceName(NewAnyAuthorizer(Authorizers(server)), metadata, instanceName)
  IN  IF verdict # "OK" THEN {Failed(verdict)} ELSE MergedProvider(CacheProviders(server, metadata, instanceName))

ExecutionCapabilities(server, metadata, instanceName) ==
  AuthorizingProvider(DemultiplexGetCapabilities(server.schedulers, instanceName, server.answers),
                      AuthorizeSingleInstanceName(server.execute, metadata, instanceName))

StaticVersions == Provides({}, {}, <<2, 0>>, <<2, 12>>)

(* The capabilities that the client may be given. *)
GetCapabilities(server, metadata, instanceName) ==
  UNION {MergedProvider((IF server.cas # None \/ server.ac # None THEN <<cache>> ELSE <<>>)
                          \o (IF server.schedulers # <<>> THEN <<ExecutionCapabilities(server, metadata, instanceName)>> ELSE <<>>)
                          \o <<StaticVersions>>) :
         cache \in CacheCapabilities(server, metadata, instanceName)}
=============================================================================
