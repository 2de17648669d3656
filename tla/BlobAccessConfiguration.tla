---------------------- MODULE BlobAccessConfiguration ----------------------
(***************************************************************************)
(* How the configuration file becomes a stack of backends                  *)
(* (pkg/blobstore/configuration).  A configuration message is a record     *)
(* with the type of the backend and its fields; a message that is not set  *)
(* is None.  The options of a message that are of no consequence for the   *)
(* backends are represented by the field valid: whether its durations and  *)
(* the configuration of its caches and clients are correct, and its files  *)
(* and devices can be opened.                                              *)
(*                                                                         *)
(* Creating a backend either fails, or yields the backend, in the form     *)
(* that module BlobAccess gives a meaning to, and the format of the keys   *)
(* that tell apart the objects it stores.  A creator has the kind of       *)
(* storage it creates, and the Content Addressable Storage it may use.     *)
(***************************************************************************)
EXTENDS BlobAccess

CONSTANT IsPrime   \* the sizes of a location record array that are prime

RECURSIVE NewNestedBlobAccess(_, _, _)
RECURSIVE NewBlobReplicatorFromConfiguration(_, _, _, _)

Rejected == [ok |-> FALSE]

Info(backend, format) == [ok |-> TRUE, backend |-> backend, format |-> format]

(* What is made of a sequence of creations, unless one of them failed. *)
WithAll(infos, Make(_)) == IF \A i \in DOMAIN infos : infos[i].ok THEN Make(infos) ELSE Rejected

Provided(valid, info) == IF valid THEN info ELSE Rejected

-----------------------------------------------------------------------------
(* The properties of the kinds of storage. *)

NewCASBlobAccessCreator == [kind |-> "cas", cas |-> None]

NewACBlobAccessCreator(cas) == [kind |-> "ac", cas |-> cas]

NewICASBlobAccessCreator == [kind |-> "icas", cas |-> None]

NewISCCBlobAccessCreator == [kind |-> "iscc", cas |-> None]

NewFSACBlobAccessCreator == [kind |-> "fsac", cas |-> None]

GetBaseDigestKeyFormat(creator) ==
  IF creator.kind = "cas" THEN "KeyWithoutInstance" ELSE "KeyWithInstance"

(* Objects that may be replaced can't be spread over "new" blocks. *)
NewBlockListGrowthPolicy(creator, new) ==
  CASE creator.kind = "cas"              -> [ok |-> TRUE, policy |-> "immutable"]
    [] creator.kind # "cas" /\ new = 1   -> [ok |-> TRUE, policy |-> "mutable"]
    [] OTHER                             -> Rejected

NewHierarchicalInstanceNamesLocalBlobAccess(creator, leaf) ==
  IF creator.kind = "cas" THEN Info(leaf, leaf.format) ELSE Rejected

WrapTopLevelBlobAccess(creator, backend) ==
  CASE creator.kind = "cas" -> [type |-> "emptyBlob", base |-> backend]
    [] creator.kind = "ac"  -> [type |-> "timestamp", base |-> backend]
    [] OTHER                -> backend

-----------------------------------------------------------------------------
(* Replicators. *)

Replicator(replicator) == [ok |-> TRUE, replicator |-> replicator]

(* A replicator that passes its calls on to another one. *)
NewReplicatorWrapping(base, config, source, sink, creator) ==
  WithAll(<<NewBlobReplicatorFromConfiguration(base, source, sink, creator)>>, LAMBDA infos :
    Replicator([type |-> config.type, base |-> infos[1].replicator, source |-> source,
                sink |-> sink.backend, format |-> sink.format]))

(* The modes that only some kinds of storage support.  The service that a  *)
(* remote replicator calls copies between the same backends.               *)
NewCustomBlobReplicator(config, source, sink, creator) ==
  CASE config.type = "deduplicating" /\ creator.kind \in {"cas", "icas"} ->
         NewReplicatorWrapping(config.base, config, source, sink, creator)
    [] config.type = "remote" /\ creator.kind = "cas" ->
         Provided(config.valid, NewReplicatorWrapping([type |-> "local"], config, source, sink, creator))
    [] OTHER -> Rejected

NewBlobReplicatorFromConfiguration(config, source, sink, creator) ==
  CASE config = None -> Rejected
    [] config # None /\ config.type \in {"local", "noop"} ->
         Replicator([type |-> config.type, source |-> source, sink |-> sink.backend])
    [] config # None /\ config.type = "concurrencyLimiting" ->
         NewReplicatorWrapping(config.base, config, source, sink, creator)
    [] config # None /\ config.type = "queued" ->
         Provided(config.valid, NewReplicatorWrapping(config.base, config, source, sink, creator))
    [] OTHER -> NewCustomBlobReplicator(config, source, sink, creator)

-----------------------------------------------------------------------------
(* Local storage. *)

MaximumBlockCount == 100

BlockDeviceBackedLocationRecordSize == 66

BlockCount(local) == local.blocks.spare + local.old + local.current + local.new

(* Without any blocks, computing their size divides by zero. *)
BlocksOnBlockDevice(local) ==
  /\ local.blocks.valid
  /\ BlockCount(local) \in 1 .. MaximumBlockCount
  /\ local.blocks.sectors \div BlockCount(local) > 0

BlocksAccepted(local) ==
  /\ local.blocks # None
  /\ local.blocks.type = "device" => BlocksOnBlockDevice(local)

(* The directory and the state in it can be read. *)
PersistencyAccepted(local) == local.persistent # None => local.persistent.valid

RecordsAccepted(local) ==
  /\ local.records # None
  /\ local.records.type = "device" => local.records.valid

(* The largest prime that is not above the size, which disperses the       *)
(* entries of the hash table best.                                         *)
LocationRecordArraySize(records) ==
  LET size == IF records.type = "memory"
              THEN records.entries
              ELSE records.bytes \div BlockDeviceBackedLocationRecordSize
  IN  IF size <= 3 THEN size ELSE Max({3} \cup {n \in 4 .. size : n \in IsPrime})

NewLocal(local, creator) ==
  LET format == IF local.hierarchical THEN "KeyWithInstance" ELSE GetBaseDigestKeyFormat(creator)
      policy == NewBlockListGrowthPolicy(creator, local.new)
      leaf   == [type |-> "leaf", leaf |-> local.name, format |-> format, hierarchical |-> local.hierarchical,
                 policy |-> policy.policy, slots |-> LocationRecordArraySize(local.records)]
  IN  IF BlocksAccepted(local) /\ PersistencyAccepted(local) /\ policy.ok /\ RecordsAccepted(local)
      THEN IF local.hierarchical
           THEN NewHierarchicalInstanceNamesLocalBlobAccess(creator, leaf)
           ELSE Info(leaf, format)
      ELSE Rejected

-----------------------------------------------------------------------------
(* Backends. *)

NewReadCaching(config, creator, labels) ==
  WithAll(<<NewNestedBlobAccess(config.slow, creator, labels),
            NewNestedBlobAccess(config.fast, creator, labels)>>, LAMBDA nested :
    WithAll(<<NewBlobReplicatorFromConfiguration(config.replicator, nested[1].backend, nested[2], creator)>>,
      LAMBDA infos :
        Info([type |-> "readCaching", slow |-> nested[1].backend, fast |-> nested[2].backend,
              replicator |-> infos[1].replicator], nested[1].format)))

NewReadFallback(config, creator, labels) ==
  WithAll(<<NewNestedBlobAccess(config.primary, creator, labels),
            NewNestedBlobAccess(config.secondary, creator, labels)>>, LAMBDA nested :
    WithAll(<<NewBlobReplicatorFromConfiguration(config.replicator, nested[2].backend, nested[1], creator)>>,
      LAMBDA infos :
        Info([type |-> "readFallback", primary |-> nested[1].backend, secondary |-> nested[2].backend,
              replicator |-> infos[1].replicator], Combine(nested[1].format, nested[2].format))))

NewMirrored(config, creator, labels) ==
  WithAll(<<NewNestedBlobAccess(config.a, creator, labels),
            NewNestedBlobAccess(config.b, creator, labels)>>, LAMBDA nested :
    WithAll(<<NewBlobReplicatorFromConfiguration(config.aToB, nested[1].backend, nested[2], creator),
              NewBlobReplicatorFromConfiguration(config.bToA, nested[2].backend, nested[1], creator)>>,
      LAMBDA infos :
        Info([type |-> "mirrored", a |-> nested[1].backend, b |-> nested[2].backend,
              replicatorAToB |-> infos[1].replicator, replicatorBToA |-> infos[2].replicator],
             Combine(nested[1].format, nested[2].format))))

(* The shards are ordered by the hashes of their keys, so that the order   *)
(* in which they are listed is of no influence.                            *)
NewRendezvousShardSelector(shards) ==
  SortSeq([i \in DOMAIN shards |-> [index |-> i, weight |-> shards[i].weight, hash |-> HashServer[shards[i].key]]],
          LAMBDA s, t : s.hash < t.hash)

HashCollision(shards) ==
  \E i, j \in DOMAIN shards : i # j /\ HashServer[shards[i].key] = HashServer[shards[j].key]

NewSharding(config, creator, labels) ==
  WithAll([i \in DOMAIN config.shards |-> NewNestedBlobAccess(config.shards[i].backend, creator, labels)],
    LAMBDA shards :
      Provided(/\ \A i \in DOMAIN config.shards : config.shards[i].weight > 0
               /\ config.shards # <<>>
               /\ ~HashCollision(config.shards),
        Info([type |-> "sharding", selector |-> NewRendezvousShardSelector(config.shards),
              shards |-> [i \in DOMAIN shards |-> shards[i].backend]],
             FoldLeft(LAMBDA f, s : Combine(f, s.format), "KeyWithoutInstance", shards))))

NewDemultiplexing(config, creator, labels) ==
  WithAll([i \in DOMAIN config.routes |->
             Provided(NewInstanceName(config.routes[i].prefix).ok /\ NewInstanceName(config.routes[i].newPrefix).ok,
                      NewNestedBlobAccess(config.routes[i].backend, creator, labels))], LAMBDA backends :
    Info([type |-> "demultiplexing", routes |->
            [i \in DOMAIN backends |->
               [prefix |-> config.routes[i].prefix, newPrefix |-> config.routes[i].newPrefix,
                backend |-> backends[i].backend]]], "KeyWithInstance"))

NewReadCanarying(config, creator, labels) ==
  WithAll(<<NewNestedBlobAccess(config.source, creator, labels),
            NewNestedBlobAccess(config.replica, creator, labels)>>, LAMBDA nested :
    Provided(config.valid,
      Info([type |-> "readCanarying", source |-> nested[1].backend, replica |-> nested[2].backend],
           Combine(nested[1].format, nested[2].format))))

NewZIPReading(config, creator) ==
  LET format == GetBaseDigestKeyFormat(creator)
  IN  Provided(config.valid, Info([type |-> "zip", files |-> config.files, format |-> format], format))

(* The file is truncated. *)
NewZIPWriting(config, creator) ==
  LET format == GetBaseDigestKeyFormat(creator)
  IN  Provided(config.valid,
        Info([type |-> "leaf", leaf |-> config.name, format |-> format, hierarchical |-> FALSE], format))

NewDeadlineEnforcing(config, creator, labels) ==
  WithAll(<<NewNestedBlobAccess(config.base, creator, labels)>>, LAMBDA nested :
    Provided(config.valid, Info([type |-> "deadline", base |-> nested[1].backend], nested[1].format)))

-----------------------------------------------------------------------------
(* Backends of specific kinds of storage. *)

NewGrpc(config) ==
  Provided(config.valid,
    Info([type |-> "leaf", leaf |-> config.name, format |-> "KeyWithInstance", hierarchical |-> FALSE],
         "KeyWithInstance"))

NewExistenceCaching(config, creator, labels) ==
  WithAll(<<NewNestedBlobAccess(config.base, creator, labels)>>, LAMBDA nested :
    Provided(config.valid,
      Info([type |-> "existenceCaching", base |-> nested[1].backend, format |-> nested[1].format],
           nested[1].format)))

NewReferenceExpanding(config, creator, labels) ==
  WithAll(<<NewNestedBlobAccess(config.icas, NewICASBlobAccessCreator, labels),
            IF config.contentAddressableStorage = None
            THEN Info([type |-> "error", code |-> "Unimplemented"], "KeyWithoutInstance")
            ELSE NewNestedBlobAccess(config.contentAddressableStorage, creator, labels)>>, LAMBDA nested :
    Provided(config.valid,
      Info([type |-> "referenceExpanding", icas |-> nested[1].backend,
            contentAddressableStorage |-> nested[2].backend], nested[1].format)))

NewActionResultExpiring(config, creator, labels) ==
  WithAll(<<NewNestedBlobAccess(config.base, creator, labels)>>, LAMBDA nested :
    Provided(config.valid, Info([config EXCEPT !.base = nested[1].backend], nested[1].format)))

NewCompletenessChecking(config, creator, labels) ==
  Provided(creator.cas # None,
    WithAll(<<NewNestedBlobAccess(config.base, creator, labels)>>, LAMBDA nested :
      Info([config EXCEPT !.base = nested[1].backend, !.contentAddressableStorage = creator.cas.backend],
           Combine(nested[1].format, creator.cas.format))))

NewHierarchicalInstanceNames(config, creator, labels) ==
  WithAll(<<NewNestedBlobAccess(config.base, creator, labels)>>, LAMBDA nested :
    Info([type |-> "hierarchical", base |-> nested[1].backend], nested[1].format))

NewCustomBlobAccess(config, creator, labels) ==
  CASE config.type = "grpc" -> NewGrpc(config)
    [] config.type = "existenceCaching" /\ creator.kind = "cas" -> NewExistenceCaching(config, creator, labels)
    [] config.type = "referenceExpanding" /\ creator.kind = "cas" -> NewReferenceExpanding(config, creator, labels)
    [] config.type = "expiring" /\ creator.kind = "ac" -> NewActionResultExpiring(config, creator, labels)
    [] config.type = "completeness" /\ creator.kind = "ac" -> NewCompletenessChecking(config, creator, labels)
    [] config.type = "hierarchical" /\ creator.kind # "cas" -> NewHierarchicalInstanceNames(config, creator, labels)
    [] OTHER -> Rejected

-----------------------------------------------------------------------------
(* Nested backends. *)

NewNestedBlobAccessBare(config, creator, labels) ==
  CASE config.type = "error"          -> Info(config, "KeyWithoutInstance")
    [] config.type = "local"          -> NewLocal(config, creator)
    [] config.type = "zipReading"     -> NewZIPReading(config, creator)
    [] config.type = "zipWriting"     -> NewZIPWriting(config, creator)
    [] config.type = "readCaching"    -> NewReadCaching(config, creator, labels)
    [] config.type = "readFallback"   -> NewReadFallback(config, creator, labels)
    [] config.type = "mirrored"       -> NewMirrored(config, creator, labels)
    [] config.type = "sharding"       -> NewSharding(config, creator, labels)
    [] config.type = "demultiplexing" -> NewDemultiplexing(config, creator, labels)
    [] config.type = "readCanarying"  -> NewReadCanarying(config, creator, labels)
    [] config.type = "deadline"       -> NewDeadlineEnforcing(config, creator, labels)
    [] OTHER                          -> NewCustomBlobAccess(config, creator, labels)

(* The backends of labels are created in the scope of the parent, and      *)
(* labels can't be redeclared.                                             *)
NewWithLabels(config, creator, labels) ==
  LET infos == [l \in DOMAIN config.labels |-> NewNestedBlobAccess(config.labels[l], creator, labels)]
  IN  IF /\ DOMAIN infos \cap DOMAIN labels = {}
         /\ \A l \in DOMAIN infos : infos[l].ok
      THEN NewNestedBlobAccess(config.base, creator, labels @@ infos)
      ELSE Rejected

NewNestedBlobAccess(config, creator, labels) ==
  CASE config = None -> Rejected
    [] config # None /\ config.type = "withLabels" -> NewWithLabels(config, creator, labels)
    [] config # None /\ config.type = "label" ->
         IF config.label \in DOMAIN labels THEN labels[config.label] ELSE Rejected
    [] OTHER -> NewNestedBlobAccessBare(config, creator, labels)

NewBlobAccessFromConfiguration(config, creator) ==
  WithAll(<<NewNestedBlobAccess(config, creator, <<>>)>>, LAMBDA nested :
    Info(WrapTopLevelBlobAccess(creator, nested[1].backend), nested[1].format))
=============================================================================
