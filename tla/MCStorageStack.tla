--------------------------- MODULE MCStorageStack ---------------------------
(***************************************************************************)
(* The configurations of storage backends, and what their clients upload,  *)
(* that are model checked.                                                 *)
(***************************************************************************)
EXTENDS StorageStack

MCHashLength == [f |-> 32, g |-> 32, t |-> 32, e |-> 32]
MCHexadecimal == {"f", "g", "t", "e"}
MCParseInt == <<>>
MCDigestOrder == <<>>
MCScramble == [t \in 0 .. 4 |-> (7 * t) % 5]
MCIsPrime == {2, 3, 5, 7, 11, 13}
MCHashServer == [one |-> 12, two |-> 11, twin |-> 12]
MCLogFixed == (11 :> [f |-> 9, g |-> 5, e |-> 9, t |-> 5]) @@ (12 :> [f |-> 5, g |-> 9, e |-> 5, t |-> 9])

Digest(hash, size, instance) == [function |-> "MD5", hash |-> hash, size |-> size, instance |-> instance]

Proto(hash, size) == [hash |-> hash, size |-> size]

MCContents ==
  [f |-> [type |-> "blob", contentsOf |-> "f"],
   g |-> [type |-> "blob", contentsOf |-> "g"],
   e |-> EmptyBlob,
   t |-> [type |-> "tree", contentsOf |-> "t",
          directories |-> <<[files |-> <<Proto("g", 1)>>, directories |-> <<Proto("f", 1)>>]>>]]

-----------------------------------------------------------------------------
(* Configurations of the CAS. *)

Local(name, hierarchical) ==
  [type |-> "local", name |-> name, hierarchical |-> hierarchical,
   blocks |-> [type |-> "device", valid |-> TRUE, spare |-> 1, sectors |-> 100],
   persistent |-> None, old |-> 1, current |-> 1, new |-> 1,
   records |-> [type |-> "memory", entries |-> 10]]

OnlyInMemory(name) == [Local(name, FALSE) EXCEPT !.blocks = [type |-> "memory"]]

Persistent(name) ==
  [Local(name, FALSE) EXCEPT !.persistent = [valid |-> TRUE],
                             !.records = [type |-> "device", valid |-> TRUE, bytes |-> 700]]

Grpc(name) == [type |-> "grpc", valid |-> TRUE, name |-> name]

Rep(type) == [type |-> type]

Replicators ==
  {Rep("local"), Rep("noop"), [type |-> "deduplicating", base |-> Rep("local")],
   [type |-> "concurrencyLimiting", base |-> Rep("local")],
   [type |-> "queued", valid |-> TRUE, base |-> Rep("local")], [type |-> "remote", valid |-> TRUE]}

Key(hash, size) == GetKey(Digest(hash, size, <<>>), "KeyWithoutInstance")

Shard(name, backend) == [key |-> name, weight |-> 1, backend |-> backend]

Pairs(a, b, replicators) ==
  {[type |-> "mirrored", a |-> a, b |-> b, aToB |-> r, bToA |-> r] : r \in replicators}
    \cup {[type |-> "readCaching", slow |-> a, fast |-> b, replicator |-> r] : r \in replicators}
    \cup {[type |-> "readFallback", primary |-> a, secondary |-> b, replicator |-> r] : r \in replicators}
    \cup {[type |-> "sharding", shards |-> <<Shard("one", a), Shard("two", b)>>]}

A == <<"a">>
AB == <<"a", "/", "b">>

Demultiplexing(a, b) ==
  [type |-> "demultiplexing",
   routes |-> <<[prefix |-> <<>>, newPrefix |-> <<>>, backend |-> a],
                [prefix |-> A, newPrefix |-> <<"c">>, backend |-> b]>>]

Wrapped(config) ==
  {[type |-> "existenceCaching", valid |-> TRUE, base |-> config],
   [type |-> "deadline", valid |-> TRUE, base |-> config],
   [type |-> "withLabels", labels |-> [x |-> config], base |-> Demultiplexing([type |-> "label", label |-> "x"], [type |-> "label", label |-> "x"])]}

Flat1 == Local("l1", FALSE)
Flat2 == Persistent("l2")

Archive == [type |-> "zipReading", valid |-> TRUE, files |-> (Key("f", 1) :> MCContents["f"])]

NewArchive == [type |-> "zipWriting", valid |-> TRUE, name |-> "l2"]

Sharding(a, b) == CHOOSE c \in Pairs(a, b, {}) : c.type = "sharding"

CasConfigs ==
  Pairs(Flat1, Flat2, Replicators)
    \cup UNION {Pairs(p[1], p[2], {Rep("local"), [type |-> "deduplicating", base |-> Rep("local")]}) :
                  p \in {<<Grpc("l1"), Flat2>>, <<Flat1, Grpc("l2")>>, <<Local("l1", TRUE), Flat2>>,
                         <<Sharding(Grpc("l1"), Flat2), OnlyInMemory("l3")>>}}
    \cup {c \in Pairs(Flat1, Archive, {Rep("local")}) : c.type = "readFallback"}
    \cup UNION {Wrapped(c) : c \in {Flat1, Local("l1", TRUE), Grpc("l1"), Sharding(Flat1, Grpc("l2"))}}
    \cup {Demultiplexing(Flat1, Grpc("l2")), Demultiplexing(Flat1, NewArchive),
           Demultiplexing(Grpc("l1"), [type |-> "error", code |-> "Unavailable"])}

CasClients ==
  [store |-> "cas", blobs |-> {Digest("f", 1, A), Digest("f", 1, AB), Digest("g", 1, <<>>), Digest("e", 0, A)},
   actions |-> {}, results |-> {}]

Everyone == {<<>>, A, AB}

Allowed(backend, names) == [backend |-> backend, mayGet |-> names, mayPut |-> names, mayFindMissing |-> names]

NoStores ==
  [cas |-> None, ac |-> None, icas |-> None, iscc |-> None, fsac |-> None, canaried |-> {{}},
   initially |-> <<>>, clients |-> CasClients]

ForCas(config) == [NoStores EXCEPT !.cas = Allowed(config, Everyone)]

ForIcas(config) ==
  [NoStores EXCEPT !.icas = Allowed(config, Everyone), !.iscc = Allowed(Grpc("l2"), Everyone),
                  !.fsac = Allowed(OnlyInMemory("l3"), Everyone), !.clients.store = "icas"]

(* Backends for other kinds of storage. *)
Hierarchical(base) == [type |-> "hierarchical", base |-> base]

References ==
  LET Reference(hash, medium, decompressor) ==
        [type |-> "reference", medium |-> medium, instance |-> A, function |-> "MD5",
         digest |-> Proto(hash, 1), partial |-> FALSE, decompressor |-> decompressor,
         reachable |-> TRUE, data |-> MCContents[hash]]
      Of(instance) == GetKey(Digest("f", 1, instance), "KeyWithInstance")
  IN  {[l1 |-> Of(<<>>) :> Reference("f", m, c)] :
         m \in {"external", "cas", "unknown"}, c \in {"IDENTITY", "ZSTD", "BROTLI"}}
        \cup {[l1 |-> Of(<<>>) :> Reference("g", "external", "ZSTD")
                        @@ Of(A) :> Reference("f", "cas", "IDENTITY")]}

ReferenceExpanding ==
  [type |-> "referenceExpanding", valid |-> TRUE, icas |-> Hierarchical(Local("l1", FALSE)),
   contentAddressableStorage |-> Flat2]

-----------------------------------------------------------------------------
(* Configurations of the Action Cache. *)

Output(tree, root) == [tree |-> tree, rootDirectory |-> root]

Result(files, outputs, stdout) ==
  [type |-> "result", timestamp |-> None, outputFiles |-> files, outputDirectories |-> outputs,
   stdout |-> stdout, stderr |-> None]

AcClients ==
  [store |-> "cas", blobs |-> {Digest("f", 1, <<>>), Digest("g", 1, <<>>), Digest("t", 2, <<>>)},
   actions |-> {Digest("e", 0, <<>>)},
   results |-> {Result(<<Proto("f", 1)>>, <<Output(Proto("t", 2), None)>>, None),
                Result(<<>>, <<Output(Proto("t", 2), Proto("f", 1))>>, Proto("g", 1)),
                Result(<<>>, <<Output(Proto("t", 2), None), Output(Proto("t", 2), None)>>, None),
                Result(<<Proto("f", -1)>>, <<>>, None)}]

AcConfig(batchSize) ==
  [type |-> "completeness", batchSize |-> batchSize, maximumTotalTreeSize |-> 3, contentAddressableStorage |-> None,
   base |-> [type |-> "expiring", valid |-> TRUE, minimumTimestamp |-> 1, minimumValidity |-> 1, maximumValidityJitter |-> 2,
             base |-> Grpc("l2")]]

ForAc(batchSize) ==
  [ForCas(Flat1) EXCEPT !.ac = Allowed(AcConfig(batchSize), Everyone), !.clients = AcClients]

-----------------------------------------------------------------------------
(* Configurations that are rejected, because of one mistake each. *)

Invalid(config) == [config EXCEPT !.valid = FALSE]

RejectedLocals ==
  {[Flat1 EXCEPT !.blocks = None], [Flat1 EXCEPT !.blocks.valid = FALSE], [Flat1 EXCEPT !.blocks.spare = 98],
   [Flat1 EXCEPT !.blocks.sectors = 3], [Flat1 EXCEPT !.records = None], [Persistent("l1") EXCEPT !.persistent.valid = FALSE],
   [Persistent("l1") EXCEPT !.records.valid = FALSE]}

RejectedReplicators ==
  {None, Rep("unknown"), [type |-> "remote", valid |-> FALSE], [type |-> "concurrencyLimiting", base |-> None],
   [type |-> "queued", valid |-> FALSE, base |-> Rep("local")], [type |-> "deduplicating", base |-> Rep("unknown")]}

RejectedShards ==
  {<<>>, <<[Shard("one", Flat1) EXCEPT !.weight = 0]>>, <<Shard("one", Flat1), Shard("twin", Flat2)>>,
   <<Shard("one", None)>>}

RejectedCas ==
  RejectedLocals
    \cup {c \in Pairs(Flat1, Flat2, RejectedReplicators) : c.type # "sharding"}
    \cup {c \in Pairs(Flat1, None, {Rep("local")}) : c.type # "sharding"}
    \cup {[type |-> "sharding", shards |-> shards] : shards \in RejectedShards}
    \cup {[Demultiplexing(Flat1, Flat2) EXCEPT !.routes[2].newPrefix = <<"/">>]}
    \cup {Invalid(c) : c \in {w \in Wrapped(Flat1) : w.type # "withLabels"} \cup {Grpc("l1"), Archive, NewArchive, ReferenceExpanding}}
    \cup {Invalid([type |-> "readCanarying", valid |-> TRUE, source |-> Flat1, replica |-> Flat2])}
    \cup {[type |-> "label", label |-> "x"], Hierarchical(Flat1), AcConfig(1)}
    \cup {[type |-> "withLabels", labels |-> [x |-> Flat1],
            base |-> [type |-> "withLabels", labels |-> [x |-> Flat2], base |-> Flat1]],
           [type |-> "withLabels", labels |-> [x |-> None], base |-> Flat1]}

(* The Action Cache needs a CAS to check completeness. *)
RejectedConfigs ==
  {ForCas(c) : c \in RejectedCas}
    \cup {[ForCas(Flat1) EXCEPT !.cas.mayFindMissing = None], [ForAc(1) EXCEPT !.cas = None],
           [ForAc(1) EXCEPT !.ac.backend.base.valid = FALSE], [ForAc(1) EXCEPT !.ac.mayPut = None],
           ForIcas(Local("l1", TRUE)), ForIcas([Flat1 EXCEPT !.new = 2])}
    \cup {[ForIcas(Flat1) EXCEPT !.icas.backend = c] : c \in Pairs(Flat1, Flat2, {[type |-> "remote", valid |-> TRUE]})
                                                       \ {Sharding(Flat1, Flat2)}}

MCConfigs ==
  {ForCas(c) : c \in CasConfigs}
    \cup {[ForCas([type |-> "readCanarying", valid |-> TRUE, source |-> Flat1, replica |-> Flat2])
            EXCEPT !.canaried = {{}, {A}, {A, AB}}]}
    \cup {[ForCas(Flat1) EXCEPT !.cas = Allowed(Flat1, {A, <<>>})]}
    \cup {ForIcas(Hierarchical(Sharding(Grpc("l1"), Grpc("l2"))))}
    \cup {[ForCas(ReferenceExpanding) EXCEPT !.initially = initially] : initially \in References}
    \cup {ForAc(n) : n \in 1 .. 3}
    \cup RejectedConfigs

=============================================================================
