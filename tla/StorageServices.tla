-------------------------- MODULE StorageServices --------------------------
(***************************************************************************)
(* The gRPC services of the storage backends other than ByteStream         *)
(* (pkg/blobstore/grpcservers), and the BlobAccess implementations that    *)
(* call them (pkg/blobstore/grpcclients).                                  *)
(*                                                                         *)
(* The BlobAccess that a service relays to holds "blobs", fails all calls  *)
(* with "code" unless that is "OK", and fails to store the digests in      *)
(* "refused".  Operations that write return what they make of it.          *)
(***************************************************************************)
EXTENDS ByteStream

CONSTANT MaximumMessageSizeBytes

-----------------------------------------------------------------------------
(* The BlobAccess that is served. *)

BackendGet(store, d) ==
  IF store.code # "OK" THEN NewBufferFromError(store.code) ELSE StoreGet(store.blobs, d)

StoreWritten(store, d, written) ==
  LET code == CASE store.code # "OK" -> store.code
                [] store.code = "OK" /\ d \in store.refused -> "ResourceExhausted"
                [] OTHER -> written.code
  IN  [code |-> code,
       store |-> IF code = "OK" THEN [store EXCEPT !.blobs = (d :> NewValidatedBufferFromByteSlice(written.data)) @@ @] ELSE store]

BackendPut(store, d, b) == StoreWritten(store, d, Written(b))

BackendFindMissing(store, digests) ==
  [code |-> store.code, missing |-> IF store.code = "OK" THEN digests \ DOMAIN store.blobs ELSE {}]

(* Messages that are received are valid, other than stored ones. *)
NewProtoBufferFromProto(message) == [type |-> "proto", data |-> message, notes |-> <<>>]

ToProto(b) == Apply(b, [name |-> "ToProto", max |-> MaximumMessageSizeBytes])

-----------------------------------------------------------------------------
(* Servers. *)

HashSize(proto) == IF proto = None THEN 0 ELSE HashLength[proto.hash]

(* The instance name and digest function of a request. *)
GetDigestFunction(request, hashSize) ==
  LET instance == NewInstanceName(request.instanceName)
      function == GetBareFunction(request.digestFunction, hashSize)
  IN  IF ~instance.ok \/ function = None
      THEN InvalidArgument
      ELSE [ok |-> TRUE, instance |-> instance.name, function |-> function]

DigestOfProto(f, proto) == NewDigestFromProto(f.function, f.instance, proto)

FindMissingOf(store, request, f) ==
  LET digests == {DigestOfProto(f, request.digests[i]) : i \in DOMAIN request.digests}
      found   == BackendFindMissing(store, {d.digest : d \in digests})
  IN  IF ~f.ok \/ (\E d \in digests : ~d.ok)
      THEN [code |-> "InvalidArgument"]
      ELSE [code |-> found.code, missing |-> {GetProto(d) : d \in found.missing}]

FindMissingBlobs(store, request) ==
  IF request.digests = <<>>
  THEN [code |-> "OK", missing |-> {}]
  ELSE FindMissingOf(store, request, GetDigestFunction(request, HashSize(request.digests[1])))

BatchReadBlobs(store, request) ==
  LET f       == GetDigestFunction(request, HashSize(request.digests[1]))
      digests == [i \in DOMAIN request.digests |-> DigestOfProto(f, request.digests[i])]
      Total(n) == FoldLeftDomain(LAMBDA total, i : IF i <= n THEN total + digests[i].digest.size ELSE total, 0, digests)
      Response(d) == Apply(BackendGet(store, d), [name |-> "ToByteSlice", max |-> d.size])
  IN  CASE request.digests = <<>> -> [code |-> "OK", responses |-> <<>>]
        [] request.digests # <<>> /\ ~f.ok -> [code |-> "InvalidArgument"]
        [] OTHER ->
             IF \E i \in DOMAIN digests : ~digests[i].ok \/ Total(i) > MaximumMessageSizeBytes
             THEN [code |-> "InvalidArgument"]
             ELSE [code |-> "OK", responses |-> [i \in DOMAIN digests |-> Response(digests[i].digest)]]

(* Entries of a batch are stored in order, each with a status. *)
BatchEntry(type, d, data) ==
  IF type = "blobs" THEN NewCASBufferFromByteSlice(BlobOf[d.hash], data, UserProvided) ELSE NewProtoBufferFromProto(data)

AddResponse(acc, put) == [acc EXCEPT !.store = put.store, !.codes = Append(@, put.code)]

BatchUpdate(store, request, f, type) ==
  LET Update(acc, entry) ==
        LET d == DigestOfProto(f, entry.digest)
        IN  AddResponse(acc, IF d.ok THEN BackendPut(acc.store, d.digest, BatchEntry(type, d.digest, entry.data))
                                     ELSE [code |-> "InvalidArgument", store |-> acc.store])
  IN  IF f.ok THEN FoldLeft(Update, [code |-> "OK", codes |-> <<>>, store |-> store], request.entries)
              ELSE [code |-> "InvalidArgument", store |-> store]

BatchUpdateBlobs(store, request) ==
  IF request.entries = <<>>
  THEN [code |-> "OK", codes |-> <<>>, store |-> store]
  ELSE BatchUpdate(store, request, GetDigestFunction(request, HashSize(request.entries[1].digest)), "blobs")

BatchUpdateReferences(store, request) ==
  BatchUpdate(store, request, GetDigestFunction(request, 0), "references")

FindMissingReferences(store, request) == FindMissingOf(store, request, GetDigestFunction(request, 0))

GetMessage(store, request, f) ==
  LET d == DigestOfProto(f, request.digest)
  IN  IF f.ok /\ d.ok THEN ToProto(BackendGet(store, d.digest)) ELSE [code |-> "InvalidArgument"]

UpdateMessage(store, request, f) ==
  LET d == DigestOfProto(f, request.digest)
  IN  IF f.ok /\ d.ok
      THEN BackendPut(store, d.digest, NewProtoBufferFromProto(request.message))
      ELSE [code |-> "InvalidArgument", store |-> store]

(* Only the services that are older than the digest function field of      *)
(* requests infer it from the hash.                                        *)
GetActionResult(store, request) == GetMessage(store, request, GetDigestFunction(request, HashSize(request.digest)))
UpdateActionResult(store, request) == UpdateMessage(store, request, GetDigestFunction(request, HashSize(request.digest)))

GetReference(store, request) == GetMessage(store, request, GetDigestFunction(request, 0))

GetPreviousExecutionStats(store, request) == GetMessage(store, request, GetDigestFunction(request, 0))
UpdatePreviousExecutionStats(store, request) == UpdateMessage(store, request, GetDigestFunction(request, 0))

GetFileSystemAccessProfile(store, request) == GetMessage(store, request, GetDigestFunction(request, 0))
UpdateFileSystemAccessProfile(store, request) == UpdateMessage(store, request, GetDigestFunction(request, 0))

-----------------------------------------------------------------------------
(* Clients. *)

RequestOf(d) == [instanceName |-> d.instance, digestFunction |-> d.function, digest |-> GetProto(d)]

(* One call per instance name and digest function, the results of which    *)
(* are converted to digests of that function.                              *)
FindMissingPerFunction(store, digests, type) ==
  LET Functions == {[instance |-> d.instance, function |-> d.function] : d \in digests}
      Request(f) == [instanceName |-> f.instance, digestFunction |-> f.function,
                     digests |-> SetToSeq({GetProto(d) : d \in {e \in digests : UsesDigestFunction(e, f.function, f.instance)}})]
      Response(f) == IF type = "blobs" THEN FindMissingBlobs(store, Request(f)) ELSE FindMissingReferences(store, Request(f))
      failed == {f \in Functions : Response(f).code # "OK"}
  IN  IF failed # {}
      THEN [code |-> Response(CHOOSE f \in failed : TRUE).code, missing |-> {}]
      ELSE [code |-> "OK", missing |-> UNION {{DigestOfProto(f, p).digest : p \in Response(f).missing} : f \in Functions}]

CASClientFindMissing(store, digests) == FindMissingPerFunction(store, digests, "blobs")

ICASFindMissing(store, digests) == FindMissingPerFunction(store, digests, "references")

BufferOfResponse(r) == IF r.code = "OK" THEN NewProtoBufferFromProto(r.data) ELSE NewBufferFromError(r.code)

(* A buffer that doesn't hold a message isn't sent. *)
NotSent(store, message) == [code |-> message.code, store |-> store]

(* A message is only sent if the buffer yields it. *)
SendMessage(Update(_, _), store, d, message) ==
  IF message.code = "OK"
  THEN Update(store, RequestOf(d) @@ [message |-> message.data])
  ELSE NotSent(store, message)

ACGet(store, d) == BufferOfResponse(GetActionResult(store, RequestOf(d)))
ACPut(store, d, b) == SendMessage(UpdateActionResult, store, d, ToProto(b))

ICASGet(store, d) == BufferOfResponse(GetReference(store, RequestOf(d)))

(* The status of the one entry of the batch is not looked at. *)
UpdateReference(store, request) ==
  BatchUpdateReferences(store, [instanceName |-> request.instanceName, digestFunction |-> request.digestFunction,
                                entries |-> <<[digest |-> request.digest, data |-> request.message]>>])

ICASPut(store, d, b) == SendMessage(UpdateReference, store, d, ToProto(b))

ISCCGet(store, d) == BufferOfResponse(GetPreviousExecutionStats(store, RequestOf(d)))
ISCCPut(store, d, b) == SendMessage(UpdatePreviousExecutionStats, store, d, ToProto(b))

FSACGet(store, d) == BufferOfResponse(GetFileSystemAccessProfile(store, RequestOf(d)))
FSACPut(store, d, b) == SendMessage(UpdateFileSystemAccessProfile, store, d, ToProto(b))
=============================================================================
