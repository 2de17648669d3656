----------------------------- MODULE ByteStream -----------------------------
(***************************************************************************)
(* Blobs of the Content Addressable Storage, transferred over the          *)
(* ByteStream protocol: byteStreamServer (pkg/blobstore/grpcservers) and   *)
(* casBlobAccess (pkg/blobstore/grpcclients), with and without compression *)
(* (pkg/zstd).                                                             *)
(*                                                                         *)
(* The messages of a call are a sequence, followed by how the call ended   *)
(* for the receiver: "EOF" if the sender was done, or a status code.       *)
(***************************************************************************)
EXTENDS Buffers, Digests

CONSTANTS
  ReadChunkSize,    \* the maximum amount of data in a message
  BlobOf            \* the blob that has a hash

-----------------------------------------------------------------------------
(* ZSTD.  A frame is the data, enclosed by a header and a trailer; nothing *)
(* is written if there is no data.  Data is decoded as far as it is there; *)
(* an incomplete or a malformed frame is an error.  Decoders, which pools  *)
(* create with a concurrency of one, return the last data before they      *)
(* report the end of the stream.                                           *)

Header == 1001
Trailer == 1002

Compress(data) == IF data = <<>> THEN <<>> ELSE <<Header>> \o data \o <<Trailer>>

Decompress(s, max) ==
  LET raw   == Data(s)
      body  == SelectSeq(raw, LAMBDA byte : byte < Header)
      whole == raw = Compress(body)
      begun == raw # <<>> /\ raw[1] = Header
      end   == CASE s.end # "EOF" -> s.end
                 [] s.end = "EOF" /\ whole -> "EOF"
                 [] OTHER -> "Unknown"
  IN  Stream(IF begun THEN Pieces(body, max) ELSE <<>>, end, FALSE)

-----------------------------------------------------------------------------
(* byteStreamServer.  The store of the server holds a buffer for some of   *)
(* the digests; what is put into it are buffers that can be read.          *)

StoreGet(store, d) == IF d \in DOMAIN store THEN store[d] ELSE NewBufferFromError("NotFound")

Written(b) == Apply(b, [name |-> "IntoWriter"])

Stored(written) ==
  [code |-> written.code, stored |-> IF written.code = "OK" THEN <<written.data>> ELSE <<>>]

StorePut(b) == Stored(Written(b))

(* readStreamWriter sends what the encoder emits, of which the last part   *)
(* is emitted when the encoder is closed.                                  *)
ReadStreamWriter(written) ==
  Stream(Pieces(Compress(written.data), ReadChunkSize), IF written.code = "OK" THEN "EOF" ELSE written.code, FALSE)

ServerRead(store, request, encoderAvailable) ==
  LET path == NewDigestFromByteStreamReadPath(FieldsFunc(request.resourceName))
  IN  CASE request.readLimit # 0 -> ErrorStream("Unimplemented")
        [] request.readLimit = 0 /\ ~path.ok -> ErrorStream(path.code)
        [] OTHER ->
             CASE path.compressor = "IDENTITY" -> ToChunkReader(StoreGet(store, path.digest), request.readOffset, ReadChunkSize)
               [] path.compressor = "ZSTD" ->
                    IF encoderAvailable THEN ReadStreamWriter(Written(StoreGet(store, path.digest))) ELSE ErrorStream("ResourceExhausted")
               [] OTHER -> ErrorStream("Unimplemented")

Sent(messages, n) == Len(FlattenSeq([i \in 1 .. n |-> messages[i].data]))

(* byteStreamWriteServerChunkReader: every request continues where the     *)
(* previous one ended, and nothing follows the one that finishes.          *)
SetRequestFails(call, i) ==
  \/ \E j \in 1 .. i - 1 : call.messages[j].finishWrite
  \/ call.messages[i].writeOffset # Sent(call.messages, i - 1)

WriteServerChunkReader(call) ==
  LET refused == {i \in DOMAIN call.messages : SetRequestFails(call, i)}
      n       == IF refused = {} THEN Len(call.messages) ELSE Min(refused) - 1
      end     == CASE refused # {} -> "InvalidArgument"
                   [] refused = {} /\ call.end = "EOF" /\ ~Last(call.messages).finishWrite -> "InvalidArgument"
                   [] OTHER -> call.end
  IN  Stream([i \in 1 .. n |-> call.messages[i].data], end, FALSE)

WriteIdentity(call, d) ==
  IF SetRequestFails(call, 1)
  THEN [code |-> "InvalidArgument", stored |-> <<>>]
  ELSE StorePut(NewCASBufferFromChunkReader(BlobOf[d.hash], WriteServerChunkReader(call), UserProvided))

(* zstdWriteStreamReader: nothing is read past the request that finishes.  *)
ZstdWriteStreamReader(call) ==
  LET finishes == {i \in DOMAIN call.messages : call.messages[i].finishWrite}
      refused  == {i \in DOMAIN call.messages \ {1} :
                     call.messages[i].writeOffset # Sent(call.messages, i - 1)}
      stops    == finishes \cup {i - 1 : i \in refused}
      n        == IF stops = {} THEN Len(call.messages) ELSE Min(stops)
      end      == CASE n \in finishes -> "EOF"
                    [] n \notin finishes /\ (n + 1 \in refused \/ call.end = "EOF") -> "InvalidArgument"
                    [] OTHER -> call.end
  IN  Stream([i \in 1 .. n |-> call.messages[i].data], end, FALSE)

WriteZstd(call, d, decoderAvailable) ==
  IF ~decoderAvailable
  THEN [code |-> "Canceled", stored |-> <<>>]
  ELSE StorePut(NewCASBufferFromReader(BlobOf[d.hash],
                  Decompress(ZstdWriteStreamReader(call), ReadChunkSize), UserProvided))

(* The status of a call, what it stored, and under which digest. *)
ServerWrite(call, decoderAvailable) ==
  LET path == NewDigestFromByteStreamWritePath(FieldsFunc(call.messages[1].resourceName))
      Refused(code) == [code |-> code, stored |-> <<>>]
  IN  CASE call.messages = <<>> -> Refused(IF call.end = "EOF" THEN "InvalidArgument" ELSE call.end)
        [] call.messages # <<>> /\ ~path.ok -> Refused(path.code)
        [] OTHER -> CASE path.compressor = "IDENTITY" -> WriteIdentity(call, path.digest)
                      [] path.compressor = "ZSTD" -> WriteZstd(call, path.digest, decoderAvailable)
                      [] OTHER -> Refused("Unimplemented")

-----------------------------------------------------------------------------
(* casBlobAccess. *)

(* The network loses "requests" or the "response" from some message on, or *)
(* nothing.  The other side sees the messages until then.                  *)
Delivered(messages, network) ==
  IF network.loss = "requests" THEN SubSeq(messages, 1, Min({network.after, Len(messages)})) ELSE messages

ReadDelivered(s, network) ==
  IF network.loss = "response"
  THEN Stream(SubSeq(s.chunks, 1, Min({network.after, Len(s.chunks)})), "Unavailable", FALSE)
  ELSE s

GetServerCapabilitiesWithCacheCapabilities(answer) ==
  CASE answer.code # "OK" -> [ok |-> FALSE, code |-> answer.code]
    [] answer.code = "OK" /\ answer.cacheCapabilities = None -> [ok |-> FALSE, code |-> "InvalidArgument"]
    [] OTHER -> [ok |-> TRUE, code |-> "OK", cacheCapabilities |-> answer.cacheCapabilities]

(* The client asks for the capabilities of the server once: "supported"    *)
(* holds the compressors that it was told, if any.                         *)
ShouldUseZSTDCompression(client, answer) ==
  LET capabilities == GetServerCapabilitiesWithCacheCapabilities(answer)
  IN  CASE ~client.hasPool -> [code |-> "OK", use |-> FALSE]
        [] client.hasPool /\ client.supported # <<>> -> [code |-> "OK", use |-> "ZSTD" \in client.supported[1]]
        [] OTHER -> [code |-> capabilities.code,
                     use |-> capabilities.ok /\ "ZSTD" \in capabilities.cacheCapabilities.supportedCompressors]

Compressor(zstd) == IF zstd THEN "ZSTD" ELSE "IDENTITY"

(* A call takes place in an environment: the client, the capabilities the  *)
(* server would answer, the network, and on which sides the pool has an    *)
(* encoder or a decoder before the context is done.                        *)
BufferOfRead(d, s, zstd) ==
  NewCASBufferFromChunkReader(BlobOf[d.hash], IF zstd THEN Decompress(s, ReadChunkSize) ELSE s, BackendProvided)

ClientGet(store, d, env) ==
  LET compression == ShouldUseZSTDCompression(env.client, env.answer)
      zstd    == compression.use
      request == [resourceName |-> GetByteStreamReadPath(d, Compressor(zstd)), readOffset |-> 0, readLimit |-> 0]
      refusal == CASE compression.code # "OK" -> compression.code
                   [] compression.code = "OK" /\ env.network.loss = "requests" -> "Unavailable"
                   [] OTHER -> IF zstd /\ "client" \notin env.available THEN "Canceled" ELSE "OK"
  IN  IF refusal # "OK"
      THEN NewBufferFromError(refusal)
      ELSE BufferOfRead(d, ReadDelivered(ServerRead(store, request, "server" \in env.available), env.network), zstd)


(* The requests that transfer the chunks, the last of which finishes. *)
WriteRequests(chunks, resourceName, finish) ==
  [i \in 1 .. Len(chunks) + (IF finish THEN 1 ELSE 0) |->
     [resourceName |-> IF i = 1 THEN resourceName ELSE <<>>,
      writeOffset  |-> Len(FlattenSeq(SubSeq(chunks, 1, i - 1))),
      data         |-> IF i > Len(chunks) THEN <<>> ELSE chunks[i],
      finishWrite  |-> i > Len(chunks)]]

(* Without compression, the call is cancelled if the buffer yields an      *)
(* error.  With compression, it is finished all the same.                  *)
CompressedRequests(written, resourceName) ==
  [messages |-> WriteRequests(Pieces(Compress(written.data), ReadChunkSize), resourceName, TRUE),
   end |-> "EOF", code |-> written.code]

IdentityRequests(s, resourceName) ==
  [messages |-> WriteRequests(s.chunks, resourceName, s.end = "EOF"),
   end |-> IF s.end = "EOF" THEN "EOF" ELSE "Canceled", code |-> IF s.end = "EOF" THEN "OK" ELSE s.end]

PutRequests(b, resourceName, zstd) ==
  IF zstd THEN CompressedRequests(Written(b), resourceName)
          ELSE IdentityRequests(ToChunkReader(b, 0, ReadChunkSize), resourceName)

(* The error of the client takes precedence over that of the server. *)
PutResult(requests, server, env) ==
  CASE requests.code # "OK" -> [server EXCEPT !.code = requests.code]
    [] requests.code = "OK" /\ env.network.loss # "none" -> [server EXCEPT !.code = "Unavailable"]
    [] OTHER -> server

SendRequests(requests, env) ==
  PutResult(requests,
            ServerWrite([messages |-> Delivered(requests.messages, env.network),
                         end      |-> IF env.network.loss = "requests" THEN "Unavailable" ELSE requests.end],
                        "server" \in env.available), env)

(* If there is no encoder, the call is cancelled before any request, which *)
(* makes CloseAndRecv() fail as well.                                      *)
ClientPut(d, uuid, b, env) ==
  LET compression == ShouldUseZSTDCompression(env.client, env.answer)
      zstd     == compression.use
      refusal  == CASE compression.code # "OK" -> compression.code
                    [] compression.code = "OK" /\ zstd /\ "client" \notin env.available -> "Internal"
                    [] OTHER -> "OK"
  IN  IF refusal # "OK"
      THEN [code |-> refusal, stored |-> <<>>]
      ELSE SendRequests(PutRequests(b, GetByteStreamWritePath(d, uuid, Compressor(zstd)), zstd), env)
=============================================================================
