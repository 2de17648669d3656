------------------------------ MODULE Buffers ------------------------------
(***************************************************************************)
(* Buffers (pkg/blobstore/buffer): the forms in which the contents of a    *)
(* blob are passed around, and the conversions between them.               *)
(*                                                                         *)
(* A buffer is a record with the type that implements it.  The digest of a *)
(* buffer is represented by the data that has it, "blob", as no two blobs  *)
(* have the same digest.                                                   *)
(*                                                                         *)
(* A stream, be it a ChunkReader or a Reader, is represented by what its   *)
(* consecutive reads return: chunks of data, and finally "EOF" or an error *)
(* code.  "eager" says whether the last chunk is returned together with    *)
(* the end, which a Reader may do; "close" is what Close() returns; notes  *)
(* are the calls of the DataIntegrityCallback that reading to the end      *)
(* makes.                                                                  *)
(***************************************************************************)
EXTENDS Integers, Sequences, SequencesExt, FiniteSetsExt

CONSTANTS
  Messages,               \* the data that can be unmarshaled
  DefaultChunkSizeBytes   \* the chunk size of operations that return no stream

RECURSIVE Invoke(_, _)
RECURSIVE WithErrorHandler(_, _)
RECURSIVE CloneStream(_)
RECURSIVE CloneCopy(_, _)

(* The methods of the interface Buffer that return data. *)
ToChunkReader(b, off, max) == Invoke(b, [method |-> "ToChunkReader", off |-> off, max |-> max])

ToUnvalidatedChunkReader(b, off, max) == Invoke(b, [method |-> "toUnvalidatedChunkReader", off |-> off, max |-> max])

ToUnvalidatedReader(b, off, max) == Invoke(b, [method |-> "toUnvalidatedReader", off |-> off, max |-> max])

ToReader(b, max) == Invoke(b, [method |-> "ToReader", max |-> max])

(* The ones that return all of it at once, with their arguments. *)
Apply(b, op) == Invoke(b, [method |-> "Apply", op |-> op])

-----------------------------------------------------------------------------
(* Streams. *)

Stream(chunks, end, eager) ==
  [chunks |-> chunks, end |-> end, eager |-> eager, close |-> "OK", notes |-> <<>>]

ErrorStream(code) == Stream(<<>>, code, FALSE)

Data(s) == FlattenSeq(s.chunks)

(* Data in chunks of the maximum size. *)
Pieces(data, max) ==
  [i \in 1 .. (Len(data) + max - 1) \div max |-> SubSeq(data, (i - 1) * max + 1, Min({i * max, Len(data)}))]

ByteSliceChunkReader(data, max) == Stream(Pieces(data, max), "EOF", FALSE)

(* Empty chunks are omitted, large ones are split. *)
NormalizingChunkReader(s, max) ==
  [s EXCEPT !.chunks = FlattenSeq([i \in DOMAIN @ |-> Pieces(@[i], max)])]

(* Chunks are filled with what several reads return. *)
ReaderBackedChunkReader(s, max) == [s EXCEPT !.chunks = Pieces(Data(s), max), !.eager = FALSE]

ChunkReaderBackedReader(s, max) ==
  [s EXCEPT !.chunks = Pieces(Data(s), max), !.eager = Len(Data(s)) % max # 0]

(* The amount of data in the first n chunks. *)
SizeOf(chunks, n) == Len(FlattenSeq(SubSeq(chunks, 1, n)))

(* The chunks that are left once the first n bytes are gone, i of them     *)
(* completely.                                                             *)
DropChunks(chunks, i, n) ==
  LET part == n - SizeOf(chunks, i)
  IN  IF part = 0 THEN SubSeq(chunks, i + 1, Len(chunks))
      ELSE <<SubSeq(chunks[i + 1], part + 1, Len(chunks[i + 1]))>> \o SubSeq(chunks, i + 2, Len(chunks))

DropBytes(chunks, n) == DropChunks(chunks, Max({i \in 0 .. Len(chunks) : SizeOf(chunks, i) <= n}), n)

(* Discarding the data up to an offset fails if there is less of it. *)
OffsetStream(s, off) ==
  CASE off < 0 -> ErrorStream("InvalidArgument")
    [] off >= 0 /\ off > Len(Data(s)) -> [ErrorStream(s.end) EXCEPT !.notes = s.notes]
    [] OTHER -> [s EXCEPT !.chunks = DropBytes(@, off)]

ValidateReaderOffset(length, off) == 0 <= off /\ off <= length

-----------------------------------------------------------------------------
(* Data integrity. *)

NotifyDataValid(s, n) == [s EXCEPT !.chunks = SubSeq(@, 1, n), !.end = "EOF", !.notes = Append(@, TRUE)]

NotifyInvalid(s, n, source) ==
  [s EXCEPT !.chunks = SubSeq(@, 1, n), !.end = source, !.notes = Append(@, FALSE)]

(* Mutant: the checksum is compared after the last chunk was returned.     *)
CASValidatingStreamLate(s, blob, source) ==
  CASE s.end # "EOF" -> s
    [] s.end = "EOF" /\ Len(Data(s)) # Len(blob) -> NotifyInvalid(s, 0, source)
    [] OTHER -> IF Data(s) = blob THEN NotifyDataValid(s, Len(s.chunks))
                                  ELSE NotifyInvalid(s, Len(s.chunks), source)

(* The chunk with which all data has been returned is only returned once   *)
(* the stream was seen to end there and the checksum matches; it is the    *)
(* first of the ones by which the size is reached, if any.                 *)
ValidateReached(s, blob, source, reached) ==
  LET n     == Min(reached)
      early == IF s.eager /\ s.chunks # <<>> THEN Len(s.chunks) - 1 ELSE Len(s.chunks)
  IN  CASE reached = {} /\ s.end = "EOF" -> NotifyInvalid(s, early, source)
        [] reached = {} /\ s.end # "EOF" -> [s EXCEPT !.chunks = SubSeq(@, 1, early)]
        [] OTHER ->
             CASE Len(Data(s)) > Len(blob) -> NotifyInvalid(s, n - 1, source)
               [] Len(Data(s)) = Len(blob) /\ s.end # "EOF" -> [s EXCEPT !.chunks = SubSeq(@, 1, n - 1)]
               [] OTHER -> IF Data(s) = blob THEN NotifyDataValid(s, n) ELSE NotifyInvalid(s, n - 1, source)

CASValidatingStream(s, blob, source) ==
  ValidateReached(s, blob, source, {n \in 0 .. Len(s.chunks) : SizeOf(s.chunks, n) >= Len(blob)})

(* The status code of integrity errors. *)
UserProvided == "InvalidArgument"
BackendProvided == "Internal"

-----------------------------------------------------------------------------
(* Construction. *)

NewBufferFromError(code) == [type |-> "error", code |-> code, notes |-> <<>>]

NewValidatedBufferFromByteSlice(data) == [type |-> "bytes", data |-> data, notes |-> <<>>]

NewCASBufferFromByteSlice(blob, data, source) ==
  IF data = blob
  THEN [NewValidatedBufferFromByteSlice(data) EXCEPT !.notes = <<TRUE>>]
  ELSE [NewBufferFromError(source) EXCEPT !.notes = <<FALSE>>]

NewValidatedBufferFromReaderAt(data) == [type |-> "readerAt", data |-> data, notes |-> <<>>]

NewCASBufferFromReader(blob, s, source) ==
  [type |-> "reader", blob |-> blob, stream |-> s, source |-> source, notes |-> <<>>]

NewCASBufferFromChunkReader(blob, s, source) ==
  [type |-> "chunks", blob |-> blob, stream |-> [s EXCEPT !.eager = FALSE], source |-> source,
   notes |-> <<>>]

(* Data that is not a message is not stored in a buffer at all. *)
NewProtoBufferFromByteSlice(data, source) ==
  IF data \in Messages
  THEN [type |-> "proto", data |-> data, notes |-> <<TRUE>>]
  ELSE [NewBufferFromError(source) EXCEPT !.notes = <<FALSE>>]

NewProtoBufferFromReader(s, source) ==
  IF s.end # "EOF" THEN NewBufferFromError(s.end) ELSE NewProtoBufferFromByteSlice(Data(s), source)

(* ReadBufferFactory for blobs that are known to be valid, or not to be.   *)
ValidationCachingNewBufferFromByteSlice(cached, blob, data) ==
  IF cached THEN NewValidatedBufferFromByteSlice(data)
            ELSE NewCASBufferFromByteSlice(blob, data, BackendProvided)

ValidationCachingNewBufferFromReaderAt(cached, blob, data) ==
  IF cached THEN NewValidatedBufferFromReaderAt(data)
            ELSE NewCASBufferFromReader(blob, Stream(<<data>>, "EOF", FALSE), BackendProvided)

(* Buffers whose data is at hand: they can be read any number of times. *)
AtHand == {"bytes", "readerAt", "proto"}

-----------------------------------------------------------------------------
(* Decoration. *)

(* Buffers that can be read repeatedly run the task in the foreground. *)
AtHandWithTask(b, code) == IF code = "OK" THEN b ELSE NewBufferFromError(code)

NewCASBufferWithBackgroundTask(b, code) ==
  [type |-> "task", base |-> b, task |-> code, blob |-> b.blob, source |-> b.source,
   hasDigest |-> b.type # "task" \/ b.hasDigest, notes |-> <<>>]

WithTask(b, code) ==
  CASE b.type = "error"   -> b
    [] b.type \in AtHand -> AtHandWithTask(b, code)
    [] OTHER              -> NewCASBufferWithBackgroundTask(b, code)

(* Clones share the task, but lack the digest. *)
DecorateBuffer(b, replacement) == [b EXCEPT !.base = replacement, !.hasDigest = FALSE]

(* What an error handler answers to an error: the next of its answers, or  *)
(* the same error once it has run out of them.                             *)
OnError(answers, code) == IF answers = <<>> THEN [type |-> "code", code |-> code] ELSE Head(answers)

Rest(answers) == IF answers = <<>> THEN <<>> ELSE Tail(answers)

ErrorApplyErrorHandler(b, answers) ==
  LET answer == OnError(answers, b.code)
  IN  IF answer.type = "code" THEN NewBufferFromError(answer.code)
      ELSE WithErrorHandler(answer.buffer, Rest(answers))

NewCASErrorHandlingBuffer(b, answers) ==
  [type |-> "handling", base |-> b, answers |-> answers, blob |-> b.blob, source |-> b.source,
   notes |-> <<>>]

(* Attaching an error handler to a buffer that has its digest. *)
WithErrorHandler(b, answers) ==
  CASE b.type \in AtHand -> b
    [] b.type = "error"   -> ErrorApplyErrorHandler(b, answers)
    [] OTHER              -> NewCASErrorHandlingBuffer(b, answers)

(* The handles that CloneStream() returns; "others" are the wishes of the  *)
(* other consumers: whether they validate, and their chunk size.           *)
NewCASClonedBuffer(b) ==
  [type |-> "cloned", base |-> b, others |-> {}, blob |-> b.blob, source |-> b.source, notes |-> <<>>]

CloneStream(b) ==
  CASE b.type \in AtHand \cup {"error", "cloned"} -> b
    [] b.type = "task" -> DecorateBuffer(b, CloneStream(b.base))
    [] OTHER           -> NewCASClonedBuffer(b)

CopyOf(slice) ==
  IF slice.code = "OK" THEN NewValidatedBufferFromByteSlice(slice.data) ELSE NewBufferFromError(slice.code)

CloneCopyViaByteSlice(b, max) == CopyOf(Apply(b, [name |-> "ToByteSlice", max |-> max]))

CloneCopy(b, max) ==
  CASE b.type \in AtHand \cup {"error"} -> b
    [] b.type = "task" -> DecorateBuffer(b, CloneCopy(b.base, max))
    [] OTHER           -> CloneCopyViaByteSlice(b, max)

(* A buffer that lacks its digest can't tell its size. *)
GetSizeBytes(b) ==
  CASE b.type \in AtHand -> [code |-> "OK", size |-> Len(b.data)]
    [] b.type = "error"  -> [code |-> b.code, size |-> 0]
    [] OTHER -> IF b.type = "task" /\ ~b.hasDigest THEN [code |-> "Panic", size |-> 0]
                ELSE [code |-> "OK", size |-> Len(b.blob)]

-----------------------------------------------------------------------------
(* The streams of the buffers. *)

ByteSliceStream(b, off, max) ==
  IF ValidateReaderOffset(Len(b.data), off)
  THEN ByteSliceChunkReader(SubSeq(b.data, off + 1, Len(b.data)), max)
  ELSE ErrorStream("InvalidArgument")

ReaderAtStream(b, off, max) ==
  IF ValidateReaderOffset(Len(b.data), off)
  THEN ReaderBackedChunkReader(Stream(<<SubSeq(b.data, off + 1, Len(b.data))>>, "EOF", FALSE), max)
  ELSE ErrorStream("InvalidArgument")

ValidatedIf(validated, b, s) == IF validated THEN CASValidatingStream(s, b.blob, b.source) ELSE s

CASChunkReaderStream(b, validated, off, max) ==
  IF validated /\ ~ValidateReaderOffset(Len(b.blob), off)
  THEN ErrorStream("InvalidArgument")
  ELSE NormalizingChunkReader(OffsetStream(ValidatedIf(validated, b, b.stream), off), max)

(* The reader's answers to reads into a buffer of max bytes. *)
ReadsOf(s, max) == NormalizingChunkReader(s, max)

(* Its answers if the part up to an offset is discarded, and io.ReadFull() *)
(* fills buffers of max bytes with the rest.                               *)
CutAt(data, cuts) == [i \in 1 .. Len(cuts) - 1 |-> SubSeq(data, cuts[i] + 1, cuts[i + 1])]

ReadFullsOf(s, off, max) ==
  LET ends == {SizeOf(s.chunks, i) : i \in 0 .. Len(s.chunks)}
                \cup {i \in 0 .. Len(Data(s)) : i >= off /\ (i - off) % max = 0}
  IN  [s EXCEPT !.chunks = CutAt(Data(s), SetToSortSeq(ends, LAMBDA x, y : x < y))]

CASReaderStream(b, validated, off, max) ==
  IF validated /\ ~ValidateReaderOffset(Len(b.blob), off)
  THEN ErrorStream("InvalidArgument")
  ELSE ReaderBackedChunkReader(OffsetStream(ValidatedIf(validated, b, ReadFullsOf(b.stream, off, max)), off), max)

(* The error of the task is reported at the end of a ChunkReader, but by   *)
(* Close() of a Reader.                                                    *)
ChunkReaderWithBackgroundTask(s, task) ==
  [s EXCEPT !.end = IF @ = "EOF" /\ task # "OK" THEN task ELSE @]

ReaderWithBackgroundTask(s, task) == [s EXCEPT !.close = IF @ = "OK" THEN task ELSE @]

(* The error handling buffer once its handler has supplied a replacement. *)
Replaced(b, answer) == [b EXCEPT !.base = answer.buffer, !.answers = Rest(@)]

Continued(s, rest) ==
  [rest EXCEPT !.chunks = s.chunks \o @, !.notes = s.notes \o @, !.eager = @ /\ rest.chunks # <<>>]

ToUnvalidated(b, off, max, chunked) ==
  Invoke(b, [method |-> IF chunked THEN "toUnvalidatedChunkReader" ELSE "toUnvalidatedReader",
             off |-> off, max |-> max])

(* Upon an error, the buffer that the handler supplies is read from the    *)
(* place that was reached.                                                 *)
HandleStreamError(b, s, off, max, chunked) ==
  LET answer == OnError(b.answers, s.end)
  IN  CASE s.end = "EOF" -> s
        [] s.end # "EOF" /\ answer.type = "code" -> [s EXCEPT !.end = answer.code]
        [] OTHER -> Continued(s, ToUnvalidated(Replaced(b, answer), off + Len(Data(s)), max, chunked))

ErrorHandlingStream(b, off, max, chunked) ==
  HandleStreamError(b, ToUnvalidated(b.base, off, max, chunked), off, max, chunked)

CASErrorHandlingStream(b, off, max) ==
  IF ~ValidateReaderOffset(Len(b.blob), off)
  THEN ErrorStream("InvalidArgument")
  ELSE OffsetStream(CASValidatingStream(ErrorHandlingStream(b, 0, max, TRUE),
                                        b.blob, b.source), off)

(* All consumers get the same stream: validated if one of them wants it to *)
(* be, in chunks that are small enough for each.                           *)
CASClonedStream(b, validated, max) ==
  Invoke(b.base, [method |-> IF validated \/ \E o \in b.others : o.validated
                             THEN "ToChunkReader" ELSE "toUnvalidatedChunkReader",
                  off |-> 0, max |-> Min({max} \cup {o.max : o \in b.others})])

ToChunkReaderOf(b, off, max) ==
  CASE b.type = "error"             -> ErrorStream(b.code)
    [] b.type \in {"bytes", "proto"} -> ByteSliceStream(b, off, max)
    [] b.type = "readerAt"          -> ReaderAtStream(b, off, max)
    [] b.type = "chunks"            -> CASChunkReaderStream(b, TRUE, off, max)
    [] b.type = "reader"            -> CASReaderStream(b, TRUE, off, max)
    [] b.type = "task"              -> ChunkReaderWithBackgroundTask(ToChunkReader(b.base, off, max), b.task)
    [] b.type = "handling"          -> CASErrorHandlingStream(b, off, max)
    [] b.type = "cloned"            -> OffsetStream(CASClonedStream(b, TRUE, max), off)

ToUnvalidatedChunkReaderOf(b, off, max) ==
  CASE b.type = "chunks"            -> CASChunkReaderStream(b, FALSE, off, max)
    [] b.type = "reader"            -> CASReaderStream(b, FALSE, off, max)
    [] b.type = "task"              -> ChunkReaderWithBackgroundTask(ToUnvalidatedChunkReader(b.base, off, max), b.task)
    [] b.type = "handling"          -> ErrorHandlingStream(b, off, max, TRUE)
    [] b.type = "cloned"            -> OffsetStream(CASClonedStream(b, FALSE, max), off)
    [] OTHER                        -> ToChunkReader(b, off, max)

(* What reads into buffers of max bytes return. *)
CASChunkReaderReader(b, validated, off, max) ==
  ChunkReaderBackedReader(OffsetStream(ValidatedIf(validated, b, b.stream), off), max)

CASReaderReader(b, validated, off, max) ==
  IF validated THEN CASValidatingStream(ReadsOf(b.stream, max), b.blob, b.source)
               ELSE ReadsOf(OffsetStream(b.stream, off), max)

CASClonedReader(b, validated, off, max) ==
  ChunkReaderBackedReader(OffsetStream(CASClonedStream(b, validated, DefaultChunkSizeBytes), off), max)

ToUnvalidatedReaderOf(b, off, max) ==
  CASE b.type = "chunks"   -> CASChunkReaderReader(b, FALSE, off, max)
    [] b.type = "reader"   -> CASReaderReader(b, FALSE, off, max)
    [] b.type = "task"     -> ReaderWithBackgroundTask(ToUnvalidatedReader(b.base, off, max), b.task)
    [] b.type = "handling" -> ErrorHandlingStream(b, off, max, FALSE)
    [] b.type = "cloned"   -> CASClonedReader(b, FALSE, off, max)
    [] OTHER               -> ToChunkReader(b, off, max)

ToReaderOf(b, max) ==
  CASE b.type = "chunks"   -> CASChunkReaderReader(b, TRUE, 0, max)
    [] b.type = "reader"   -> CASReaderReader(b, TRUE, 0, max)
    [] b.type = "task"     -> ReaderWithBackgroundTask(ToReader(b.base, max), b.task)
    [] b.type = "handling" -> CASValidatingStream(ToUnvalidatedReader(b, 0, max), b.blob, b.source)
    [] b.type = "cloned"   -> CASClonedReader(b, TRUE, 0, max)
    [] OTHER               -> ToUnvalidatedReader(b, 0, max)

-----------------------------------------------------------------------------
(* Operations that return data. *)

Result(code, data, notes) == [code |-> code, data |-> data, notes |-> notes]

IntoWriterViaChunkReader(s) == Result(IF s.end = "EOF" THEN "OK" ELSE s.end, Data(s), s.notes)

ToByteSliceViaChunkReader(s, size, max) ==
  CASE size > max -> Result("InvalidArgument", <<>>, <<>>)
    [] size <= max /\ s.end # "EOF" -> Result(s.end, <<>>, s.notes)
    [] OTHER -> Result("OK", Data(s), s.notes)

(* Data that ends early yields EOF; the rest of the stream is read, to     *)
(* have it validated.                                                      *)
ReadAtViaChunkReader(s, n, off) ==
  LET rest == OffsetStream(s, off)
  IN  CASE rest.end = "EOF" /\ Len(Data(rest)) >= n -> Result("OK", SubSeq(Data(rest), 1, n), rest.notes)
        [] rest.end = "EOF" /\ Len(Data(rest)) < n -> Result("EOF", Data(rest), rest.notes)
        [] OTHER -> Result(rest.end, <<>>, rest.notes)

AtHandReadAt(data, n, off) ==
  CASE off < 0 -> Result("InvalidArgument", <<>>, <<>>)
    [] off >= 0 /\ off > Len(data) -> Result("EOF", <<>>, <<>>)
    [] OTHER -> LET end == Min({off + n, Len(data)})
                IN  Result(IF end < off + n THEN "EOF" ELSE "OK", SubSeq(data, off + 1, end), <<>>)

After(notes, result) == [result EXCEPT !.notes = notes \o @]

(* The operation is attempted against one buffer after another. *)
HandleError(b, result, op) ==
  LET answer == OnError(b.answers, result.code)
  IN  CASE result.code \in {"OK", "EOF"} -> result
        [] result.code \notin {"OK", "EOF"} /\ answer.type = "code" -> Result(answer.code, <<>>, result.notes)
        [] OTHER -> After(result.notes, Apply(Replaced(b, answer), op))

TryRepeatedly(b, op) == HandleError(b, Apply(b.base, op), op)

ToProtoViaByteSlice(slice) ==
  IF slice.code = "OK" /\ slice.data \notin Messages
  THEN Result("InvalidArgument", <<>>, slice.notes)
  ELSE slice

WithTaskResult(result, task) ==
  IF result.code = "OK" /\ task # "OK" THEN [result EXCEPT !.code = task] ELSE result

(* The operation, on a stream that yields data of the given size. *)
ApplyViaChunkReader(s, size, op) ==
  CASE op.name = "IntoWriter"  -> IntoWriterViaChunkReader(s)
    [] op.name = "ReadAt"      -> ReadAtViaChunkReader(s, op.n, op.off)
    [] op.name = "ToByteSlice" -> ToByteSliceViaChunkReader(s, size, op.max)
    [] op.name = "ToProto"     -> ToProtoViaByteSlice(ToByteSliceViaChunkReader(s, size, op.max))

ErrorApply(b, op) == Result(b.code, <<>>, <<>>)

ByteSliceApply(b, op) ==
  IF op.name = "ReadAt" THEN AtHandReadAt(b.data, op.n, op.off)
  ELSE ApplyViaChunkReader(Stream(<<b.data>>, "EOF", FALSE), Len(b.data), op)

ReaderAtApply(b, op) == ByteSliceApply(b, op)

(* The message is at hand as well. *)
ProtoApply(b, op) ==
  IF op.name = "ToProto"
  THEN IF Len(b.data) > op.max THEN Result("InvalidArgument", <<>>, <<>>) ELSE Result("OK", b.data, <<>>)
  ELSE ByteSliceApply(b, op)

CASChunkReaderApply(b, op) ==
  ApplyViaChunkReader(CASValidatingStream(b.stream, b.blob, b.source), Len(b.blob), op)

CASReaderApply(b, op) ==
  ApplyViaChunkReader(CASValidatingStream(b.stream, b.blob, b.source), Len(b.blob), op)

TaskApply(b, op) == WithTaskResult(Apply(b.base, op), b.task)

CASErrorHandlingApply(b, op) ==
  IF op.name = "IntoWriter"
  THEN IntoWriterViaChunkReader(CASErrorHandlingStream(b, 0, DefaultChunkSizeBytes))
  ELSE TryRepeatedly(b, op)

CASClonedApply(b, op) ==
  ApplyViaChunkReader(CASClonedStream(b, TRUE, DefaultChunkSizeBytes), Len(b.blob), op)

ApplyOf(b, op) ==
  CASE b.type = "error"    -> ErrorApply(b, op)
    [] b.type = "bytes"    -> ByteSliceApply(b, op)
    [] b.type = "readerAt" -> ReaderAtApply(b, op)
    [] b.type = "proto"    -> ProtoApply(b, op)
    [] b.type = "chunks"   -> CASChunkReaderApply(b, op)
    [] b.type = "reader"   -> CASReaderApply(b, op)
    [] b.type = "task"     -> TaskApply(b, op)
    [] b.type = "handling" -> CASErrorHandlingApply(b, op)
    [] b.type = "cloned"   -> CASClonedApply(b, op)

Invoke(b, call) ==
  CASE call.method = "ToChunkReader"            -> ToChunkReaderOf(b, call.off, call.max)
    [] call.method = "toUnvalidatedChunkReader" -> ToUnvalidatedChunkReaderOf(b, call.off, call.max)
    [] call.method = "toUnvalidatedReader"      -> ToUnvalidatedReaderOf(b, call.off, call.max)
    [] call.method = "ToReader"                 -> ToReaderOf(b, call.max)
    [] call.method = "Apply"                    -> ApplyOf(b, call.op)
=============================================================================
