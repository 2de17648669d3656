----------------------------- MODULE ZIPArchive -----------------------------
(***************************************************************************)
(* ZIPWritingBlobAccess: concurrent calls to Put() append to a ZIP archive *)
(* that is finalized upon shutdown, and that NewZIPReadingBlobAccess() can *)
(* open afterwards (pkg/blobstore/zip_writing_blob_access.go).             *)
(*                                                                         *)
(* The archive maps offsets to what was written there: a byte of an        *)
(* object, a local file header, an entry of the central directory or its   *)
(* end.  Headers and entries have a size of one.  Offsets that were not    *)
(* written are holes.                                                      *)
(***************************************************************************)
EXTENDS Integers, Sequences, SequencesExt, FiniteSetsExt

CONSTANTS
  Writers,        \* callers of Put(), each of which calls it once
  Files,          \* the [key, data] that they put
  MaxWriteErrors  \* bound on failures of the file and of buffers

VARIABLES
  archive,
  filesAccess,      \* key -> [dataOffset, dataSize]
  filesFinalize,    \* sequence of [key, headerOffset, dataSize, crc32]
  writeOffset,
  finalizer,        \* what Finalize() is doing
  writer,           \* what each caller is doing
  writeErrors

zipVars == <<archive, filesAccess, filesFinalize, writeOffset, finalizer, writer, writeErrors>>

HeaderSize == 1

ZIPInit ==
  /\ archive = <<>>
  /\ filesAccess = <<>> /\ filesFinalize = <<>>
  /\ writeOffset = 0
  /\ finalizer = [at |-> "running", offset |-> 0]
  /\ writer = [w \in Writers |-> [at |-> "idle"]]
  /\ writeErrors = 0

Finalized == finalizer.at # "running"

WriteAt(offset, byte) == (offset :> byte) @@ [o \in DOMAIN archive \ {offset} |-> archive[o]]

WriteError == writeErrors < MaxWriteErrors /\ writeErrors' = writeErrors + 1

-----------------------------------------------------------------------------
(* Space for a file and its header is allocated, unless the archive was    *)
(* finalized.                                                              *)
AllocateFile(w, file) ==
  /\ writer[w].at = "idle"
  /\ IF Finalized
     THEN /\ writer' = [writer EXCEPT ![w] = [at |-> "error"]]
          /\ UNCHANGED writeOffset
     ELSE /\ writer' = [writer EXCEPT ![w] = [at |-> "data", file |-> file, headerOffset |-> writeOffset, written |-> 0]]
          /\ writeOffset' = writeOffset + HeaderSize + Len(file.data)
  /\ UNCHANGED <<archive, filesAccess, filesFinalize, finalizer, writeErrors>>

(* The buffer provides some more data, fails, or is done. *)
WriteData(w) ==
  LET me == writer[w]
  IN  /\ me.at = "data"
      /\ \/ /\ me.written < Len(me.file.data)
            /\ archive' = WriteAt(me.headerOffset + HeaderSize + me.written, me.file.data[me.written + 1])
            /\ writer' = [writer EXCEPT ![w].written = @ + 1]
            /\ UNCHANGED writeErrors
         \/ /\ me.written = Len(me.file.data)
            /\ writer' = [writer EXCEPT ![w].at = "header"]
            /\ UNCHANGED <<archive, writeErrors>>
         \/ /\ WriteError
            /\ writer' = [writer EXCEPT ![w] = [at |-> "error"]]
            /\ UNCHANGED archive
      /\ UNCHANGED <<filesAccess, filesFinalize, writeOffset, finalizer>>

(* The local file header, which contains the checksum, here the data. *)
WriteHeader(w) ==
  LET me == writer[w]
  IN  /\ me.at = "header"
      /\ \/ /\ archive' = WriteAt(me.headerOffset, [key |-> me.file.key, dataSize |-> Len(me.file.data), crc32 |-> me.file.data])
            /\ writer' = [writer EXCEPT ![w].at = "commit"]
            /\ UNCHANGED writeErrors
         \/ /\ WriteError
            /\ writer' = [writer EXCEPT ![w] = [at |-> "error"]]
            /\ UNCHANGED archive
      /\ UNCHANGED <<filesAccess, filesFinalize, writeOffset, finalizer>>

FinalizeInfo(me) ==
  [key |-> me.file.key, headerOffset |-> me.headerOffset, dataSize |-> Len(me.file.data), crc32 |-> me.file.data]

AccessInfo(me) == [dataOffset |-> me.headerOffset + HeaderSize, dataSize |-> Len(me.file.data)]

(* Mutant: whether the archive was finalized is not checked again. *)
CommitLate(w) ==
  LET me == writer[w]
  IN  /\ me.at = "commit"
      /\ filesAccess' = (me.file.key :> AccessInfo(me)) @@ filesAccess
      /\ filesFinalize' = Append(filesFinalize, FinalizeInfo(me))
      /\ writer' = [writer EXCEPT ![w] = [at |-> "ok", file |-> me.file]]
      /\ UNCHANGED <<archive, writeOffset, finalizer, writeErrors>>

CommitFile(w) ==
  LET me == writer[w]
  IN  /\ me.at = "commit"
      /\ IF Finalized
         THEN /\ writer' = [writer EXCEPT ![w] = [at |-> "error"]]
              /\ UNCHANGED <<filesAccess, filesFinalize>>
         ELSE /\ filesAccess' = (me.file.key :> AccessInfo(me)) @@ filesAccess
              /\ filesFinalize' = Append(filesFinalize, FinalizeInfo(me))
              /\ writer' = [writer EXCEPT ![w] = [at |-> "ok", file |-> me.file]]
      /\ UNCHANGED <<archive, writeOffset, finalizer, writeErrors>>

-----------------------------------------------------------------------------
(* Finalize() runs without the lock once it has set ba.finalized. *)

SetFinalized ==
  /\ finalizer.at = "running"
  /\ finalizer' = [at |-> "directory", offset |-> writeOffset]
  /\ UNCHANGED <<archive, filesAccess, filesFinalize, writeOffset, writer, writeErrors>>

(* The next entry of the central directory, or its end. *)
WriteCentralDirectory ==
  LET n == finalizer.offset - writeOffset
  IN  /\ finalizer.at = "directory"
      /\ \/ /\ n < Len(filesFinalize)
            /\ archive' = WriteAt(finalizer.offset, filesFinalize[n + 1])
            /\ finalizer' = [finalizer EXCEPT !.offset = @ + 1]
            /\ UNCHANGED writeErrors
         \/ /\ n = Len(filesFinalize)
            /\ archive' = WriteAt(finalizer.offset, [entries |-> Len(filesFinalize), size |-> n, directoryOffset |-> writeOffset])
            /\ finalizer' = [finalizer EXCEPT !.at = "ok"]
            /\ UNCHANGED writeErrors
         \/ /\ WriteError
            /\ finalizer' = [finalizer EXCEPT !.at = "error"]
            /\ UNCHANGED archive
      /\ UNCHANGED <<filesAccess, filesFinalize, writeOffset, writer>>

ZIPNext ==
  \/ \E w \in Writers : \/ \E file \in Files : AllocateFile(w, file)
                        \/ WriteData(w) \/ WriteHeader(w) \/ CommitFile(w)
  \/ SetFinalized
  \/ WriteCentralDirectory

-----------------------------------------------------------------------------
(* What Get() returns. *)
GetFile(key) ==
  LET file == filesAccess[key]
  IN  [i \in 1 .. file.dataSize |-> archive[file.dataOffset + i - 1]]

(* zip.NewReader(): the entries of the central directory, found by means   *)
(* of its end, which is at the end of the file.                            *)
ArchiveEntries ==
  LET end == archive[Max(DOMAIN archive)]
  IN  [i \in 1 .. end.entries |-> archive[end.directoryOffset + i - 1]]

(* The last file of a name, whose data follows its local header. *)
ReadFile(key) ==
  LET matches == SelectSeq(ArchiveEntries, LAMBDA e : e.key = key)
      e       == Last(matches)
  IN  [i \in 1 .. e.dataSize |-> archive[e.headerOffset + HeaderSize + i - 1]]

(* Objects that Put() stored can be read from then on, by all of the calls *)
(* to Get() until and after Finalize(), no matter which calls ran at the   *)
(* same time or failed.  Once Finalize() has succeeded, the archive has    *)
(* the same files, and their headers and checksums match.                  *)
StoredFilesReadable ==
  /\ \A w \in Writers : writer[w].at = "ok" => writer[w].file.key \in DOMAIN filesAccess
  /\ \A key \in DOMAIN filesAccess :
       \E w \in Writers : writer[w].at = "ok" /\ writer[w].file = [key |-> key, data |-> GetFile(key)]
  /\ finalizer.at = "ok" =>
       /\ {e.key : e \in ToSet(ArchiveEntries)} = DOMAIN filesAccess
       /\ \A e \in ToSet(ArchiveEntries) : archive[e.headerOffset] = [key |-> e.key, dataSize |-> e.dataSize, crc32 |-> e.crc32]
       /\ \A key \in DOMAIN filesAccess : ReadFile(key) = GetFile(key)
=============================================================================
