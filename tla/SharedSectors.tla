---------------------------- MODULE SharedSectors ----------------------------
(***************************************************************************)
(* Concurrent writes of objects into a block of a block device, which are  *)
(* performed in whole sectors, even though objects start and end anywhere  *)
(* (pkg/blobstore/local/block_device_backed_block_allocator.go).  A sector *)
(* that holds data of more than one object is shared by their writers.     *)
(*                                                                         *)
(* Put() holds the storage lock.  Write() and flush() only use what others *)
(* may use as well while they hold the lock of a shared sector, so that    *)
(* each call is a step.                                                    *)
(***************************************************************************)
EXTENDS Integers, Sequences, SequencesExt, FiniteSetsExt

CONSTANTS
  BlockWriters,      \* the objects that are written
  ObjectSizes,       \* the sizes that they may have
  SectorSize,
  BlockSectors,      \* size of the block
  NoSector,
  MaxDeviceErrors    \* bound on failures of the device and of buffers

VARIABLES
  device,            \* the sectors of the block on the device
  writeOffsetSectors,
  sharedSector,      \* the sector in which the next object starts, or NoSector
  sectors,           \* number -> [writeOffset, data] of the shared sectors
  blockWriter,       \* what each writer is doing
  deviceErrors

sectorVars == <<device, writeOffsetSectors, sharedSector, sectors, blockWriter, deviceErrors>>

Zeroes == [i \in 1 .. SectorSize |-> <<>>]

SectorsInit ==
  /\ device = [s \in 0 .. BlockSectors - 1 |-> Zeroes]
  /\ writeOffsetSectors = 0
  /\ sharedSector = NoSector
  /\ sectors = <<>>
  /\ blockWriter = [w \in BlockWriters |-> [at |-> "idle"]]
  /\ deviceErrors = 0

SharedOffset == IF sharedSector = NoSector THEN 0 ELSE sectors[sharedSector].writeOffset

(* HasSpace() *)
HasSpaceFor(size) == (BlockSectors - writeOffsetSectors) * SectorSize - SharedOffset >= size

(* Mutant: a shared sector is also created if the object ends in the one   *)
(* that it started in.                                                     *)
EndingSectorOwn(sectorCount, lastOffset) ==
  IF lastOffset = 0
  THEN sharedSector' = NoSector /\ UNCHANGED sectors
  ELSE /\ sharedSector' = Len(sectors) + 1
       /\ sectors' = Append(sectors, [writeOffset |-> lastOffset, data |-> Zeroes])

(* The sector in which an object ends is shared with the next object,      *)
(* unless it ends at a sector boundary.                                    *)
EndingSector(sectorCount, lastOffset) ==
  IF lastOffset = 0
  THEN sharedSector' = NoSector /\ UNCHANGED sectors
  ELSE IF sharedSector = NoSector \/ sectorCount > 0
       THEN /\ sharedSector' = Len(sectors) + 1
            /\ sectors' = Append(sectors, [writeOffset |-> lastOffset, data |-> Zeroes])
       ELSE /\ UNCHANGED sharedSector
            /\ sectors' = [sectors EXCEPT ![sharedSector].writeOffset = lastOffset]

(* Put() *)
AllocateSectors(w, size) ==
  LET end == SharedOffset + size
  IN  /\ blockWriter[w].at = "idle"
      /\ HasSpaceFor(size)
      /\ writeOffsetSectors' = writeOffsetSectors + (end \div SectorSize)
      /\ EndingSector(end \div SectorSize, end % SectorSize)
      /\ blockWriter' = [blockWriter EXCEPT ![w] =
           [at |-> "write", size |-> size, written |-> 0, offset |-> writeOffsetSectors * SectorSize + SharedOffset,
            offsetSectors |-> writeOffsetSectors, firstSector |-> sharedSector, firstSectorOffset |-> SharedOffset,
            partialSector |-> <<>>, lastSector |-> sharedSector']]
      /\ UNCHANGED <<device, deviceErrors>>

DeviceError == deviceErrors < MaxDeviceErrors /\ deviceErrors' = deviceErrors + 1

Bytes(w, first, last) == [i \in 1 .. last - first + 1 |-> <<w, first + i - 1>>]

Overwrite(data, offset, bytes) ==
  [i \in DOMAIN data |-> IF i - offset \in DOMAIN bytes THEN bytes[i - offset] ELSE data[i]]

(* The device with sectors written from number s. *)
WithSectors(d, s, bytes) ==
  [i \in DOMAIN d |-> IF i \in s .. s + (Len(bytes) \div SectorSize) - 1
                      THEN SubSeq(bytes, (i - s) * SectorSize + 1, (i - s + 1) * SectorSize)
                      ELSE d[i]]

(* Write() of the next n bytes.  These first fill up the sector that is    *)
(* shared with previous objects, and then sectors of this object only.     *)
WriteBytes(w, n) ==
  LET me     == blockWriter[w]
      first  == me.firstSector
      c      == IF first = NoSector THEN 0 ELSE Min({n, SectorSize - me.firstSectorOffset})
      data   == Overwrite(sectors[first].data, me.firstSectorOffset, Bytes(w, me.written + 1, me.written + c))
      filled == first # NoSector /\ me.firstSectorOffset + c = SectorSize
      rest   == me.partialSector \o Bytes(w, me.written + c + 1, me.written + n)
      whole  == (Len(rest) \div SectorSize) * SectorSize
      next   == IF filled THEN me.offsetSectors + 1 ELSE me.offsetSectors
      dev    == IF filled THEN WithSectors(device, me.offsetSectors, data) ELSE device
  IN  /\ me.at = "write" /\ me.written + n <= me.size
      /\ sectors' = IF first = NoSector THEN sectors ELSE [sectors EXCEPT ![first].data = data]
      /\ \/ /\ device' = WithSectors(dev, next, SubSeq(rest, 1, whole))
            /\ blockWriter' = [blockWriter EXCEPT ![w] =
                 [@ EXCEPT !.written = @ + n, !.firstSector = IF filled THEN NoSector ELSE @, !.firstSectorOffset = @ + c,
                           !.offsetSectors = next + (whole \div SectorSize),
                           !.partialSector = SubSeq(rest, whole + 1, Len(rest))]]
            /\ UNCHANGED deviceErrors
         \/ /\ filled \/ whole > 0
            /\ DeviceError
            /\ device' \in {device} \cup {WithSectors(dev, next, SubSeq(rest, 1, k * SectorSize)) : k \in 0 .. whole \div SectorSize}
            /\ blockWriter' = [blockWriter EXCEPT ![w].at = "error"]
      /\ UNCHANGED <<writeOffsetSectors, sharedSector>>

(* The buffer that provides the data fails. *)
BufferFails(w) ==
  /\ blockWriter[w].at = "write"
  /\ DeviceError
  /\ blockWriter' = [blockWriter EXCEPT ![w].at = "error"]
  /\ UNCHANGED <<device, writeOffsetSectors, sharedSector, sectors>>

(* flush(): the last sector is combined with the data of other objects. *)
Flush(w) ==
  LET me   == blockWriter[w]
      last == me.lastSector
      data == Overwrite(sectors[last].data, 0, me.partialSector)
  IN  /\ me.at = "write" /\ me.written = me.size
      /\ IF last = NoSector
         THEN UNCHANGED sectors
         ELSE sectors' = [sectors EXCEPT ![last].data = data]
      /\ \/ /\ device' = IF last = NoSector THEN device ELSE WithSectors(device, me.offsetSectors, data)
            /\ blockWriter' = [blockWriter EXCEPT ![w].at = "ok"]
            /\ UNCHANGED deviceErrors
         \/ /\ last # NoSector
            /\ DeviceError
            /\ blockWriter' = [blockWriter EXCEPT ![w].at = "error"]
            /\ UNCHANGED device
      /\ UNCHANGED <<writeOffsetSectors, sharedSector>>

SectorsNext ==
  \E w \in BlockWriters :
    \/ \E size \in ObjectSizes : AllocateSectors(w, size)
    \/ \E n \in 1 .. Max(ObjectSizes) : WriteBytes(w, n)
    \/ BufferFails(w)
    \/ Flush(w)

-----------------------------------------------------------------------------
ByteAt(offset) == device[offset \div SectorSize][(offset % SectorSize) + 1]

(* Once an object was written, it is on the device, and stays there no     *)
(* matter how others write to the sectors it starts or ends in, how their  *)
(* data arrives, or whether they fail.  Objects don't overlap.             *)
WrittenObjectsOnDevice ==
  /\ \A w \in BlockWriters : blockWriter[w].at = "ok" =>
       \A i \in 1 .. blockWriter[w].size : ByteAt(blockWriter[w].offset + i - 1) = <<w, i>>
  /\ \A v, w \in BlockWriters :
       v # w /\ {blockWriter[v].at, blockWriter[w].at} \cap {"idle"} = {} =>
         \/ blockWriter[v].offset + blockWriter[v].size <= blockWriter[w].offset
         \/ blockWriter[w].offset + blockWriter[w].size <= blockWriter[v].offset
=============================================================================
