-------------------------- MODULE PersistentStorage --------------------------
(***************************************************************************)
(* Persistent local storage: PersistentBlockList together with the block   *)
(* allocator on a block device (block_device_backed_block_allocator.go),   *)
(* the two goroutines of PeriodicSyncer (periodic_syncer.go), the state    *)
(* file (directory_backed_persistent_state_store.go), clients that write   *)
(* and read blobs, and restarts, graceful or after a crash.                *)
(*                                                                         *)
(* A blob occupies one byte of a block.  Every blob is written once, so    *)
(* that the data read back identifies the Put that wrote it.               *)
(***************************************************************************)
EXTENDS PersistentBlockList, SequencesExt, FiniteSetsExt

CONSTANTS
    Putter,          \* clients that call Put
    Reader,          \* clients that call Get
    InitialOffsets,  \* the allocator's free list before any block is taken
    SectorSize,      \* sector size of the block device in bytes
    CrashKinds,      \* ways in which the program may go down
    MayShutDown,     \* whether the program may be asked to terminate
    MaxPuts,         \* bound: calls to Put
    MaxRestarts      \* bound: restarts of the program

ASSUME SectorSizeAssumption == SectorSize \in Nat \ {0}
ASSUME InitialOffsetsAssumption ==
    InitialOffsets \in Seq(Location) /\ Range(InitialOffsets) = Location
ASSUME CrashKindsAssumption == CrashKinds \subseteq {"process", "system"}
ASSUME MayShutDownAssumption == MayShutDown \in BOOLEAN
ASSUME MaxPutsAssumption == MaxPuts \in Nat
ASSUME MaxRestartsAssumption == MaxRestarts \in Nat

VARIABLES
    freeOffsets,     \* allocator: Seq(Location)
    usecount,        \* block objects: [Location -> Nat], 0 if there is none
    writeOffset,     \* block objects: allocated bytes
    data,            \* what reads of the block device return
    durable,         \* what of data survives a crash for certain
    puts,            \* [Putter -> Put]
    readers,         \* [Reader -> Get]
    syncer,          \* the goroutines that call ProcessBlockPut (syncer.put)
                     \* and ProcessBlockRelease (syncer.release)
    storeLock,       \* holder of PeriodicSyncer.storeLock
    stateFile,       \* the file "state", as the running system sees it
    durableStateFile,\* the file "state" that survives a crash for certain
    shuttingDown,    \* the context of ProcessBlockPut was cancelled
    records,         \* history: all key-location map records ever written
    nextBlob,        \* history: the next blob to be written
    restarts         \* history: how the program went down, each time it did

allocatorVars == <<freeOffsets, usecount, writeOffset>>
deviceVars == <<data, durable>>
clientVars == <<puts, readers, records, nextBlob>>
storeVars == <<storeLock, stateFile, durableStateFile>>
syncerVars == <<syncer, storeVars, shuttingDown>>
vars == <<blockListVars, allocatorVars, deviceVars, clientVars, syncerVars,
          restarts>>

Blob == 1 .. MaxPuts
NoBlob == 0
None == "none"
Offset == 0 .. BlockSize - 1

IdlePut == [pc |-> "idle", absoluteBlockIndex |-> 0, location |-> None,
            offset |-> 0, blob |-> NoBlob]
IdleGet == [pc |-> "idle", location |-> None, offset |-> 0, blob |-> NoBlob]
IdleSyncer == [pc |-> "idle", channelOpen |-> TRUE, final |-> FALSE,
               state |-> None]

\* PeriodicSyncer keeps the lock from NotifySyncCompleted of the next to last
\* synchronization to NotifySyncStarting of the last one.
LockAvailable == syncer.put.pc # "startFinal"

----------------------------------------------------------------------------
(* Block allocator.                                                        *)

\* Mutant of ReleaseBlock: space is returned while there are other users.
ReleaseBlockEarly(location) ==
    /\ usecount' = [usecount EXCEPT ![location] = @ - 1]
    /\ freeOffsets' = Append(freeOffsets, location)

\* Block.Release: the last user returns the space to the allocator.
ReleaseBlock(location) ==
    /\ usecount' = [usecount EXCEPT ![location] = @ - 1]
    /\ freeOffsets' = IF usecount[location] = 1
                      THEN Append(freeOffsets, location) ELSE freeOffsets

HasSpace(location) == writeOffset[location] < BlockSize

RoundUpToSector(bytes) ==
    ((bytes + SectorSize - 1) \div SectorSize) * SectorSize

\* NewBlockAtLocation takes an offset out of the middle of the free list by
\* moving the last one to its place.
TakeOffset(free, location) ==
    LET i == CHOOSE j \in DOMAIN free : free[j] = location
    IN  SubSeq([free EXCEPT ![i] = free[Len(free)]], 1, Len(free) - 1)

----------------------------------------------------------------------------
(* The operations on the block list that OldCurrentNewLocationBlobMap      *)
(* performs on its own account: rotating blocks.                           *)

\* The channel a syncer holds is closed when the block list unblocks it.
FollowChannels ==
    syncer' = [syncer EXCEPT !.put.channelOpen = @ /\ blockPutWakeup',
                             !.release.channelOpen = @ /\ blockReleaseWakeup']

RotateOut ==
    /\ LockAvailable
    /\ totalBlocksReleased < MaxReleases
    /\ PopFront
    /\ FollowChannels
    /\ UNCHANGED <<allocatorVars, deviceVars, clientVars, storeVars,
                   shuttingDown, restarts>>

RotateIn ==
    /\ LockAvailable
    /\ freeOffsets # <<>>
    /\ PushBack(Head(freeOffsets))
    /\ freeOffsets' = Tail(freeOffsets)
    /\ usecount' = [usecount EXCEPT ![Head(freeOffsets)] = 1]
    /\ writeOffset' = [writeOffset EXCEPT ![Head(freeOffsets)] = 0]
    /\ UNCHANGED <<deviceVars, clientVars, syncerVars, restarts>>

----------------------------------------------------------------------------
(* Writing a blob.                                                         *)

\* Put: allocate space under the lock.
PutStart(p) ==
    /\ LockAvailable
    /\ puts[p].pc = "idle"
    /\ ~closedForWriting
    /\ nextBlob \in Blob
    /\ \E i \in DOMAIN blocks :
          LET location == blocks[i].location IN
          /\ HasSpace(location)
          /\ usecount' = [usecount EXCEPT ![location] = @ + 1]
          /\ writeOffset' = [writeOffset EXCEPT ![location] = @ + 1]
          /\ puts' = [puts EXCEPT ![p] =
                 [pc |-> "writing",
                  absoluteBlockIndex |-> totalBlocksReleased + i - 1,
                  location |-> location,
                  offset |-> writeOffset[location],
                  blob |-> nextBlob]]
    /\ nextBlob' = nextBlob + 1
    /\ UNCHANGED <<blockListVars, freeOffsets, deviceVars, readers, records,
                   syncerVars, restarts>>

\* The BlockPutWriter copies the data without holding the lock, and releases
\* the block.  A write that fails may have reached the device all the same.
PutWrite(p) ==
    /\ puts[p].pc = "writing"
    /\ \E ok \in BOOLEAN,
          stored \in {data[puts[p].location][puts[p].offset], puts[p].blob} :
          /\ ok => stored = puts[p].blob
          /\ data' = [data EXCEPT ![puts[p].location][puts[p].offset] = stored]
          /\ puts' = [puts EXCEPT ![p].pc = IF ok THEN "written" ELSE "failed"]
    /\ ReleaseBlock(puts[p].location)
    /\ UNCHANGED <<blockListVars, writeOffset, durable, readers, records,
                   nextBlob, syncerVars, restarts>>

\* Mutant of Valid: the checksum does not depend on the epoch.
ValidWithoutSeed(r) == Resolves(r.reference)

\* The key-location map may still interpret a record: its epoch is known and
\* its checksum was computed with that epoch's hash seed.
Valid(r) == Resolves(r.reference) /\ ReferenceSeed(r.reference) = r.seed

RecordBlockIndex(r) == BlockReferenceToBlockIndex(r.reference)

\* The record that KeyLocationMap.Put() stores for a blob.
RecordFor(absoluteBlockIndex, offset, blob) ==
    [reference |-> BlockIndexToBlockReference(
                       absoluteBlockIndex - totalBlocksReleased + 1),
     seed |-> epochHashSeeds[Len(epochHashSeeds)],
     offset |-> offset,
     blob |-> blob]

\* Records that KeyLocationMap.Put() displaces are stored again, under the
\* latest epoch.  The history assumes that it displaced every valid record: the
\* properties below only become stronger with every record.
MovedRecords(old) ==
    {RecordFor(totalBlocksReleased + RecordBlockIndex(r) - 1, r.offset, r.blob) :
         r \in {q \in old : Valid(q)}}

\* The BlockPutFinalizer under the lock, followed by KeyLocationMap.Put().
PutFinalizeOk(p) ==
    /\ LockAvailable
    /\ puts[p].pc = "written"
    /\ PutFinalizer(puts[p].absoluteBlockIndex, puts[p].offset + 1, puts[p].blob)
    /\ \E put \in {puts[p]}, old \in {records} :
          records' = old \cup
              {RecordFor(put.absoluteBlockIndex, put.offset, put.blob)'}
              \cup MovedRecords(old)'
    /\ puts' = [puts EXCEPT ![p] = IdlePut]
    /\ FollowChannels
    /\ UNCHANGED <<allocatorVars, deviceVars, readers, nextBlob, storeVars,
                   shuttingDown, restarts>>

\* Errors: the write failed, the storage is closed for writing, or the block
\* was released in the meantime.
PutFinalizeError(p) ==
    /\ LockAvailable
    /\ \/ puts[p].pc = "failed"
       \/ puts[p].pc = "written" /\ closedForWriting
       \/ puts[p].pc = "written"
             /\ puts[p].absoluteBlockIndex < totalBlocksReleased
    /\ puts' = [puts EXCEPT ![p] = IdlePut]
    /\ UNCHANGED <<blockListVars, allocatorVars, deviceVars, readers, records,
                   nextBlob, syncerVars, restarts>>

----------------------------------------------------------------------------
(* Reading a blob: the block is kept alive until the reader is closed.     *)

GetStart(c) ==
    /\ LockAvailable
    /\ readers[c].pc = "idle"
    /\ \E r \in records :
          /\ Valid(r)
          /\ LET location == blocks[RecordBlockIndex(r)].location IN
             /\ usecount' = [usecount EXCEPT ![location] = @ + 1]
             /\ readers' = [readers EXCEPT ![c] =
                    [pc |-> "reading", location |-> location,
                     offset |-> r.offset, blob |-> r.blob]]
    /\ UNCHANGED <<blockListVars, freeOffsets, writeOffset, deviceVars, puts,
                   records, nextBlob, syncerVars, restarts>>

GetClose(c) ==
    /\ readers[c].pc = "reading"
    /\ ReleaseBlock(readers[c].location)
    /\ readers' = [readers EXCEPT ![c] = IdleGet]
    /\ UNCHANGED <<blockListVars, writeOffset, deviceVars, puts, records,
                   nextBlob, syncerVars, restarts>>

----------------------------------------------------------------------------
(* PeriodicSyncer.ProcessBlockPut.                                         *)

othersVars == <<allocatorVars, clientVars, storeVars, restarts>>

GetBlockPutWakeup ==
    /\ syncer.put.pc = "idle"
    /\ syncer' = [syncer EXCEPT !.put.pc = "waiting",
                                !.put.channelOpen = blockPutWakeup]
    /\ UNCHANGED <<blockListVars, othersVars, deviceVars, shuttingDown>>

\* The channel was closed and the timer that enforces the minimum epoch
\* interval fired, or the context was cancelled at either select statement.
StartSync ==
    /\ syncer.put.pc = "waiting"
    /\ \E keepGoing \in BOOLEAN :
          /\ keepGoing => ~syncer.put.channelOpen
          /\ ~keepGoing => shuttingDown
          /\ syncer' = [syncer EXCEPT
                 !.put.pc = IF keepGoing THEN "syncing" ELSE "syncingLast",
                 !.put.channelOpen = TRUE]
    /\ NotifySyncStarting(FALSE)
    /\ UNCHANGED <<othersVars, deviceVars, shuttingDown>>

\* DataSyncer succeeded.  It is retried until it does; a failed attempt
\* changes nothing that a crash could not leave behind anyhow.
DataSync ==
    /\ \E next \in {<<"syncing", "synced">>, <<"syncingLast", "syncedLast">>,
                    <<"syncingFinal", "syncedFinal">>} :
          /\ syncer.put.pc = next[1]
          /\ syncer' = [syncer EXCEPT !.put.pc = next[2]]
    /\ durable' = data
    /\ UNCHANGED <<blockListVars, othersVars, data, shuttingDown>>

CompleteSync ==
    /\ \E next \in {<<"synced", "store">>, <<"syncedLast", "startFinal">>,
                    <<"syncedFinal", "store">>} :
          /\ syncer.put.pc = next[1]
          /\ syncer' = [syncer EXCEPT !.put.pc = next[2],
                                      !.put.final = (next[1] = "syncedFinal")]
    /\ NotifySyncCompleted
    /\ UNCHANGED <<othersVars, deviceVars, shuttingDown>>

\* Mutant of StartFinalSync: writes are still accepted.
StartFinalSyncOpen ==
    /\ syncer.put.pc = "startFinal"
    /\ syncer' = [syncer EXCEPT !.put.pc = "syncingFinal"]
    /\ NotifySyncStarting(FALSE)
    /\ UNCHANGED <<othersVars, deviceVars, shuttingDown>>

\* The second synchronization of a shutdown: writes are rejected from here.
StartFinalSync ==
    /\ syncer.put.pc = "startFinal"
    /\ syncer' = [syncer EXCEPT !.put.pc = "syncingFinal"]
    /\ NotifySyncStarting(TRUE)
    /\ UNCHANGED <<othersVars, deviceVars, shuttingDown>>

RequestShutdown ==
    /\ MayShutDown
    /\ ~shuttingDown
    /\ shuttingDown' = TRUE
    /\ UNCHANGED <<blockListVars, othersVars, deviceVars, syncer>>

----------------------------------------------------------------------------
(* PeriodicSyncer.ProcessBlockRelease.                                     *)

GetBlockReleaseWakeup ==
    /\ LockAvailable
    /\ syncer.release.pc = "idle"
    /\ syncer' = [syncer EXCEPT !.release.pc = "waiting",
                                !.release.channelOpen = blockReleaseWakeup]
    /\ UNCHANGED <<blockListVars, othersVars, deviceVars, shuttingDown>>

----------------------------------------------------------------------------
(* PeriodicSyncer.writePersistentState, by either goroutine g, and         *)
(* directoryBackedPersistentStateStore.WritePersistentState.               *)

\* ProcessBlockRelease gets here when its channel is closed.
StoreBegin(g) ==
    /\ LockAvailable
    /\ \/ syncer[g].pc = "store"
       \/ g = "release" /\ syncer[g].pc = "waiting" /\ ~syncer[g].channelOpen
    /\ storeLock = None
    /\ storeLock' = g
    /\ GetPersistentState
    /\ syncer' = [syncer EXCEPT
           ![g].pc = "writing",
           ![g].channelOpen = TRUE,
           ![g].state = [oldestEpochID |-> oldestEpochID,
                         blocks |-> PersistentBlocks]]
    /\ UNCHANGED <<allocatorVars, clientVars, stateFile, durableStateFile,
                   restarts, deviceVars, shuttingDown>>

\* state.new was written and synchronized, and is moved over the old file.
StoreRename(g) ==
    /\ syncer[g].pc = "writing"
    /\ stateFile' = syncer[g].state
    /\ syncer' = [syncer EXCEPT ![g].pc = "renamed"]
    /\ UNCHANGED <<blockListVars, allocatorVars, clientVars, storeLock,
                   durableStateFile, restarts, deviceVars, shuttingDown>>

\* Mutant of StoreSync: the directory is not synchronized after the rename.
StoreSyncSkipped(g) ==
    /\ syncer[g].pc = "renamed"
    /\ syncer' = [syncer EXCEPT ![g].pc = "stored", ![g].state = None]
    /\ UNCHANGED <<blockListVars, allocatorVars, clientVars, storeVars,
                   restarts, deviceVars, shuttingDown>>

\* The directory was synchronized.
StoreSync(g) ==
    /\ syncer[g].pc = "renamed"
    /\ durableStateFile' = stateFile
    /\ syncer' = [syncer EXCEPT ![g].pc = "stored", ![g].state = None]
    /\ UNCHANGED <<blockListVars, allocatorVars, clientVars, storeLock,
                   stateFile, restarts, deviceVars, shuttingDown>>

\* One of the steps of writing the file failed; try again later.
StoreError(g) ==
    /\ syncer[g].pc \in {"writing", "renamed"}
    /\ storeLock' = None
    /\ syncer' = [syncer EXCEPT ![g].pc = "store", ![g].state = None]
    /\ UNCHANGED <<blockListVars, allocatorVars, clientVars, stateFile,
                   durableStateFile, restarts, deviceVars, shuttingDown>>

StoreEnd(g) ==
    LET released == SubSeq(blocksToRelease, 1, blocksReleasing) IN
    /\ LockAvailable
    /\ syncer[g].pc = "stored"
    /\ NotifyPersistentStateWritten
    /\ usecount' = [l \in Location |->
           IF l \in Range(released) THEN usecount[l] - 1 ELSE usecount[l]]
    /\ freeOffsets' =
           freeOffsets \o SelectSeq(released, LAMBDA l : usecount[l] = 1)
    /\ storeLock' = None
    /\ syncer' = [syncer EXCEPT
           ![g].pc = IF syncer[g].final THEN "stopped" ELSE "idle"]
    /\ UNCHANGED <<writeOffset, clientVars, stateFile, durableStateFile,
                   restarts, deviceVars, shuttingDown>>

----------------------------------------------------------------------------
(* Starting the program, for the first time or after it went down at any   *)
(* point.                                                                  *)

NewPersistentState == [oldestEpochID |-> 1, blocks |-> <<>>]

StateLocations(state) ==
    [i \in DOMAIN state.blocks |-> state.blocks[i].location]

\* The free list after NewBlockAtLocation was called for every block of state.
OffsetsAfter(state) ==
    FoldLeft(TakeOffset, InitialOffsets, StateLocations(state))

UsecountAfter(state) ==
    [l \in Location |-> IF l \in Range(StateLocations(state)) THEN 1 ELSE 0]

WriteOffsetAfter(state) ==
    [l \in Location |->
        IF l \in Range(StateLocations(state))
        THEN RoundUpToSector((CHOOSE b \in Range(state.blocks) :
                                  b.location = l).writeOffsetBytes)
        ELSE 0]

IdlePuts == [p \in Putter |-> IdlePut]
IdleReaders == [c \in Reader |-> IdleGet]
IdleSyncers == [put |-> IdleSyncer, release |-> IdleSyncer]

StorageInit ==
    /\ NewPersistentBlockList(NewPersistentState.oldestEpochID, <<>>)
    /\ freeOffsets = InitialOffsets
    /\ usecount = UsecountAfter(NewPersistentState)
    /\ writeOffset = WriteOffsetAfter(NewPersistentState)
    /\ puts = IdlePuts
    /\ readers = IdleReaders
    /\ syncer = IdleSyncers
    /\ storeLock = None
    /\ shuttingDown = FALSE
    /\ stateFile = NewPersistentState
    /\ durableStateFile = NewPersistentState
    /\ data = [l \in Location |-> [o \in Offset |-> NoBlob]]
    /\ durable = data
    /\ records = {}
    /\ nextBlob = 1
    /\ restarts = <<>>

\* The program starts from a state file, as StorageInit describes it.
Restart(state, kind) ==
    /\ kind \in CrashKinds
    /\ Len(restarts) < MaxRestarts
    /\ restarts' = Append(restarts, kind)
    /\ blocks' = RestoredBlocks(state.blocks)
    /\ epochHashSeeds' = RestoredSeeds(state.blocks)
    /\ epochLastAbsoluteBlockIndex' = RestoredLastBlocks(state.blocks)
    /\ totalBlocksReleased' = 0
    /\ oldestEpochID' = state.oldestEpochID
    /\ synchronizingEpochs' = Len(RestoredSeeds(state.blocks))
    /\ synchronizedEpochs' = Len(RestoredSeeds(state.blocks))
    /\ blockPutWakeup' = TRUE
    /\ blocksToRelease' = <<>>
    /\ blocksReleasing' = 0
    /\ blockReleaseWakeup' = TRUE
    /\ closedForWriting' = FALSE
    /\ freeOffsets' = OffsetsAfter(state)
    /\ usecount' = UsecountAfter(state)
    /\ writeOffset' = WriteOffsetAfter(state)
    /\ puts' = IdlePuts
    /\ readers' = IdleReaders
    /\ syncer' = IdleSyncers
    /\ storeLock' = None
    /\ shuttingDown' = FALSE
    /\ UNCHANGED <<records, nextBlob>>

\* The program exits or crashes, but the operating system keeps running.
ProcessRestart ==
    /\ Restart(stateFile, "process")
    /\ UNCHANGED <<deviceVars, stateFile, durableStateFile>>

\* The machine goes down.  Any part of what was not synchronized may be lost.
SystemRestart ==
    /\ \E state \in {stateFile, durableStateFile} :
          /\ Restart(state, "system")
          /\ stateFile' = state
          /\ durableStateFile' = state
    /\ \E lost \in SUBSET {c \in Location \X Offset :
                               data[c[1]][c[2]] # durable[c[1]][c[2]]} :
          data' = [l \in Location |-> [o \in Offset |->
                      IF <<l, o>> \in lost THEN durable[l][o] ELSE data[l][o]]]
    /\ durable' = data'

SyncerNext ==
    \/ GetBlockPutWakeup
    \/ StartSync
    \/ DataSync
    \/ CompleteSync
    \/ StartFinalSync
    \/ GetBlockReleaseWakeup
    \/ \E g \in {"put", "release"} :
          StoreBegin(g) \/ StoreRename(g) \/ StoreSync(g) \/ StoreEnd(g)

StorageNext ==
    \/ RotateOut
    \/ RotateIn
    \/ \E p \in Putter :
          PutStart(p) \/ PutWrite(p) \/ PutFinalizeOk(p) \/ PutFinalizeError(p)
    \/ \E c \in Reader : GetStart(c) \/ GetClose(c)
    \/ SyncerNext
    \/ \E g \in {"put", "release"} : StoreError(g)
    \/ RequestShutdown
    \/ ProcessRestart
    \/ SystemRestart

StorageSpec == StorageInit /\ [][StorageNext]_vars

\* The loops around ProcessBlockPut and ProcessBlockRelease keep running, timers
\* fire, and no kind of I/O error lasts forever.  Go's mutexes do not starve a
\* goroutine, which makes StoreBegin strongly fair.
SyncerFairness ==
    /\ WF_vars(\/ GetBlockPutWakeup \/ StartSync \/ DataSync \/ CompleteSync
               \/ StartFinalSync)
    /\ WF_vars(GetBlockReleaseWakeup)
    /\ \A g \in {"put", "release"} :
          /\ SF_vars(StoreBegin(g))
          /\ SF_vars(StoreRename(g))
          /\ SF_vars(StoreSync(g))
          /\ WF_vars(StoreEnd(g))

FairStorageSpec == StorageSpec /\ SyncerFairness

----------------------------------------------------------------------------
(* Properties.                                                             *)

\* A record that the key-location map accepts leads to the data that was
\* written for it, whatever was lost, reused or half synchronized before.
RecordsLeadToTheirData ==
    \A r \in records : Valid(r) =>
        data[blocks[RecordBlockIndex(r)].location][r.offset] = r.blob

\* A reader that was handed out keeps seeing its blob until it is closed, also
\* when its block is popped from the list and its space is wanted again.
ReadersUndisturbed ==
    \A c \in Reader : readers[c].pc = "reading" =>
        data[readers[c].location][readers[c].offset] = readers[c].blob

\* Space that a state file on disk refers to is not handed out again: if the
\* program or the machine went down now, that file would be used to interpret it.
\* (A program that was restarted does not know of an older file that is still the
\* durable one; what follows from that is the run storage_two_crashes.)
StateFileBlocksHeld ==
    \A state \in {stateFile} \cup
                 {s \in {durableStateFile} : "process" \notin Range(restarts)} :
        Range(StateLocations(state)) \subseteq HeldLocations

\* The number of users of the block object at location l.
Users(l) ==
    (IF l \in HeldLocations THEN 1 ELSE 0)
    + Cardinality({p \in Putter : puts[p].pc = "writing" /\ puts[p].location = l})
    + Cardinality({c \in Reader : readers[c].location = l})

\* The allocator neither loses space nor hands it out twice: reference counts
\* equal the number of users, and exactly the unused locations are free.
SpaceConserved ==
    /\ IsInjective(freeOffsets)
    /\ Len(blocks) + Len(blocksToRelease) = Cardinality(HeldLocations)
    /\ \A l \in Location :
          /\ usecount[l] = Users(l)
          /\ usecount[l] = 0 <=> l \in Range(freeOffsets)

\* The space of the block device is accounted for: none is lost, and none is
\* handed out while the program or a state file still uses it.
SpaceAccountedFor == StateFileBlocksHeld /\ SpaceConserved

\* How a state file interprets a record, if the program starts from it.
ValidInState(state, r) ==
    LET seeds == RestoredSeeds(state.blocks)
        e == EpochSub(r.reference.epochID, state.oldestEpochID) + 1
    IN  /\ e <= Len(seeds)
        /\ r.reference.blocksFromLast <= RestoredLastBlocks(state.blocks)[e]
        /\ seeds[e] = r.seed

StateRecordLocation(state, r) ==
    LET e == EpochSub(r.reference.epochID, state.oldestEpochID) + 1
    IN  state.blocks[RestoredLastBlocks(state.blocks)[e] + 1
                         - r.reference.blocksFromLast].location

\* After a graceful shutdown, every blob that could be read still can be after
\* the machine went down and up again: its record is valid under the state
\* file, and its data is synchronized.
ShutdownLosesNothing ==
    syncer.put.pc = "stopped" =>
        \A r \in records : Valid(r) =>
            /\ ValidInState(durableStateFile, r)
            /\ durable[StateRecordLocation(durableStateFile, r)][r.offset] = r.blob

\* The space of a block that was popped is eventually up for reuse, although
\* writing the state file may fail and blocks are popped while it is written.
PoppedBlocksReleased ==
    \A l \in Location :
        l \in Range(blocksToRelease) ~> l \notin Range(blocksToRelease)

Readable(blob) == \E r \in records : r.blob = blob /\ Valid(r)

SurvivesCrash(blob) ==
    \E r \in records :
        /\ r.blob = blob
        /\ ValidInState(durableStateFile, r)
        /\ durable[StateRecordLocation(durableStateFile, r)][r.offset] = blob

\* A blob whose Put completed eventually survives a crash of the machine, unless
\* its block is popped before.  No Put may fall between two synchronizations.
PutsBecomeDurable ==
    \A blob \in Blob : Readable(blob) ~> SurvivesCrash(blob) \/ ~Readable(blob)

\* A request to terminate is followed by the last call of ProcessBlockPut, unless
\* the program goes down before.
ShutdownTerminates ==
    shuttingDown ~> syncer.put.pc = "stopped" \/ ~shuttingDown

\* What the two goroutines of PeriodicSyncer bring about.
SyncerProgress == PutsBecomeDurable /\ PoppedBlocksReleased /\ ShutdownTerminates
============================================================================
