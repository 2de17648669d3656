------------------------ MODULE HashingKeyLocationMap ------------------------
(***************************************************************************)
(* The hash table that implements KeyLocationMap                           *)
(* (hashing_key_location_map.go), on top of an array of location records   *)
(* (in_memory_location_record_array.go and                                 *)
(* block_device_backed_location_record_array.go).  All calls are made      *)
(* under the storage lock.  Put is modelled one iteration at a time, to    *)
(* keep sight of the record it carries along; no other call sees the table *)
(* in between.                                                             *)
(*                                                                         *)
(* A record array stores a reference to the block.  It can be resolved for *)
(* as long as the block exists, and keeps designating the same block       *)
(* (ReferencesStable of PersistentBlockList), so that a record simply      *)
(* holds the number of the block.                                          *)
(***************************************************************************)
EXTENDS Integers, FiniteSets

CONSTANTS
    Key,
    None,                \* no record, no location
    Slot,                \* indices of the record array
    Offset,              \* offsets within a block at which blobs start
    MaximumGetAttempts,
    MaximumPutAttempts,
    MaxBlocks,           \* bound: blocks ever created
    MaxReleases          \* bound: blocks ever released

ASSUME OffsetAssumption == Offset \subseteq Nat
ASSUME AttemptsAssumption ==
    MaximumGetAttempts \in Nat \ {0} /\ MaximumPutAttempts \in Nat \ {0}
ASSUME BoundsAssumption == MaxBlocks \in Nat /\ MaxReleases \in Nat

VARIABLES
    hash,         \* getSlot(): [Key -> [Attempt -> Slot]], fixed at the start
    records,      \* the record array
    oldestBlock,  \* the block list holds the blocks oldestBlock up to and
    nextBlock,    \* excluding nextBlock
    put,          \* the record that Put is to store next, and its iteration
    before        \* history: the record array when Put was called

vars == <<hash, records, oldestBlock, nextBlock, put, before>>

Attempt == 0 .. MaximumGetAttempts - 1

Location == [block: Nat, offset: Offset]
Record == [key: Key, attempt: Attempt, location: Location]

\* "There is no record" is not a record.
ASSUME NoneAssumption ==
    /\ None \notin Record
    /\ None \notin Location
    /\ None \notin [record: Record, iteration: 1 .. MaximumPutAttempts]

IsOlder(a, b) ==
    a.block < b.block \/ (a.block = b.block /\ a.offset < b.offset)

Exists(location) == oldestBlock <= location.block /\ location.block < nextBlock

\* LocationRecordArray.Get() does not return ErrLocationRecordInvalid.
IsValid(record) == record # None /\ Exists(record.location)

----------------------------------------------------------------------------
(* Get.                                                                    *)

SameRecordKey(record, key, attempt) ==
    record.key = key /\ record.attempt = attempt

\* The search for key ends at this attempt.
GetStops(table, key, attempt) ==
    LET record == table[hash[key][attempt]]
    IN  IsValid(record) => SameRecordKey(record, key, attempt)

Get(table, key) ==
    IF \E a \in Attempt :
          /\ GetStops(table, key, a)
          /\ \A b \in 0 .. a - 1 : ~GetStops(table, key, b)
          /\ IsValid(table[hash[key][a]])
    THEN LET a == CHOOSE n \in Attempt :
                      /\ GetStops(table, key, n)
                      /\ \A b \in 0 .. n - 1 : ~GetStops(table, key, b)
         IN  table[hash[key][a]].location
    ELSE None

----------------------------------------------------------------------------
(* Put.                                                                    *)

\* The slot and the record that the current iteration looks at.
PutSlot == hash[put.record.key][put.record.attempt]
OldRecord == records[PutSlot]

PutStart(key, location) ==
    /\ put = None
    /\ Exists(location)
    /\ put' = [record |-> [key |-> key, attempt |-> 0, location |-> location],
               iteration |-> 1]
    /\ before' = records
    /\ UNCHANGED <<hash, records, oldestBlock, nextBlock>>

PutReturns ==
    /\ put' = None
    /\ before' = records'

\* The existing record may be overwritten directly.
PutInserted ==
    /\ put # None
    /\ ~IsValid(OldRecord)
    /\ records' = [records EXCEPT ![PutSlot] = put.record]
    /\ PutReturns
    /\ UNCHANGED <<hash, oldestBlock, nextBlock>>

IsUpdate ==
    /\ put # None
    /\ IsValid(OldRecord)
    /\ SameRecordKey(OldRecord, put.record.key, put.record.attempt)

\* Mutant of PutUpdated: the entry is overwritten by an older one.
PutUpdatedAlways ==
    /\ IsUpdate
    /\ records' = [records EXCEPT ![PutSlot] = put.record]
    /\ PutReturns
    /\ UNCHANGED <<hash, oldestBlock, nextBlock>>

PutUpdated ==
    /\ IsUpdate
    /\ IsOlder(OldRecord.location, put.record.location)
    /\ records' = [records EXCEPT ![PutSlot] = put.record]
    /\ PutReturns
    /\ UNCHANGED <<hash, oldestBlock, nextBlock>>

PutIgnoredOlder ==
    /\ IsUpdate
    /\ ~IsOlder(OldRecord.location, put.record.location)
    /\ UNCHANGED records
    /\ PutReturns
    /\ UNCHANGED <<hash, oldestBlock, nextBlock>>

\* Mutant of Displaces: a record is displaced by an older one.
DisplacesAny == TRUE

\* The existing record is to be retained, but it is older.
Displaces == IsOlder(OldRecord.location, put.record.location)

OutOfAttempts(record) == record.attempt + 1 >= MaximumGetAttempts

\* The slot is taken by the record of another key: go on with whichever of
\* the two records is older, and give up when it runs out of attempts.
PutCollided ==
    /\ put # None
    /\ IsValid(OldRecord)
    /\ ~SameRecordKey(OldRecord, put.record.key, put.record.attempt)
    /\ \E record \in {IF Displaces THEN OldRecord ELSE put.record} :
          /\ records' = IF Displaces
                        THEN [records EXCEPT ![PutSlot] = put.record]
                        ELSE records
          /\ \/ /\ OutOfAttempts(record) \/ put.iteration >= MaximumPutAttempts
                /\ PutReturns
             \/ /\ ~OutOfAttempts(record)
                /\ put.iteration < MaximumPutAttempts
                /\ put' = [record |-> [record EXCEPT !.attempt = @ + 1],
                           iteration |-> put.iteration + 1]
                /\ UNCHANGED before
    /\ UNCHANGED <<hash, oldestBlock, nextBlock>>

----------------------------------------------------------------------------
(* The block list.                                                         *)

PushBack ==
    /\ put = None
    /\ nextBlock < MaxBlocks
    /\ nextBlock' = nextBlock + 1
    /\ UNCHANGED <<hash, records, oldestBlock, put, before>>

PopFront ==
    /\ put = None
    /\ oldestBlock < nextBlock
    /\ oldestBlock < MaxReleases
    /\ oldestBlock' = oldestBlock + 1
    /\ UNCHANGED <<hash, records, nextBlock, put, before>>

Init ==
    /\ hash \in [Key -> [Attempt -> Slot]]
    /\ records = [s \in Slot |-> None]
    /\ oldestBlock = 0
    /\ nextBlock = 0
    /\ put = None
    /\ before = records

Next ==
    \/ \E key \in Key, location \in [block: 0 .. nextBlock - 1, offset: Offset] :
          PutStart(key, location)
    \/ PutInserted
    \/ PutUpdated
    \/ PutIgnoredOlder
    \/ PutCollided
    \/ PushBack
    \/ PopFront

Spec == Init /\ [][Next]_vars

----------------------------------------------------------------------------
(* Properties.                                                             *)

\* Records are where their key and attempt hash to, and Put carries a record
\* whose attempt has not run out.
TypeOK ==
    /\ hash \in [Key -> [Attempt -> Slot]]
    /\ records \in [Slot -> Record \cup {None}]
    /\ \A s \in Slot : records[s] # None =>
          s = hash[records[s].key][records[s].attempt]
    /\ oldestBlock \in Nat
    /\ nextBlock \in Nat
    /\ put \in [record: Record, iteration: 1 .. MaximumPutAttempts] \cup {None}

\* "There is no need to continue searching, as everything we find after this
\* point is even older": the slots at which the search for a record passes by
\* hold valid records that are not older than it.
ChainOrdered(record) ==
    \A a \in 0 .. record.attempt - 1 :
        LET passed == records[hash[record.key][a]]
        IN  IsValid(passed) /\ ~IsOlder(passed.location, record.location)

ChainsOrdered ==
    \A s \in Slot : IsValid(records[s]) => ChainOrdered(records[s])

\* Get() finds the newest of the records of a key that are in the table and
\* whose block exists, whatever was displaced and released in the meantime.
NewestRecordFound ==
    put = None =>
        \A s \in Slot : IsValid(records[s]) =>
            /\ Get(records, records[s].key) # None
            /\ ~IsOlder(Get(records, records[s].key), records[s].location)

\* The table of records is in order after any sequence of Put() calls and of
\* blocks that come and go.
TableConsistent == TypeOK /\ ChainsOrdered /\ NewestRecordFound

\* The table as callers see it is a map that loses entries, but never returns
\* to an older location: a Put either takes effect as a whole or, at the
\* expense of at most one entry, not at all.
Map == INSTANCE KeyLocationMap
          WITH map <- [k \in Key |-> Get(before, k)]

ImplementsKeyLocationMap == Map!Spec
============================================================================
