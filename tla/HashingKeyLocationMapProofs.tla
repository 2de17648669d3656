--------------------- MODULE HashingKeyLocationMapProofs ---------------------
(***************************************************************************)
(* Proofs about HashingKeyLocationMap, for every size of the table, every  *)
(* hash function and every limit on the number of attempts.                *)
(***************************************************************************)
EXTENDS HashingKeyLocationMap, WellFoundedInduction, TLAPS

\* The inductive invariant: next to the chains of the records in the table,
\* the chain of the record that Put carries along.  No record refers to a
\* block that is yet to be created.
IInv ==
    /\ TypeOK
    /\ \A s \in Slot : records[s] # None => records[s].location.block < nextBlock
    /\ ChainsOrdered
    /\ put # None => Exists(put.record.location) /\ ChainOrdered(put.record)

LEMMA LocationNumbers ==
    ASSUME NEW l \in Location
    PROVE  l.block \in Nat /\ l.offset \in Nat
BY Zenon, OffsetAssumption DEF Location

LEMMA IsOlderTransitive ==
    ASSUME NEW a \in Location, NEW b \in Location, NEW c \in Location,
           ~IsOlder(b, a), ~IsOlder(c, b)
    PROVE  ~IsOlder(c, a)
BY LocationNumbers DEF IsOlder

LEMMA IsOlderIrreflexive ==
    ASSUME NEW a \in Location
    PROVE  ~IsOlder(a, a)
BY LocationNumbers DEF IsOlder

LEMMA IsOlderAsymmetric ==
    ASSUME NEW a \in Location, NEW b \in Location, IsOlder(a, b)
    PROVE  ~IsOlder(b, a)
BY LocationNumbers DEF IsOlder

\* The types of what an iteration of Put looks at.
LEMMA PutTypes ==
    ASSUME TypeOK, put # None
    PROVE  /\ put.record \in Record
           /\ put.record.location \in Location
           /\ put.iteration \in 1 .. MaximumPutAttempts
           /\ PutSlot \in Slot
           /\ OldRecord \in Record \cup {None}
           /\ OldRecord # None => OldRecord.location \in Location
           /\ OldRecord # None => PutSlot = hash[OldRecord.key][OldRecord.attempt]
BY ZenonT(30) DEF TypeOK, PutSlot, OldRecord, Record

\* Writing a record that is not older than the valid record it replaces, or
\* that replaces an invalid one, keeps all chains in order.
LEMMA WriteKeepsChains ==
    ASSUME IInv, NEW slot \in Slot, NEW record \in Record,
           Exists(record.location),
           IsValid(records[slot]) =>
               ~IsOlder(record.location, records[slot].location),
           records' = [records EXCEPT ![slot] = record],
           UNCHANGED <<hash, oldestBlock, nextBlock>>,
           NEW r \in Record, ChainOrdered(r)
    PROVE  ChainOrdered(r)'
<1> USE DEF IInv
<1> SUFFICES ASSUME NEW a \in 0 .. r.attempt - 1
             PROVE  LET passed == records'[hash[r.key][a]]
                    IN  IsValid(passed) /\ ~IsOlder(passed.location, r.location)
    BY Zenon DEF ChainOrdered, IsValid, Exists
<1>1. hash[r.key][a] \in Slot
    <2>1. r.key \in Key /\ r.attempt \in Attempt
        BY Zenon DEF Record
    <2>2. a \in Attempt
        BY <2>1, AttemptsAssumption DEF Attempt
    <2>3. QED
        BY Zenon, <2>1, <2>2 DEF TypeOK
<1>2. /\ IsValid(records[hash[r.key][a]])
      /\ ~IsOlder(records[hash[r.key][a]].location, r.location)
    BY Zenon DEF ChainOrdered
<1>3. CASE hash[r.key][a] # slot
    BY Zenon, <1>1, <1>2, <1>3 DEF TypeOK
<1>4. CASE hash[r.key][a] = slot
    <2>1. records'[slot] = record
        BY Zenon DEF TypeOK
    <2>2. /\ record.location \in Location
          /\ r.location \in Location
          /\ records[slot].location \in Location
        BY Zenon, <1>2, <1>4 DEF TypeOK, Record, IsValid
    <2>3. ~IsOlder(record.location, records[slot].location)
        BY Zenon, <1>2, <1>4
    <2>4. ~IsOlder(record.location, r.location)
        BY Zenon, <1>2, <1>4, <2>2, <2>3, IsOlderTransitive
    <2>5. IsValid(record)
        BY Zenon, NoneAssumption DEF IsValid
    <2>6. QED
        BY Zenon, <1>4, <2>1, <2>4, <2>5
<1>5. QED
    BY Zenon, <1>3, <1>4

\* The same for the table as a whole.
LEMMA WriteKeepsTable ==
    ASSUME IInv, NEW slot \in Slot, NEW record \in Record,
           Exists(record.location), ChainOrdered(record),
           slot = hash[record.key][record.attempt],
           IsValid(records[slot]) =>
               ~IsOlder(record.location, records[slot].location),
           records' = [records EXCEPT ![slot] = record],
           UNCHANGED <<hash, oldestBlock, nextBlock>>
    PROVE  /\ records' \in [Slot -> Record \cup {None}]
           /\ \A s \in Slot : records'[s] # None =>
                 /\ s = hash'[records'[s].key][records'[s].attempt]
                 /\ records'[s].location.block < nextBlock'
           /\ ChainsOrdered'
<1>1. records' \in [Slot -> Record \cup {None}]
    BY Zenon DEF IInv, TypeOK
<1>2. \A s \in Slot : records'[s] = IF s = slot THEN record ELSE records[s]
    BY Zenon DEF IInv, TypeOK
<1>3. \A s \in Slot : records'[s] # None =>
          /\ s = hash'[records'[s].key][records'[s].attempt]
          /\ records'[s].location.block < nextBlock'
    BY Zenon, <1>2 DEF IInv, TypeOK, Exists
<1>4. ASSUME NEW s \in Slot, IsValid(records[s])' PROVE ChainOrdered(records[s])'
    <2>1. PICK r \in Record : r = records'[s]
        BY <1>1, <1>4, Zenon DEF IsValid
    <2>2. ChainOrdered(r)
        <3>1. CASE s = slot
            BY Zenon, <1>2, <2>1, <3>1
        <3>2. CASE s # slot
            <4>1. r = records[s] /\ IsValid(records[s])
                BY Zenon, <1>2, <1>4, <2>1, <3>2 DEF IsValid, Exists
            <4>2. QED
                BY Zenon, <4>1 DEF IInv, ChainsOrdered
        <3>3. QED
            BY Zenon, <3>1, <3>2
    <2>3. ChainOrdered(r)'
        BY Zenon, <2>2, WriteKeepsChains
    <2>4. QED
        BY Zenon, <2>1, <2>3 DEF ChainOrdered
<1>5. QED
    BY Zenon, <1>1, <1>3, <1>4 DEF ChainsOrdered

----------------------------------------------------------------------------
(* Every step preserves the invariant.                                     *)

LEMMA InitInv == Init => IInv
BY AttemptsAssumption DEF Init, IInv, TypeOK, ChainsOrdered, IsValid, Attempt

LEMMA PutStartInv ==
    ASSUME IInv, NEW key \in Key, NEW location \in [block: 0 .. nextBlock - 1, offset: Offset],
           PutStart(key, location)
    PROVE  IInv'
<1> DEFINE record == [key |-> key, attempt |-> 0, location |-> location]
<1>1. record \in Record
    <2>1. nextBlock \in Nat
        BY Zenon DEF IInv, TypeOK
    <2>2. location \in Location
        BY <2>1 DEF Location
    <2>3. 0 \in Attempt
        BY AttemptsAssumption DEF Attempt
    <2>4. QED
        BY Zenon, <2>2, <2>3 DEF Record
<1>2. /\ put' = [record |-> record, iteration |-> 1]
      /\ UNCHANGED <<hash, records, oldestBlock, nextBlock>>
      /\ Exists(record.location)
    BY Zenon DEF PutStart
<1>3. record.attempt = 0
    BY Zenon
<1> HIDE DEF record
<1>4. put' \in [record: Record, iteration: 1 .. MaximumPutAttempts]
    BY <1>1, <1>2, AttemptsAssumption
<1>5. TypeOK'
    BY Zenon, <1>2, <1>4 DEF IInv, TypeOK
<1>6. ChainsOrdered'
    BY Zenon, <1>2 DEF IInv, ChainsOrdered, ChainOrdered, IsValid, Exists
<1>7. Exists(put.record.location)' /\ ChainOrdered(put.record)'
    BY <1>2, <1>3 DEF Exists, ChainOrdered
<1>8. QED
    BY Zenon, <1>2, <1>5, <1>6, <1>7 DEF IInv

LEMMA PutInsertedInv ==
    ASSUME IInv, PutInserted
    PROVE  IInv'
<1>1. /\ put # None
      /\ ~IsValid(records[PutSlot])
      /\ records' = [records EXCEPT ![PutSlot] = put.record]
      /\ UNCHANGED <<hash, oldestBlock, nextBlock>>
      /\ put' = None
    BY Zenon DEF PutInserted, PutReturns, OldRecord
<1>2. /\ put.record \in Record
      /\ PutSlot \in Slot
      /\ Exists(put.record.location)
      /\ ChainOrdered(put.record)
      /\ PutSlot = hash[put.record.key][put.record.attempt]
    BY Zenon, <1>1, PutTypes DEF IInv, PutSlot
<1>3. /\ records' \in [Slot -> Record \cup {None}]
      /\ \A s \in Slot : records'[s] # None =>
            /\ s = hash'[records'[s].key][records'[s].attempt]
            /\ records'[s].location.block < nextBlock'
      /\ ChainsOrdered'
    BY Zenon, <1>1, <1>2, WriteKeepsTable
<1>4. QED
    BY Zenon, <1>1, <1>3 DEF IInv, TypeOK

LEMMA PutUpdatedInv ==
    ASSUME IInv, PutUpdated
    PROVE  IInv'
<1>1. /\ put # None
      /\ IsValid(records[PutSlot])
      /\ IsOlder(records[PutSlot].location, put.record.location)
      /\ records' = [records EXCEPT ![PutSlot] = put.record]
      /\ UNCHANGED <<hash, oldestBlock, nextBlock>>
      /\ put' = None
    BY Zenon DEF PutUpdated, IsUpdate, PutReturns, OldRecord
<1>2. /\ put.record \in Record
      /\ PutSlot \in Slot
      /\ Exists(put.record.location)
      /\ ChainOrdered(put.record)
      /\ PutSlot = hash[put.record.key][put.record.attempt]
    BY Zenon, <1>1, PutTypes DEF IInv, PutSlot
<1>3. ~IsOlder(put.record.location, records[PutSlot].location)
    BY Zenon, <1>1, PutTypes, IsOlderAsymmetric DEF IInv, OldRecord, IsValid
<1>4. /\ records' \in [Slot -> Record \cup {None}]
      /\ \A s \in Slot : records'[s] # None =>
            /\ s = hash'[records'[s].key][records'[s].attempt]
            /\ records'[s].location.block < nextBlock'
      /\ ChainsOrdered'
    BY Zenon, <1>1, <1>2, <1>3, WriteKeepsTable
<1>5. QED
    BY Zenon, <1>1, <1>4 DEF IInv, TypeOK

LEMMA PutIgnoredOlderInv ==
    ASSUME IInv, PutIgnoredOlder
    PROVE  IInv'
BY Zenon DEF PutIgnoredOlder, PutReturns, IInv, TypeOK, ChainsOrdered, ChainOrdered,
       IsValid, Exists

\* The record that Put goes on with has its chain in order up to and including
\* the slot that was just looked at.
LEMMA PutCollidedInv ==
    ASSUME IInv, PutCollided
    PROVE  IInv'
<1>1. PICK record : record = (IF Displaces THEN OldRecord ELSE put.record)
    BY Zenon
<1>2. /\ put # None
      /\ IsValid(OldRecord)
      /\ records' = IF Displaces THEN [records EXCEPT ![PutSlot] = put.record]
                    ELSE records
      /\ UNCHANGED <<hash, oldestBlock, nextBlock>>
      /\ \/ put' = None
         \/ /\ ~OutOfAttempts(record)
            /\ put.iteration < MaximumPutAttempts
            /\ put' = [record |-> [record EXCEPT !.attempt = @ + 1],
                       iteration |-> put.iteration + 1]
    BY Zenon, <1>1 DEF PutCollided, PutReturns
<1>3. /\ put.record \in Record
      /\ put.record.location \in Location
      /\ put.iteration \in 1 .. MaximumPutAttempts
      /\ PutSlot \in Slot
      /\ OldRecord \in Record
      /\ OldRecord.location \in Location
      /\ PutSlot = hash[OldRecord.key][OldRecord.attempt]
      /\ PutSlot = hash[put.record.key][put.record.attempt]
      /\ OldRecord = records[PutSlot]
    BY Zenon, <1>2, PutTypes DEF IInv, PutSlot, OldRecord, IsValid
<1>4. /\ Exists(put.record.location) /\ ChainOrdered(put.record)
      /\ Exists(OldRecord.location) /\ ChainOrdered(OldRecord)
    BY Zenon, <1>2, <1>3 DEF IInv, ChainsOrdered, IsValid
<1>5. /\ record \in Record
      /\ record.location \in Location
      /\ Exists(record.location)
      /\ ChainOrdered(record)
      /\ PutSlot = hash[record.key][record.attempt]
    BY Zenon, <1>1, <1>3, <1>4
<1>6. Displaces => ~IsOlder(put.record.location, OldRecord.location)
    BY Zenon, <1>3, IsOlderAsymmetric DEF Displaces
<1>7. /\ records' \in [Slot -> Record \cup {None}]
      /\ \A s \in Slot : records'[s] # None =>
            /\ s = hash'[records'[s].key][records'[s].attempt]
            /\ records'[s].location.block < nextBlock'
      /\ ChainsOrdered'
    <2>1. CASE Displaces
        BY Zenon, <1>2, <1>3, <1>4, <1>6, <2>1, WriteKeepsTable
    <2>2. CASE ~Displaces
        BY ZenonT(30), <1>2, <2>2 DEF IInv, TypeOK, ChainsOrdered, ChainOrdered, IsValid, Exists
    <2>3. QED
        BY Zenon, <2>1, <2>2
<1>8. ChainOrdered(record)'
    <2>1. CASE Displaces
        BY Zenon, <1>2, <1>3, <1>4, <1>5, <1>6, <2>1, WriteKeepsChains
    <2>2. CASE ~Displaces
        BY Zenon, <1>2, <1>5, <2>2 DEF ChainOrdered, IsValid, Exists
    <2>3. QED
        BY Zenon, <2>1, <2>2
<1>9. \E passed \in Record :
          /\ passed = records'[hash[record.key][record.attempt]]
          /\ Exists(passed.location)
          /\ ~IsOlder(passed.location, record.location)
    <2>1. CASE Displaces
        <3>1. records'[PutSlot] = put.record
            BY Zenon, <1>2, <1>3, <2>1 DEF IInv, TypeOK
        <3>2. QED
            BY Zenon, <1>1, <1>3, <1>4, <1>5, <1>6, <2>1, <3>1
    <2>2. CASE ~Displaces
        BY Zenon, <1>1, <1>2, <1>3, <1>4, <1>5, <2>2 DEF Displaces
    <2>3. QED
        BY Zenon, <2>1, <2>2
<1>10. CASE put' = None
    BY Zenon, <1>2, <1>7, <1>10 DEF IInv, TypeOK
<1>11. CASE put' # None
    <2> DEFINE next == [record EXCEPT !.attempt = @ + 1]
    <2>1. /\ record.attempt \in Nat
          /\ record.attempt + 1 \in Attempt
          /\ put.iteration + 1 \in 1 .. MaximumPutAttempts
        BY <1>2, <1>3, <1>5, <1>11, AttemptsAssumption DEF OutOfAttempts, Record, Attempt
    <2>2. /\ next \in Record
          /\ next.key = record.key
          /\ next.attempt = record.attempt + 1
          /\ next.location = record.location
        BY Zenon, <1>5, <2>1 DEF Record
    <2>3. put' = [record |-> next, iteration |-> put.iteration + 1]
        BY Zenon, <1>2, <1>11
    <2> HIDE DEF next
    <2>4. TypeOK'
        BY Zenon, <1>2, <1>7, <2>1, <2>2, <2>3 DEF IInv, TypeOK
    <2>5. Exists(put.record.location)'
        BY Zenon, <1>2, <1>5, <2>2, <2>3 DEF Exists
    <2>6. ChainOrdered(next)'
        <3> SUFFICES ASSUME NEW a \in 0 .. record.attempt
                     PROVE  /\ IsValid(records[hash[record.key][a]])'
                            /\ ~IsOlder(records'[hash'[record.key][a]].location,
                                        record.location)
            BY SMTT(30), <2>1, <2>2 DEF ChainOrdered
        <3>1. CASE a = record.attempt
            BY Zenon, <1>2, <1>9, <3>1, NoneAssumption DEF IsValid, Exists
        <3>2. CASE a # record.attempt
            <4>1. a \in 0 .. record.attempt - 1
                BY <2>1, <3>2
            <4>2. QED
                BY Zenon, <1>8, <4>1 DEF ChainOrdered
        <3>3. QED
            BY Zenon, <3>1, <3>2
    <2>7. ChainOrdered(put.record)'
        BY Zenon, <2>3, <2>6 DEF ChainOrdered
    <2>8. QED
        BY Zenon, <1>7, <2>4, <2>5, <2>7 DEF IInv
<1>12. QED
    BY Zenon, <1>10, <1>11

LEMMA PushBackInv ==
    ASSUME IInv, PushBack
    PROVE  IInv'
<1>1. \A s \in Slot : IsValid(records[s])' <=> IsValid(records[s])
    BY SMTT(30) DEF IInv, TypeOK, PushBack, IsValid, Exists, Record, Location
<1>2. ASSUME NEW s \in Slot, IsValid(records[s]) PROVE ChainOrdered(records[s])'
    <2>1. records[s] \in Record
        BY Zenon, <1>2 DEF IInv, TypeOK, IsValid
    <2>2. \A a \in 0 .. records[s].attempt - 1 : hash[records[s].key][a] \in Slot
        BY <2>1, AttemptsAssumption DEF IInv, TypeOK, Record, Attempt
    <2>3. ChainOrdered(records[s])
        BY Zenon, <1>2 DEF IInv, ChainsOrdered
    <2>4. QED
        BY Zenon, <1>1, <2>2, <2>3 DEF ChainOrdered, PushBack
<1>3. ChainsOrdered'
    BY Zenon, <1>1, <1>2 DEF ChainsOrdered
<1>4. TypeOK'
    BY DEF IInv, TypeOK, PushBack
<1>5. \A s \in Slot : records'[s] # None => records'[s].location.block < nextBlock'
    BY DEF IInv, TypeOK, PushBack, Record, Location
<1>6. QED
    BY Zenon, <1>3, <1>4, <1>5 DEF IInv, PushBack

\* A record that is still valid is passed by records that are not older.
LEMMA PopFrontInv ==
    ASSUME IInv, PopFront
    PROVE  IInv'
<1>1. ASSUME NEW s \in Slot, IsValid(records[s])' PROVE ChainOrdered(records[s])'
    <2>1. IsValid(records[s]) /\ records[s] \in Record
        BY <1>1 DEF IInv, TypeOK, PopFront, IsValid, Exists, Record, Location
    <2> SUFFICES ASSUME NEW a \in 0 .. records[s].attempt - 1
                 PROVE  /\ IsValid(records[hash[records[s].key][a]])'
                        /\ ~IsOlder(records[hash[records[s].key][a]].location,
                                    records[s].location)
        BY Zenon DEF ChainOrdered, PopFront
    <2>2. PICK passed : passed = records[hash[records[s].key][a]]
        BY Zenon
    <2>3. IsValid(passed) /\ ~IsOlder(passed.location, records[s].location)
        BY Zenon, <2>1, <2>2 DEF IInv, ChainsOrdered, ChainOrdered
    <2>4. hash[records[s].key][a] \in Slot
        BY SMTT(30), <2>1, AttemptsAssumption DEF IInv, TypeOK, Record, Attempt
    <2>5. /\ passed.location \in Location
          /\ records[s].location \in Location
        BY Zenon, <2>1, <2>2, <2>3, <2>4 DEF IInv, TypeOK, IsValid, Record
    <2>6. records[s].location.block <= passed.location.block
        BY <2>3, <2>5, LocationNumbers DEF IsOlder
    <2>7. Exists(passed.location)'
        BY <1>1, <2>3, <2>5, <2>6, LocationNumbers DEF PopFront, Exists, IsValid, IInv, TypeOK
    <2>8. QED
        BY Zenon, <2>2, <2>3, <2>7 DEF IsValid, PopFront, Exists
<1>2. ChainsOrdered'
    BY Zenon, <1>1 DEF ChainsOrdered, PopFront
<1>3. QED
    BY SMTT(30), <1>2 DEF IInv, TypeOK, PopFront

LEMMA NextInv ==
    ASSUME IInv, [Next]_vars
    PROVE  IInv'
<1>1. CASE UNCHANGED vars
    BY Zenon, <1>1 DEF vars, IInv, TypeOK, ChainsOrdered, ChainOrdered, IsValid, Exists
<1>2. ASSUME NEW key \in Key, NEW location \in [block: 0 .. nextBlock - 1, offset: Offset],
             PutStart(key, location)
      PROVE  IInv'
    BY Zenon, <1>2, PutStartInv
<1>3. QED
    BY Zenon, <1>1, <1>2, PutInsertedInv, PutUpdatedInv, PutIgnoredOlderInv,
       PutCollidedInv, PushBackInv, PopFrontInv DEF Next

----------------------------------------------------------------------------
(* Theorems.                                                               *)

\* The inductive invariant holds in every reachable state.
THEOREM Invariance == Spec => []IInv
BY InitInv, NextInv, PTL DEF Spec

\* Records are stored where Get() looks for them, and Put() never carries a
\* record whose attempts have run out.
THEOREM TypeCorrect == Spec => []TypeOK
<1>1. IInv => TypeOK
    BY Zenon DEF IInv
<1>2. QED
    BY <1>1, Invariance, PTL

\* The comment in Get() is right: what lies behind an invalid record is older,
\* and therefore invalid as well.
THEOREM ChainOrder == Spec => []ChainsOrdered
<1>1. IInv => ChainsOrdered
    BY Zenon DEF IInv
<1>2. QED
    BY <1>1, Invariance, PTL

\* A nonempty set of natural numbers has a least element.
LEMMA LeastNatural ==
    ASSUME NEW T, T \subseteq Nat, T # {}
    PROVE  \E n \in T : \A m \in T : n <= m
<1>1. PICK x \in T : \A y \in T : ~(<<y, x>> \in OpToRel(<, Nat))
    BY Zenon, WFMin, NatLessThanWellFounded
<1>2. ASSUME NEW y \in T PROVE ~(y < x)
    <2>1. y \in Nat /\ x \in Nat
        BY Zenon
    <2>2. y < x => <<y, x>> \in OpToRel(<, Nat)
        BY Zenon, <2>1 DEF OpToRel
    <2>3. QED
        BY Zenon, <1>1, <2>2
<1>3. QED
    BY <1>2

\* If some attempt at finding key stops, Get() stops at the first such one.
LEMMA GetStopsFirst ==
    ASSUME NEW table, NEW key, NEW attempt \in Attempt, GetStops(table, key, attempt)
    PROVE  \E n \in Attempt :
              /\ n <= attempt
              /\ GetStops(table, key, n)
              /\ \A b \in 0 .. n - 1 : ~GetStops(table, key, b)
<1> DEFINE T == {n \in Attempt : GetStops(table, key, n)}
<1>1. PICK n \in T : \A m \in T : n <= m
    <2>1. T \subseteq Nat /\ T # {}
        BY DEF Attempt
    <2> HIDE DEF T
    <2>2. QED
        BY Zenon, <2>1, LeastNatural
<1>2. n \in Attempt /\ n <= attempt /\ GetStops(table, key, n)
    BY Zenon, <1>1
<1>3. ASSUME NEW b \in 0 .. n - 1 PROVE ~GetStops(table, key, b)
    <2>1. b \in Attempt /\ ~(n <= b)
        BY <1>2, AttemptsAssumption DEF Attempt
    <2>2. QED
        BY Zenon, <1>1, <2>1
<1>4. QED
    BY Zenon, <1>2, <1>3

\* Get() returns the location of the valid record at the first stop.
LEMMA GetAtFirstStop ==
    ASSUME NEW table, NEW key, NEW n \in Attempt, GetStops(table, key, n),
           \A b \in 0 .. n - 1 : ~GetStops(table, key, b),
           IsValid(table[hash[key][n]])
    PROVE  Get(table, key) = table[hash[key][n]].location
<1> DEFINE First(m) == GetStops(table, key, m)
                          /\ \A b \in 0 .. m - 1 : ~GetStops(table, key, b)
<1>1. ASSUME NEW m \in Attempt, First(m) PROVE m = n
    <2>1. m \in Nat /\ n \in Nat
        BY AttemptsAssumption DEF Attempt
    <2>2. ~(m \in 0 .. n - 1) /\ ~(n \in 0 .. m - 1)
        BY Zenon, <1>1
    <2>3. QED
        BY <2>1, <2>2
<1>2. (CHOOSE m \in Attempt : First(m)) = n
    BY Zenon, <1>1
<1>3. QED
    BY Zenon, <1>2 DEF Get

\* Get() finds the newest of the valid records of every key.
THEOREM NewestFound == Spec => []NewestRecordFound
<1>1. ASSUME IInv, NEW s \in Slot, IsValid(records[s])
      PROVE  /\ Get(records, records[s].key) # None
             /\ ~IsOlder(Get(records, records[s].key), records[s].location)
    <2>1. PICK record \in Record : record = records[s]
        BY Zenon, <1>1 DEF IInv, TypeOK, IsValid
    <2>2. /\ s = hash[record.key][record.attempt]
          /\ record.attempt \in Attempt
          /\ record.location \in Location
          /\ record.attempt \in Nat
        BY SMTT(30), <1>1, <2>1, AttemptsAssumption DEF IInv, TypeOK, IsValid, Record, Attempt
    <2>3. GetStops(records, record.key, record.attempt)
        BY Zenon, <2>1, <2>2 DEF GetStops, SameRecordKey
    <2>4. PICK n \in Attempt :
              /\ n <= record.attempt
              /\ GetStops(records, record.key, n)
              /\ \A b \in 0 .. n - 1 : ~GetStops(records, record.key, b)
        BY Zenon, <2>2, <2>3, GetStopsFirst
    <2>5. PICK found : found = records[hash[record.key][n]]
        BY Zenon
    <2>6. IsValid(found) /\ ~IsOlder(found.location, record.location)
        <3>1. CASE n = record.attempt
            BY Zenon, <1>1, <2>1, <2>2, <2>5, <3>1, IsOlderIrreflexive
        <3>2. CASE n # record.attempt
            <4>1. n \in 0 .. record.attempt - 1
                BY <2>2, <2>4, <3>2, AttemptsAssumption DEF Attempt
            <4>2. ChainOrdered(record)
                BY Zenon, <1>1, <2>1 DEF IInv, ChainsOrdered
            <4>3. QED
                BY Zenon, <2>5, <4>1, <4>2 DEF ChainOrdered
        <3>3. QED
            BY Zenon, <3>1, <3>2
    <2>7. Get(records, record.key) = found.location
        BY <2>4, <2>5, <2>6, GetAtFirstStop
    <2>8. found.location \in Location
        <3>1. hash[record.key][n] \in Slot
            BY <1>1 DEF IInv, TypeOK, Record
        <3>2. QED
            BY Zenon, <1>1, <2>5, <2>6, <3>1 DEF IInv, TypeOK, IsValid, Record
    <2>9. QED
        BY Zenon, <2>1, <2>6, <2>7, <2>8, NoneAssumption
<1>2. IInv => NewestRecordFound
    BY Zenon, <1>1 DEF NewestRecordFound
<1>3. QED
    BY <1>2, Invariance, PTL

\* The table of records is in order: all of the above.
THEOREM TableCorrect == Spec => []TableConsistent
<1>1. TypeOK /\ ChainsOrdered /\ NewestRecordFound
      => TableConsistent
    BY Zenon DEF TableConsistent
<1>2. QED
    BY <1>1, TypeCorrect, ChainOrder, NewestFound, PTL
============================================================================
