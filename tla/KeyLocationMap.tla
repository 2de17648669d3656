--------------------------- MODULE KeyLocationMap ---------------------------
(***************************************************************************)
(* What a KeyLocationMap (pkg/blobstore/local/key_location_map.go)         *)
(* promises: a map from keys to locations that may lose entries, but never *)
(* returns a location other than the newest one that was stored for a key. *)
(* Blocks are numbered from the first one ever created; the block list     *)
(* holds blocks oldestBlock up to and excluding nextBlock.                 *)
(***************************************************************************)
EXTENDS Integers

CONSTANTS
    Key,
    None,        \* no location
    Offset       \* offsets within a block at which blobs start

VARIABLES map, oldestBlock, nextBlock

Location == [block: Nat, offset: Offset]

\* Location.IsOlder
IsOlder(a, b) ==
    a.block < b.block \/ (a.block = b.block /\ a.offset < b.offset)

Exists(location) == oldestBlock <= location.block /\ location.block < nextBlock

Init ==
    /\ map = [k \in Key |-> None]
    /\ oldestBlock = 0
    /\ nextBlock = 0

\* A location replaces an older one.
Stored(m, key, location) ==
    [m EXCEPT ![key] = IF m[key] = None \/ IsOlder(m[key], location)
                       THEN location
                       ELSE m[key]]

\* To make room, one entry may be lost: the new one, or that of a key whose
\* location is older than it.
Put(key, location) ==
    /\ Exists(location)
    /\ \E lost \in SUBSET Key :
          /\ \A k, l \in lost : k = l
          /\ \A k \in lost : k = key \/ (map[k] # None /\ IsOlder(map[k], location))
          /\ map' = [k \in Key |-> IF k \in lost THEN None
                                   ELSE Stored(map, key, location)[k]]
    /\ UNCHANGED <<oldestBlock, nextBlock>>

PushBack ==
    /\ nextBlock' = nextBlock + 1
    /\ UNCHANGED <<map, oldestBlock>>

\* Entries disappear together with the block they refer to.
PopFront ==
    /\ oldestBlock < nextBlock
    /\ oldestBlock' = oldestBlock + 1
    /\ map' = [k \in Key |->
           IF map[k] # None /\ map[k].block = oldestBlock THEN None ELSE map[k]]
    /\ UNCHANGED nextBlock

Next ==
    \/ \E key \in Key, location \in [block: 0 .. nextBlock - 1, offset: Offset] :
          Put(key, location)
    \/ PushBack
    \/ PopFront

Spec == Init /\ [][Next]_<<map, oldestBlock, nextBlock>>
============================================================================
