----------------------- MODULE MCPersistentBlockList -----------------------
(***************************************************************************)
(* A small instance of PersistentBlockList: a fresh store, and a store     *)
(* restored from a state of two blocks with one and two epochs.  Epoch IDs *)
(* start just below the point where they wrap around.  Locations are only  *)
(* compared, and the initial states are closed under their permutation, so *)
(* they may be a symmetry set.                                             *)
(***************************************************************************)
EXTENDS PersistentBlockList, TLC

CONSTANT s

MCSeed == {s}

MCInitialState ==
    {[oldestEpochID |-> EpochIDs - 1, blocks |-> <<>>]}
    \cup
    {[oldestEpochID |-> EpochIDs - 2,
      blocks |-> <<[location |-> p[1], writeOffsetBytes |-> 1,
                    epochHashSeeds |-> <<s>>],
                   [location |-> p[2], writeOffsetBytes |-> 1,
                    epochHashSeeds |-> <<s, s>>]>>] :
         p \in {q \in Location \X Location : q[1] # q[2]}}

LocationSymmetry == Permutations(Location)
============================================================================
