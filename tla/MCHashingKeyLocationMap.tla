---------------------- MODULE MCHashingKeyLocationMap ----------------------
(***************************************************************************)
(* A small instance of HashingKeyLocationMap, for every hash function.     *)
(* Keys and slots are only compared for equality, and the initial states   *)
(* are closed under their permutation.                                     *)
(***************************************************************************)
EXTENDS HashingKeyLocationMap, TLC

MCSymmetry == Permutations(Key) \cup Permutations(Slot)
============================================================================
