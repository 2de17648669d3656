------------------------ MODULE MCPersistentStorage ------------------------
(***************************************************************************)
(* Small instances of PersistentStorage.                                   *)
(***************************************************************************)
EXTENDS PersistentStorage

CONSTANTS l1, l2

MCLocation == {l1, l2}
MCInitialOffsets == <<l1, l2>>
MCSingleLocation == {l1}
MCSingleOffset == <<l1>>
MCInitialState == {NewPersistentState}
============================================================================
