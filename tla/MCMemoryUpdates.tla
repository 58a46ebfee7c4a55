--------------------------- MODULE MCMemoryUpdates ---------------------------
(***************************************************************************)
(* Instances of MemoryUpdates for TLC.                                     *)
(***************************************************************************)
EXTENDS MemoryUpdatesProps
=============================================================================
