------------------------- MODULE MCFileCoordinator -------------------------
(***************************************************************************)
(* Two or three processes that share a coordination directory.             *)
(***************************************************************************)
EXTENDS FileCoordinator
=============================================================================
