----------------------------- MODULE MCFdTable -------------------------------
(***************************************************************************)
(* Two entries and three descriptors: the table fills up and a third       *)
(* descriptor is refused, an entry freed before the other is refilled,     *)
(* and a descriptor is registered again with other flags.                  *)
(***************************************************************************)
EXTENDS FdTable

MCMaxFds == 2
=============================================================================
