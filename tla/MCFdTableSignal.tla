--------------------------- MODULE MCFdTableSignal ---------------------------
(***************************************************************************)
(* FdTableSignal with three entries and the two descriptors of the main    *)
(* thread beside stdin's: enough for an entry to be cleared while every    *)
(* entry before it is taken, so that the handler's scan picks it.          *)
(***************************************************************************)
EXTENDS FdTableSignal

MCMaxFds == 3
=============================================================================
