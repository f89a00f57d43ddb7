----------------------------- MODULE MCRaopPlay -----------------------------
(* TLC instance of RaopPlay: the table of raop_play.c (4 entries), two    *)
(* source descriptors (a reopened source may reuse one, and two can be    *)
(* open at once after "play <song>"), and frames of two write units so    *)
(* that a TCP frame can be half written.                                   *)
EXTENDS RaopPlay

MCMaxFds == 4
MCFrameLen == 2
=============================================================================
