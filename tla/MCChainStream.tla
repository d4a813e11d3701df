--------------------------- MODULE MCChainStream ---------------------------
(***************************************************************************)
(* Small instances of ChainStream for TLC.                                 *)
(***************************************************************************)
EXTENDS ChainStream
=============================================================================
