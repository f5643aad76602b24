--------------------------- MODULE MCResultCache ---------------------------
(* Two processes that share a cache directory.                              *)
EXTENDS ResultCache

CONSTANTS p1, p2
=============================================================================
