--------------------------- MODULE MCFetchChunks ---------------------------
(* Model-checking instance of FetchChunks.                                 *)
EXTENDS FetchChunks
============================================================================
