------------------------------ MODULE MCIndexer ------------------------------
(* Two documents; a text that is blank, of one chunk, or of two.            *)
EXTENDS Indexer, TLC

CONSTANTS r1, r2, blank, one, two

ChunksOf == (blank :> 0) @@ (one :> 1) @@ (two :> 2)
=============================================================================
