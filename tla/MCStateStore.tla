---------------------------- MODULE MCStateStore ----------------------------
(* The store on its own, small enough to be explored exhaustively.          *)
EXTENDS StateStore, TLC

\* Paths and post ids are interchangeable: no operator orders or chooses them.
Interchangeable == Permutations(Paths) \cup Permutations(Posts)
=============================================================================
