--------------------------- MODULE MCZramWriteback ---------------------------
(***************************************************************************)
(* ZramWriteback for TLC.                                                  *)
(***************************************************************************)
EXTENDS ZramWriteback, TLC

(* Page contents and concurrent callers are interchangeable.               *)
Interchangeable == Permutations(Vals) \cup Permutations(Sweeps)
=============================================================================
