-------------------------- MODULE MCZramRecompress --------------------------
(***************************************************************************)
(* ZramRecompress for TLC: one secondary algorithm, as the module ships.   *)
(***************************************************************************)
EXTENDS ZramRecompress, TLC

(* What the primary and the secondary algorithm make of a page: the        *)
(* secondary wins on an incompressible page, and not on a small one.       *)
Shrinks == (0 :> 3) @@ (1 :> 1)
Stays   == (0 :> 2) @@ (1 :> 2)
TwoContents == {Shrinks, Stays}

OtherRequests == {[node |-> "sync", mode |-> "huge", thr |-> 2, algo |-> 1]}
NoRequests == {}
=============================================================================
