------------------------------- MODULE MCEevdf -------------------------------
(* Eevdf for TLC: the entities are interchangeable.                        *)
EXTENDS Eevdf, TLC
CONSTANTS a, b, c
Interchangeable == Permutations(Entities)
=============================================================================
