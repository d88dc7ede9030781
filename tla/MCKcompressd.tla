---------------------------- MODULE MCKcompressd ----------------------------
(***************************************************************************)
(* Kcompressd for TLC.                                                     *)
(***************************************************************************)
EXTENDS Kcompressd, TLC

(* Pages and slots are interchangeable; so are their permutations.         *)
Interchangeable == Permutations(Pages) \cup Permutations(Slots)
=============================================================================
